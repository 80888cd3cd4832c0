---------------------------- MODULE EngineProofs ----------------------------
(***************************************************************************)
(* Theorems about Engine, for any jobs, any submitters and workers, and    *)
(* channels of any capacity.                                               *)
(***************************************************************************)
EXTENDS Engine, SequenceTheorems, TLAPS

\* What receiving from a channel leaves.
LEMMA Received ==
  ASSUME NEW S, NEW chan \in Seq(S), chan # <<>>
  PROVE  /\ Head(chan) \in S /\ Tail(chan) \in Seq(S)
         /\ Len(Tail(chan)) = Len(chan) - 1
  OBVIOUS

\* What sending on a channel leaves.
LEMMA Sent ==
  ASSUME NEW S, NEW chan \in Seq(S), NEW x \in S
  PROVE  /\ Append(chan, x) \in Seq(S)
         /\ Len(Append(chan, x)) = Len(chan) + 1
  OBVIOUS

-----------------------------------------------------------------------------
(* Types *)

\* Start leaves behind a well-typed pool.
LEMMA TypeInit == Init => TypeOK
  <1>1. <<>> \in Seq(Job) /\ Len(<<>>) = 0
    OBVIOUS
  <1>2. 0 <= JobsCap /\ 0 <= ResultsCap /\ 0 <= UserCap
    BY EngineAssumption
  <1> QED
    BY <1>1, <1>2 DEF Init, TypeOK

\* No call of SubmitJob breaks a type, nor fills Jobs beyond its capacity.
LEMMA SubmitType ==
  ASSUME TypeOK, NEW s \in Submitter, Submit(s)
  PROVE  TypeOK'
  <1> USE DEF TypeOK, workerVars, routeVars
  <1>1. CASE SubmitCheck(s)
    BY <1>1 DEF SubmitCheck
  <1>2. CASE SubmitFails(s)
    BY <1>2 DEF SubmitFails
  <1>3. CASE SubmitLock(s)
    BY <1>3 DEF SubmitLock
  <1>4. CASE SubmitSend(s)
    <2>1. CASE ~running
      BY <1>4, <2>1 DEF SubmitSend
    <2>2. CASE running
      <3>1. PICK job \in offer[s] : jobs' = Append(jobs, job) /\ Len(jobs) < JobsCap
        BY <1>4, <2>2 DEF SubmitSend, RoomInJobs
      <3>2. job \in Job
        OBVIOUS
      <3>3. jobs' \in Seq(Job) /\ Len(jobs') <= JobsCap
        BY <3>1, <3>2, Sent, EngineAssumption
      <3> QED
        BY <1>4, <3>3 DEF SubmitSend
    <2> QED
      BY <2>1, <2>2
  <1> QED
    BY <1>1, <1>2, <1>3, <1>4 DEF Submit

\* No worker breaks a type, nor fills Results beyond its capacity.
LEMMA WorkType ==
  ASSUME TypeOK, NEW w \in Worker, Work(w)
  PROVE  TypeOK'
  <1> USE DEF TypeOK, submitVars, routeVars
  <1>1. CASE WorkerTake(w)
    <2>1. Head(jobs) \in Job /\ jobs' \in Seq(Job) /\ Len(jobs') <= JobsCap
      BY <1>1, Received, EngineAssumption DEF WorkerTake
    <2> QED
      BY <1>1, <2>1 DEF WorkerTake
  <1>2. CASE WorkerProcess(w)
    BY <1>2 DEF WorkerProcess
  <1>3. CASE WorkerSend(w)
    <2>1. CASE ~resultsOpen
      BY <1>3, <2>1 DEF WorkerSend
    <2>2. CASE resultsOpen
      <3>1. PICK job \in held[w] : results' = Append(results, job) /\ Len(results) < ResultsCap
        BY <1>3, <2>2 DEF WorkerSend
      <3>2. job \in Job
        OBVIOUS
      <3>3. results' \in Seq(Job) /\ Len(results') <= ResultsCap
        BY <3>1, <3>2, Sent, EngineAssumption
      <3> QED
        BY <1>3, <3>3 DEF WorkerSend
    <2> QED
      BY <2>1, <2>2
  <1>4. CASE WorkerExit(w)
    BY <1>4 DEF WorkerExit
  <1> QED
    BY <1>1, <1>2, <1>3, <1>4 DEF Work

\* Nor does the result processor, Stop, the reader or the caller's context.
LEMMA TypeStep == TypeOK /\ [Next]_vars => TypeOK'
  <1> SUFFICES ASSUME TypeOK, [Next]_vars PROVE TypeOK'
    OBVIOUS
  <1>1. CASE \E s \in Submitter : Submit(s)
    BY <1>1, SubmitType
  <1>2. CASE \E w \in Worker : Work(w)
    BY <1>2, WorkType
  <1> USE DEF TypeOK, submitVars, workerVars, routeVars
  <1>3. CASE Route
    <2>1. CASE ProcessorDrain
      BY <2>1 DEF ProcessorDrain
    <2>2. CASE ProcessorTake
      <3>1. Head(results) \in Job /\ results' \in Seq(Job) /\ Len(results') <= ResultsCap
        BY <2>2, Received, EngineAssumption DEF ProcessorTake
      <3> QED
        BY <2>2, <3>1 DEF ProcessorTake
    <2>3. CASE ProcessorRoute
      <3>1. CASE UNCHANGED user
        BY <2>3, <3>1 DEF ProcessorRoute
      <3>2. ASSUME NEW job \in routing, user' = Append(user, job), Len(user) < UserCap
            PROVE  TypeOK'
        <4>1. user' \in Seq(Job) /\ Len(user') <= UserCap
          BY <3>2, Sent, EngineAssumption
        <4> QED
          BY <2>3, <4>1 DEF ProcessorRoute
      <3> QED
        BY <2>3, <3>1, <3>2 DEF ProcessorRoute
    <2>4. CASE ProcessorExit
      BY <2>4 DEF ProcessorExit
    <2> QED
      BY <1>3, <2>1, <2>2, <2>3, <2>4 DEF Route
  <1>4. CASE StopCall \/ StopSteps
    BY <1>4 DEF StopCall, StopSteps, StopCancel, StopCloseJobs, StopCloseResults, StopReturn
  <1>5. CASE Consume
    <2>1. user' \in Seq(Job) /\ Len(user') <= UserCap
      BY <1>5, Received, EngineAssumption DEF Consume
    <2> QED
      BY <1>5, <2>1 DEF Consume
  <1>6. CASE Cancel
    BY <1>6 DEF Cancel
  <1>7. CASE Quiet \/ UNCHANGED vars
    BY <1>7 DEF Quiet, vars
  <1> QED
    BY <1>1, <1>2, <1>3, <1>4, <1>5, <1>6, <1>7 DEF Next

\* Every state of the pool is well typed; above all no channel ever holds more
\* than its capacity.
THEOREM PoolTypeCorrect == Spec => []TypeOK
  BY TypeInit, TypeStep, PTL DEF Spec

-----------------------------------------------------------------------------
(* No send on a closed channel *)

\* Where Stop is tells which channels are open; a call that may send on Jobs
\* holds the read lock Stop needs to close it; and Results is closed after the
\* last worker, or after the patience of Stop.
Phases ==
    /\ running <=> stopper \in {"idle", "cancel", "lock"}
    /\ resultsOpen <=> stopper \notin {"tasks", "returned"}
    /\ \A s \in Submitter : submitter[s] = "sending" => running
    /\ ~resultsOpen => WorkersDone \/ "workers" \in hurried
    /\ NoSendOnClosed

LEMMA PhasesInit == Init => Phases
  BY DEF Init, Phases, NoSendOnClosed

LEMMA PhasesStep == TypeOK /\ Phases /\ [Next]_vars => Phases'
  <1> SUFFICES ASSUME TypeOK, Phases, [Next]_vars PROVE Phases'
    OBVIOUS
  <1> USE DEF TypeOK, Phases, NoSendOnClosed, WorkersDone, submitVars, workerVars, routeVars
  <1>1. ASSUME NEW s \in Submitter, Submit(s) PROVE Phases'
    BY <1>1 DEF Submit, SubmitCheck, SubmitFails, SubmitLock, StillRunning, SubmitSend
  <1>2. ASSUME NEW w \in Worker, Work(w) PROVE Phases'
    <2>1. CASE WorkerTake(w)
      BY <2>1 DEF WorkerTake
    <2>2. CASE WorkerProcess(w)
      BY <2>2 DEF WorkerProcess
    <2>3. CASE WorkerSend(w)
      BY <2>3 DEF WorkerSend
    <2>4. CASE WorkerExit(w)
      BY <2>4 DEF WorkerExit
    <2> QED
      BY <1>2, <2>1, <2>2, <2>3, <2>4 DEF Work
  <1>3. CASE Route
    BY <1>3 DEF Route, ProcessorDrain, ProcessorTake, ProcessorRoute, ProcessorExit
  <1>4. CASE StopCall \/ StopSteps
    BY <1>4 DEF StopCall, StopSteps, StopCancel, StopCloseJobs, LockFree, Readers,
                StopCloseResults, StopReturn
  <1>5. CASE Consume \/ Cancel \/ Quiet \/ UNCHANGED vars
    BY <1>5 DEF Consume, Cancel, Quiet, vars
  <1> QED
    BY <1>1, <1>2, <1>3, <1>4, <1>5 DEF Next

LEMMA PhasesInvariant == Spec => [](TypeOK /\ Phases)
  BY TypeInit, TypeStep, PhasesInit, PhasesStep, PTL DEF Spec

\* No call of SubmitJob panics on the closed Jobs, and no worker on the closed
\* Results before the patience of Stop ends.
THEOREM NoSendOnClosedHolds == Spec => []NoSendOnClosed
  <1>1. TypeOK /\ Phases => NoSendOnClosed
    BY DEF Phases
  <1> QED
    BY <1>1, PhasesInvariant, PTL

-----------------------------------------------------------------------------
(* The pool implements JobService *)

\* A job sent on a channel that does not hold it joins the others, once.
LEMMA SentOnce ==
  ASSUME NEW S, NEW chan \in Seq(S), IsInjective(chan), NEW x \in S, x \notin Range(chan)
  PROVE  /\ Range(Append(chan, x)) = Range(chan) \union {x}
         /\ IsInjective(Append(chan, x))
  <1> DEFINE longer == Append(chan, x)
  <1>1. /\ DOMAIN chan = 1..Len(chan) /\ Len(chan) \in Nat
        /\ DOMAIN longer = 1..(Len(chan) + 1)
        /\ \A i \in 1..Len(chan) : longer[i] = chan[i]
        /\ longer[Len(chan) + 1] = x
    OBVIOUS
  <1>2. \A i \in 1..Len(chan) : chan[i] # x
    BY <1>1 DEF Range
  <1> HIDE DEF longer
  <1>3. Range(longer) = Range(chan) \union {x}
    BY <1>1 DEF Range
  <1>4. IsInjective(longer)
    BY <1>1, <1>2 DEF IsInjective
  <1> QED
    BY <1>3, <1>4 DEF longer

\* The job received from a channel that holds it once leaves the others there.
LEMMA ReceivedOnce ==
  ASSUME NEW S, NEW chan \in Seq(S), IsInjective(chan), chan # <<>>
  PROVE  /\ Head(chan) \in S /\ Head(chan) \in Range(chan)
         /\ Range(Tail(chan)) = Range(chan) \ {Head(chan)}
         /\ IsInjective(Tail(chan))
  <1> DEFINE shorter == Tail(chan)
  <1>1. /\ DOMAIN chan = 1..Len(chan) /\ Len(chan) \in Nat \ {0}
        /\ DOMAIN shorter = 1..(Len(chan) - 1)
        /\ \A i \in 1..(Len(chan) - 1) : shorter[i] = chan[i + 1]
        /\ Head(chan) = chan[1] /\ Head(chan) \in S
    OBVIOUS
  <1> HIDE DEF shorter
  <1>2. Range(shorter) = Range(chan) \ {chan[1]}
    <2>1. ASSUME NEW i \in 1..(Len(chan) - 1)
          PROVE  shorter[i] \in Range(chan) /\ shorter[i] # chan[1]
      BY <1>1, i + 1 \in 1..Len(chan), 1 \in 1..Len(chan) DEF Range, IsInjective
    <2>2. ASSUME NEW i \in 1..Len(chan), chan[i] # chan[1]
          PROVE  chan[i] \in Range(shorter)
      <3>1. i - 1 \in 1..(Len(chan) - 1) /\ shorter[i - 1] = chan[i]
        BY <1>1, <2>2
      <3> QED
        BY <1>1, <3>1 DEF Range
    <2> QED
      BY <1>1, <2>1, <2>2 DEF Range
  <1>3. IsInjective(shorter)
    BY <1>1 DEF IsInjective
  <1>4. Head(chan) \in Range(chan)
    BY <1>1 DEF Range
  <1> QED
    BY <1>1, <1>2, <1>3, <1>4 DEF shorter

\* Hands that hold sets of jobs: what they hold together, and what they hold
\* after one is filled, or emptied.
LEMMA AllHands ==
  ASSUME NEW hand, NEW job
  PROVE  job \in UNION Range(hand) <=> \E d \in DOMAIN hand : job \in hand[d]
  BY DEF Range

LEMMA HandFilled ==
  ASSUME NEW hand, NEW d \in DOMAIN hand, hand[d] = {}, NEW job
  PROVE  UNION Range([hand EXCEPT ![d] = {job}]) = (UNION Range(hand)) \union {job}
  BY DEF Range

LEMMA HandEmptied ==
  ASSUME NEW hand, NEW d \in DOMAIN hand,
         \A e \in DOMAIN hand : e # d => hand[d] \cap hand[e] = {}
  PROVE  /\ UNION Range([hand EXCEPT ![d] = {}]) = (UNION Range(hand)) \ hand[d]
         /\ hand[d] \subseteq UNION Range(hand)
  BY DEF Range

Offered == UNION Range(offer)
InHand == UNION Range(held)

\* A job is in one place of the pool.
Apart ==
    /\ fresh \cap (Offered \union Working \union Range(user)) = {}
    /\ Offered \cap (Working \union Range(user)) = {}
    /\ Working \cap Range(user) = {}
    /\ Range(jobs) \cap (InHand \union Range(results) \union routing) = {}
    /\ InHand \cap (Range(results) \union routing) = {}
    /\ Range(results) \cap routing = {}

\* It is there once.
Once ==
    /\ IsInjective(jobs) /\ IsInjective(results) /\ IsInjective(user)
    /\ \A s, t \in Submitter : s # t => offer[s] \cap offer[t] = {}
    /\ \A w, v \in Worker : w # v => held[w] \cap held[v] = {}

\* A goroutine has one job in hand, or none, as its place says.
OneAtATime ==
    /\ \A s \in Submitter :
          IF submitter[s] = "idle" THEN offer[s] = {} ELSE \E job \in Job : offer[s] = {job}
    /\ \A w \in Worker :
          IF worker[w] \in {"idle", "exited"} THEN held[w] = {} ELSE \E job \in Job : held[w] = {job}
    /\ routing = {} \/ \E job \in Job : routing = {job}

\* The result processor leaves its loop when the context is done, and closes
\* UserResults with nothing in hand.
Processing ==
    /\ processor # "run" => ContextDone
    /\ userOpen <=> processor # "exited"
    /\ processor = "exited" => routing = {}

PoolInv == TypeOK /\ Phases /\ Apart /\ Once /\ OneAtATime /\ Processing

LEMMA PoolInvInit == Init => PoolInv /\ Service!ServiceInit
  <1> SUFFICES ASSUME Init PROVE PoolInv /\ Service!ServiceInit
    OBVIOUS
  <1>1. TypeOK /\ Phases
    BY TypeInit, PhasesInit
  <1>2. Offered = {} /\ InHand = {} /\ Range(<<>>) = {} /\ IsInjective(<<>>)
    BY DEF Init, Offered, InHand, Range, IsInjective
  <1>3. Working = {}
    BY <1>2 DEF Init, Working, InHand
  <1>4. Apart /\ Once /\ OneAtATime /\ Processing
    BY <1>2, <1>3 DEF Init, Apart, Once, OneAtATime, Processing
  <1>5. Service!ServiceInit
    BY <1>2, <1>3 DEF Init, Service!ServiceInit
  <1> QED
    BY <1>1, <1>4, <1>5 DEF PoolInv

\* What the job pool shows of itself to JobService.
ServiceStep == [Service!ServiceNext]_(Service!serviceVars)

\* Answers are records of the job alone.
LEMMA AnswerAdded ==
  ASSUME NEW S, NEW job
  PROVE  /\ [job: S \union {job}] = [job: S] \union {[job |-> job]}
         /\ [job: S \ {job}] = [job: S] \ {[job |-> job]}
  <1>1. ASSUME NEW answer \in [job: S] PROVE answer.job = job <=> answer = [job |-> job]
    OBVIOUS
  <1>2. ASSUME NEW answer
        PROVE  answer \in [job: S \ {job}] <=> answer \in [job: S] \ {[job |-> job]}
    BY <1>1
  <1>3. ASSUME NEW answer
        PROVE  answer \in [job: S \union {job}] <=> answer \in [job: S] \union {[job |-> job]}
    <2>1. answer \in [job: {job}] <=> answer = [job |-> job]
      OBVIOUS
    <2>2. answer \in [job: S \union {job}] <=> answer \in [job: S] \/ answer \in [job: {job}]
      OBVIOUS
    <2> QED
      BY <2>1, <2>2
  <1> QED
    BY <1>2, <1>3

\* SubmitJob takes a job nobody has, gives it up, or puts it on Jobs.
LEMMA SubmitImplements ==
  ASSUME PoolInv, NEW s \in Submitter, Submit(s)
  PROVE  Apart' /\ Once' /\ OneAtATime' /\ Processing' /\ ServiceStep
  <1> USE DEF PoolInv, TypeOK, workerVars, routeVars
  <1>0. DOMAIN offer = Submitter /\ \A t \in Submitter : t # s => offer[s] \cap offer[t] = {}
    BY DEF Once
  <1>1. CASE SubmitCheck(s)
    <2>1. PICK job \in fresh : fresh' = fresh \ {job} /\ offer' = [offer EXCEPT ![s] = {job}]
      BY <1>1 DEF SubmitCheck
    <2>2. offer[s] = {} /\ job \in Job
      BY <1>1 DEF SubmitCheck, OneAtATime
    <2>3. Offered' = Offered \union {job}
      <3>1. UNION Range([offer EXCEPT ![s] = {job}]) = (UNION Range(offer)) \union {job}
        BY <1>0, <2>2, HandFilled
      <3> QED
        BY <2>1, <3>1, Zenon DEF Offered
    <2>4. Working' = Working /\ Range(user)' = Range(user) /\ InHand' = InHand
      BY <1>1 DEF SubmitCheck, Working, InHand
    <2>5. Apart'
      BY <1>1, <2>1, <2>3, <2>4 DEF SubmitCheck, Apart
    <2>6. job \notin Offered
      BY DEF Apart
    <2>7. \A t \in Submitter : job \notin offer[t]
      BY <1>0, <2>6, AllHands DEF Offered
    <2>8. Once'
      BY <1>1, <2>1, <2>7 DEF SubmitCheck, Once
    <2>9. OneAtATime' /\ Processing'
      BY <1>1, <2>1, <2>2 DEF SubmitCheck, OneAtATime, Processing, ContextDone
    <2>10. ServiceStep
      BY <1>1, <2>4 DEF SubmitCheck, ServiceStep, Service!serviceVars
    <2> QED
      BY <2>5, <2>8, <2>9, <2>10
  <1>2. CASE SubmitFails(s)
    <2>1. Offered' = Offered \ offer[s]
      <3>1. UNION Range([offer EXCEPT ![s] = {}]) = (UNION Range(offer)) \ offer[s]
        BY <1>0, HandEmptied
      <3> QED
        BY <1>2, <3>1, Zenon DEF Offered, SubmitFails
    <2>2. Working' = Working /\ Range(user)' = Range(user) /\ InHand' = InHand
      BY <1>2 DEF SubmitFails, Working, InHand
    <2>3. Apart'
      BY <1>2, <2>1, <2>2 DEF SubmitFails, Apart
    <2>4. Once' /\ OneAtATime' /\ Processing'
      BY <1>2 DEF SubmitFails, Once, OneAtATime, Processing, ContextDone
    <2>5. ServiceStep
      BY <1>2, <2>2 DEF SubmitFails, ServiceStep, Service!serviceVars
    <2> QED
      BY <2>3, <2>4, <2>5
  <1>3. CASE SubmitLock(s)
    <2>1. /\ Working' = Working /\ Range(user)' = Range(user)
          /\ InHand' = InHand /\ Offered' = Offered
      BY <1>3 DEF SubmitLock, Working, InHand, Offered
    <2>2. Apart' /\ Once' /\ OneAtATime' /\ Processing'
      BY <1>3, <2>1 DEF SubmitLock, Apart, Once, OneAtATime, Processing, ContextDone
    <2>3. ServiceStep
      BY <1>3, <2>1 DEF SubmitLock, ServiceStep, Service!serviceVars
    <2> QED
      BY <2>2, <2>3
  <1>4. CASE SubmitSend(s)
    <2>1. running
      BY <1>4 DEF SubmitSend, Phases
    <2>2. PICK job \in offer[s] : jobs' = Append(jobs, job)
      BY <1>4, <2>1 DEF SubmitSend
    <2>3. offer[s] = {job} /\ job \in Job
      BY <1>4, <2>2 DEF SubmitSend, OneAtATime
    <2>4. Offered' = Offered \ {job} /\ job \in Offered
      <3>1. /\ UNION Range([offer EXCEPT ![s] = {}]) = (UNION Range(offer)) \ offer[s]
            /\ offer[s] \subseteq UNION Range(offer)
        BY <1>0, HandEmptied
      <3> QED
        BY <1>4, <2>3, <3>1, Zenon DEF Offered, SubmitSend
    <2>5. job \notin Range(jobs) /\ job \notin Working /\ job \notin Range(user)
      BY <2>4 DEF Apart, Working
    <2>6. Range(jobs') = Range(jobs) \union {job} /\ IsInjective(jobs')
      BY <2>2, <2>3, <2>5, SentOnce DEF Once
    <2>7. InHand' = InHand /\ Working' = Working \union {job} /\ Range(user)' = Range(user)
      BY <1>4, <2>6 DEF SubmitSend, InHand, Working
    <2>8. Apart'
      BY <1>4, <2>4, <2>5, <2>6, <2>7 DEF SubmitSend, Apart, Working, InHand
    <2>9. Once'
      BY <1>4, <2>6 DEF SubmitSend, Once
    <2>10. OneAtATime' /\ Processing'
      BY <1>4 DEF SubmitSend, OneAtATime, Processing, ContextDone
    <2>11. ~Service!Held(job) /\ Service!Accept(job)
      BY <1>4, <2>1, <2>5, <2>7 DEF SubmitSend, Service!Held, Service!Accept
    <2> QED
      BY <2>3, <2>8, <2>9, <2>10, <2>11 DEF ServiceStep, Service!ServiceNext
  <1> QED
    BY <1>1, <1>2, <1>3, <1>4 DEF Submit

\* A worker hands its job from Jobs to Results, or leaves and loses it.
LEMMA WorkImplements ==
  ASSUME PoolInv, NEW w \in Worker, Work(w)
  PROVE  Apart' /\ Once' /\ OneAtATime' /\ Processing' /\ ServiceStep
  <1> USE DEF submitVars, routeVars
  <1>0. DOMAIN held = Worker /\ \A v \in Worker : v # w => held[w] \cap held[v] = {}
    BY DEF Once, PoolInv, TypeOK
  <1>a. /\ jobs \in Seq(Job) /\ results \in Seq(Job)
        /\ IsInjective(jobs) /\ IsInjective(results)
    BY DEF Once, PoolInv, TypeOK
  <1>b. /\ UNION Range([held EXCEPT ![w] = {}]) = (UNION Range(held)) \ held[w]
        /\ held[w] \subseteq UNION Range(held)
    BY <1>0, HandEmptied
  <1>1. CASE WorkerTake(w)
    <2>0. PICK job \in Job : job = Head(jobs)
      BY <1>1, <1>a, ReceivedOnce DEF WorkerTake
    <2>1. held' = [held EXCEPT ![w] = {job}] /\ jobs' = Tail(jobs)
      BY <1>1, <2>0 DEF WorkerTake
    <2>2. held[w] = {} /\ job \in Job
      BY <1>1 DEF WorkerTake, OneAtATime, PoolInv
    <2>3. /\ job \in Range(jobs) /\ Range(jobs') = Range(jobs) \ {job}
          /\ IsInjective(jobs')
      BY <1>1, <1>a, <2>0, ReceivedOnce DEF WorkerTake
    <2>4. InHand' = InHand \union {job}
      <3>1. UNION Range([held EXCEPT ![w] = {job}]) = (UNION Range(held)) \union {job}
        BY <1>0, <2>2, HandFilled
      <3> QED
        BY <2>1, <3>1, Zenon DEF InHand
    <2>5. Working' = Working /\ Range(user)' = Range(user) /\ Offered' = Offered
      BY <1>1, <2>4, <2>3 DEF WorkerTake, Working, InHand, Offered
    <2>6. Apart'
      BY <1>1, <2>4, <2>3, <2>5 DEF WorkerTake, Apart, PoolInv
    <2>7. \A v \in Worker : job \notin held[v]
      <3>1. job \notin InHand
        BY <2>3 DEF Apart, PoolInv
      <3> QED
        BY <1>0, <3>1, AllHands DEF InHand
    <2>8. Once'
      BY <1>0, <1>1, <2>1, <2>3, <2>7 DEF WorkerTake, Once, PoolInv
    <2>9. OneAtATime'
      <3>1. /\ worker' = [worker EXCEPT ![w] = "busy"] /\ worker[w] = "idle"
            /\ UNCHANGED <<submitter, offer, routing>>
        BY <1>1 DEF WorkerTake
      <3>2. \A v \in Worker : v # w => worker'[v] = worker[v] /\ held'[v] = held[v]
        BY <1>0, <2>1, <3>1 DEF PoolInv, TypeOK
      <3>3. worker'[w] = "busy" /\ held'[w] = {job}
        BY <1>0, <2>1, <3>1 DEF PoolInv, TypeOK
      <3> QED
        BY <2>2, <3>1, <3>2, <3>3 DEF OneAtATime, PoolInv
    <2>10. Processing'
      BY <1>1 DEF WorkerTake, Processing, ContextDone, PoolInv
    <2>11. ServiceStep
      BY <1>1, <2>5 DEF WorkerTake, ServiceStep, Service!serviceVars
    <2> QED
      BY <2>6, <2>8, <2>9, <2>10, <2>11
  <1>2. CASE WorkerProcess(w)
    <2>1. /\ Working' = Working /\ Range(user)' = Range(user)
          /\ InHand' = InHand /\ Offered' = Offered
      BY <1>2 DEF WorkerProcess, Working, InHand, Offered
    <2>2. Apart' /\ Once' /\ OneAtATime' /\ Processing'
      BY <1>2, <2>1 DEF WorkerProcess, Apart, Once, OneAtATime, Processing, ContextDone,
                        PoolInv, TypeOK
    <2>3. ServiceStep
      BY <1>2, <2>1 DEF WorkerProcess, ServiceStep, Service!serviceVars
    <2> QED
      BY <2>2, <2>3
  <1>3. CASE WorkerSend(w)
    <2>1. PICK job \in Job : held[w] = {job}
      BY <1>3 DEF WorkerSend, OneAtATime, PoolInv
    <2>2. held' = [held EXCEPT ![w] = {}] /\ InHand' = InHand \ {job} /\ job \in InHand
      BY <1>3, <1>b, <2>1 DEF WorkerSend, InHand
    <2>3. /\ job \notin Range(jobs) /\ job \notin Range(results)
          /\ job \notin routing /\ job \in Working
      BY <2>2 DEF Apart, Working, InHand, PoolInv
    <2>4. Range(user)' = Range(user) /\ Offered' = Offered
      BY <1>3 DEF WorkerSend, Offered
    <2>5. CASE resultsOpen
      <3>1. results' = Append(results, job)
        BY <1>3, <2>1, <2>5 DEF WorkerSend
      <3>2. Range(results') = Range(results) \union {job} /\ IsInjective(results')
        BY <1>a, <2>3, <3>1, SentOnce
      <3>3. Working' = Working
        BY <1>3, <2>2, <3>2 DEF WorkerSend, Working, InHand
      <3>4. Apart'
        BY <1>3, <2>2, <2>3, <2>4, <3>2, <3>3 DEF WorkerSend, Apart, PoolInv
      <3>5. Once' /\ OneAtATime' /\ Processing'
        BY <1>3, <2>2, <3>2
           DEF WorkerSend, Once, OneAtATime, Processing, ContextDone, PoolInv, TypeOK
      <3>6. ServiceStep
        BY <1>3, <2>4, <3>3 DEF WorkerSend, ServiceStep, Service!serviceVars
      <3> QED
        BY <3>4, <3>5, <3>6
    <2>6. CASE ~resultsOpen
      <3>1. Working' = Working \ {job}
        BY <1>3, <2>2, <2>3, <2>6 DEF WorkerSend, Working, InHand
      <3>2. Apart'
        BY <1>3, <2>2, <2>4, <2>6, <3>1 DEF WorkerSend, Apart, PoolInv
      <3>3. Once' /\ OneAtATime' /\ Processing'
        BY <1>3, <2>2, <2>6
           DEF WorkerSend, Once, OneAtATime, Processing, ContextDone, PoolInv, TypeOK
      <3>4. Service!Lose(job)
        BY <1>3, <2>3, <2>4, <2>6, <3>1
           DEF WorkerSend, Service!Lose, Service!ContextDone, Phases, PoolInv, TypeOK
      <3> QED
        BY <3>2, <3>3, <3>4 DEF ServiceStep, Service!ServiceNext
    <2> QED
      BY <2>5, <2>6
  <1>4. CASE WorkerExit(w)
    <2>1. InHand' = InHand \ held[w] /\ held[w] \subseteq InHand
      BY <1>4, <1>b DEF WorkerExit, InHand
    <2>2. Range(user)' = Range(user) /\ Offered' = Offered
      BY <1>4 DEF WorkerExit, Offered
    <2>3. Working' = Working \ held[w] /\ held[w] \subseteq Working
      BY <1>4, <2>1 DEF WorkerExit, Working, InHand, Apart, PoolInv
    <2>4. Apart'
      BY <1>4, <2>1, <2>2, <2>3 DEF WorkerExit, Apart, PoolInv
    <2>5. Once' /\ OneAtATime' /\ Processing'
      BY <1>4 DEF WorkerExit, Once, OneAtATime, Processing, ContextDone, PoolInv, TypeOK
    <2>6. CASE worker[w] = "idle"
      <3>1. held[w] = {}
        BY <2>6 DEF OneAtATime, PoolInv
      <3>2. ServiceStep
        BY <1>4, <2>2, <2>3, <3>1 DEF WorkerExit, ServiceStep, Service!serviceVars
      <3> QED
        BY <2>4, <2>5, <3>2
    <2>7. CASE worker[w] = "sending" /\ ContextDone
      <3>1. PICK job \in Job : held[w] = {job}
        BY <2>7 DEF OneAtATime, PoolInv
      <3>2. Service!Lose(job)
        BY <1>4, <2>2, <2>3, <2>7, <3>1
           DEF WorkerExit, Service!Lose, Service!ContextDone, ContextDone
      <3> QED
        BY <2>4, <2>5, <3>2 DEF ServiceStep, Service!ServiceNext
    <2> QED
      BY <1>4, <2>6, <2>7 DEF WorkerExit, WorkerLeaves
  <1> QED
    BY <1>1, <1>2, <1>3, <1>4 DEF Work

\* The result processor moves an answer from Results to UserResults, or drops
\* it when the context is done, and closes UserResults when it leaves.
LEMMA RouteImplements ==
  ASSUME PoolInv, Route
  PROVE  Apart' /\ Once' /\ OneAtATime' /\ Processing' /\ ServiceStep
  <1> USE DEF submitVars, workerVars
  <1>0. /\ results \in Seq(Job) /\ user \in Seq(Job)
        /\ IsInjective(results) /\ IsInjective(user)
    BY DEF Once, PoolInv, TypeOK
  <1>1. CASE ProcessorDrain
    <2>1. /\ Working' = Working /\ Range(user)' = Range(user)
          /\ InHand' = InHand /\ Offered' = Offered
      BY <1>1 DEF ProcessorDrain, Working, InHand, Offered
    <2>2. Apart' /\ Once' /\ OneAtATime'
      BY <1>1, <2>1 DEF ProcessorDrain, Apart, Once, OneAtATime, PoolInv
    <2>3. Processing'
      BY <1>1 DEF ProcessorDrain, Processing, ContextDone, PoolInv
    <2>4. ServiceStep
      BY <1>1, <2>1 DEF ProcessorDrain, ServiceStep, Service!serviceVars
    <2> QED
      BY <2>2, <2>3, <2>4
  <1>2. CASE ProcessorTake
    <2> DEFINE job == Head(results)
    <2>1. /\ job \in Job /\ job \in Range(results)
          /\ Range(results') = Range(results) \ {job} /\ IsInjective(results')
      BY <1>0, <1>2, ReceivedOnce DEF ProcessorTake
    <2>2. routing = {} /\ routing' = {job}
      BY <1>2 DEF ProcessorTake
    <2> HIDE DEF job
    <2>3. /\ Working' = Working /\ Range(user)' = Range(user)
          /\ InHand' = InHand /\ Offered' = Offered
      BY <1>2, <2>1, <2>2 DEF ProcessorTake, Working, InHand, Offered
    <2>4. Apart'
      BY <1>2, <2>1, <2>2, <2>3 DEF ProcessorTake, Apart, PoolInv
    <2>5. Once' /\ OneAtATime' /\ Processing'
      BY <1>2, <2>1, <2>2 DEF ProcessorTake, Once, OneAtATime, Processing, ContextDone, PoolInv
    <2>6. ServiceStep
      BY <1>2, <2>3 DEF ProcessorTake, ServiceStep, Service!serviceVars
    <2> QED
      BY <2>4, <2>5, <2>6
  <1>3. CASE ProcessorRoute
    <2>1. PICK job \in Job : routing = {job}
      BY <1>3 DEF ProcessorRoute, OneAtATime, PoolInv
    <2>2. /\ job \notin Range(jobs) /\ job \notin Range(results) /\ job \notin InHand
          /\ job \notin Range(user) /\ job \in Working
      BY <2>1 DEF Apart, Working, PoolInv
    <2>3. /\ Working' = Working \ {job} /\ InHand' = InHand /\ Offered' = Offered
      BY <1>3, <2>1, <2>2 DEF ProcessorRoute, Working, InHand, Offered
    <2>4. OneAtATime' /\ Processing' /\ userOpen
      BY <1>3, <2>1 DEF ProcessorRoute, OneAtATime, Processing, ContextDone, PoolInv
    <2>5. CASE user' = Append(user, job)
      <3>1. Range(user') = Range(user) \union {job} /\ IsInjective(user')
        BY <1>0, <2>2, <2>5, SentOnce
      <3>2. Apart'
        BY <1>3, <2>1, <2>2, <2>3, <3>1 DEF ProcessorRoute, Apart, PoolInv
      <3>3. Once'
        BY <1>3, <3>1 DEF ProcessorRoute, Once, PoolInv
      <3>4. [job: Range(user')] = [job: Range(user)] \union {[job |-> job]}
        BY <3>1, AnswerAdded
      <3>5. [job |-> job] \in [job: Job] /\ Service!Answer([job |-> job])
        BY <1>3, <2>2, <2>3, <2>4, <3>4 DEF ProcessorRoute, Service!Answer
      <3> QED
        BY <2>4, <3>2, <3>3, <3>5 DEF ServiceStep, Service!ServiceNext
    <2>6. CASE ContextDone /\ UNCHANGED user
      <3>1. Apart'
        BY <1>3, <2>1, <2>3, <2>6 DEF ProcessorRoute, Apart, PoolInv
      <3>2. Once'
        BY <1>3, <2>6 DEF ProcessorRoute, Once, PoolInv
      <3>3. Service!Lose(job)
        BY <1>3, <2>2, <2>3, <2>6
           DEF ProcessorRoute, Service!Lose, Service!ContextDone, ContextDone
      <3> QED
        BY <2>4, <3>1, <3>2, <3>3 DEF ServiceStep, Service!ServiceNext
    <2> QED
      BY <1>3, <2>1, <2>5, <2>6 DEF ProcessorRoute, MayDrop
  <1>4. CASE ProcessorExit
    <2>1. /\ Working' = Working /\ Range(user)' = Range(user)
          /\ InHand' = InHand /\ Offered' = Offered
      BY <1>4 DEF ProcessorExit, Working, InHand, Offered
    <2>2. Apart' /\ Once' /\ OneAtATime'
      BY <1>4, <2>1 DEF ProcessorExit, Apart, Once, OneAtATime, PoolInv
    <2>3. ContextDone
      BY <1>4 DEF ProcessorExit, Phases, Processing, ContextDone, PoolInv
    <2>4. Processing' /\ userOpen
      BY <1>4, <2>3 DEF ProcessorExit, Processing, ContextDone, PoolInv
    <2>5. Service!CloseResults
      BY <1>4, <2>1, <2>3, <2>4
         DEF ProcessorExit, Service!CloseResults, Service!ContextDone, ContextDone, Phases, PoolInv
    <2> QED
      BY <2>2, <2>4, <2>5 DEF ServiceStep, Service!ServiceNext
  <1> QED
    BY <1>1, <1>2, <1>3, <1>4 DEF Route

\* Stop and the caller's context show as they are; the reader takes an answer.
LEMMA StopImplements ==
  ASSUME PoolInv, StopCall \/ StopSteps \/ Consume \/ Cancel \/ Quiet \/ UNCHANGED vars
  PROVE  Apart' /\ Once' /\ OneAtATime' /\ Processing' /\ ServiceStep
  <1> USE DEF submitVars, workerVars, routeVars
  <1>1. CASE StopCall \/ StopSteps \/ Cancel \/ Quiet \/ UNCHANGED vars
    <2>1. UNCHANGED <<submitVars, jobs, workerVars, results, routeVars>>
      BY <1>1 DEF StopCall, StopSteps, StopCancel, StopCloseJobs, StopCloseResults,
                  StopReturn, Cancel, Quiet, vars
    <2>2. /\ Working' = Working /\ Range(user)' = Range(user)
          /\ InHand' = InHand /\ Offered' = Offered
      BY <2>1 DEF Working, InHand, Offered
    <2>3. Apart' /\ Once' /\ OneAtATime'
      BY <2>1, <2>2 DEF Apart, Once, OneAtATime, PoolInv
    <2>4. Processing'
      BY <1>1, <2>1 DEF StopCall, StopSteps, StopCancel, StopCloseJobs, StopCloseResults,
                  StopReturn, Cancel, Quiet, vars, Processing, ContextDone, PoolInv
    <2>5. CASE StopCall
      BY <2>1, <2>2, <2>3, <2>4, <2>5 DEF StopCall, ServiceStep, Service!serviceVars
    <2>6. CASE StopCancel
      <3>1. Service!Stop
        BY <2>2, <2>1, <2>6 DEF StopCancel, Service!Stop, Phases, PoolInv
      <3> QED
        BY <2>3, <2>4, <3>1 DEF ServiceStep, Service!ServiceNext
    <2>7. CASE StopCloseJobs
      <3>1. Service!CloseJobs
        BY <2>2, <2>1, <2>7 DEF StopCloseJobs, Service!CloseJobs, Phases, PoolInv
      <3> QED
        BY <2>3, <2>4, <3>1 DEF ServiceStep, Service!ServiceNext
    <2>8. CASE StopCloseResults \/ StopReturn
      BY <2>1, <2>2, <2>3, <2>4, <2>8
         DEF StopCloseResults, StopReturn, ServiceStep, Service!serviceVars, Phases, PoolInv
    <2>9. CASE Cancel
      <3>1. Service!Cancel
        BY <2>2, <2>1, <2>9 DEF Cancel, Service!Cancel
      <3> QED
        BY <2>3, <2>4, <3>1 DEF ServiceStep, Service!ServiceNext
    <2>10. CASE Quiet \/ UNCHANGED vars
      BY <2>1, <2>2, <2>3, <2>4, <2>10
         DEF Quiet, vars, ServiceStep, Service!serviceVars
    <2> QED
      BY <1>1, <2>3, <2>4, <2>5, <2>6, <2>7, <2>8, <2>9, <2>10 DEF StopSteps
  <1>2. CASE Consume
    <2> DEFINE job == Head(user)
    <2>1. /\ job \in Job /\ job \in Range(user)
          /\ Range(user') = Range(user) \ {job} /\ IsInjective(user')
      BY <1>2, ReceivedOnce DEF Consume, Once, PoolInv, TypeOK
    <2> HIDE DEF job
    <2>2. Working' = Working /\ InHand' = InHand /\ Offered' = Offered
      BY <1>2 DEF Consume, Working, InHand, Offered
    <2>3. Apart' /\ Once' /\ OneAtATime' /\ Processing'
      BY <1>2, <2>1, <2>2
         DEF Consume, Apart, Once, OneAtATime, Processing, ContextDone, PoolInv
    <2>4. [job: Range(user')] = [job: Range(user)] \ {[job |-> job]}
      BY <2>1, AnswerAdded
    <2>5. [job |-> job] \in [job: Job] /\ Service!Receive([job |-> job])
      BY <1>2, <2>1, <2>2, <2>4 DEF Consume, Service!Receive
    <2> QED
      BY <2>3, <2>5 DEF ServiceStep, Service!ServiceNext
  <1> QED
    BY <1>1, <1>2

LEMMA PoolStep == PoolInv /\ [Next]_vars => PoolInv' /\ ServiceStep
  <1> SUFFICES ASSUME PoolInv, [Next]_vars PROVE PoolInv' /\ ServiceStep
    OBVIOUS
  <1>1. TypeOK' /\ Phases'
    BY TypeStep, PhasesStep DEF PoolInv
  <1>2. Apart' /\ Once' /\ OneAtATime' /\ Processing' /\ ServiceStep
    BY SubmitImplements, WorkImplements, RouteImplements, StopImplements DEF Next
  <1> QED
    BY <1>1, <1>2 DEF PoolInv

\* Whatever the capacities, the submitters and the workers, the pool keeps the
\* promise of JobService: an accepted job is in the pool or answered, once, and
\* is lost only after the context is done.
THEOREM PoolImplementsJobService == Spec => ServiceSpec
  <1>1. Init => PoolInv /\ Service!ServiceInit
    BY PoolInvInit
  <1>2. PoolInv /\ [Next]_vars => PoolInv' /\ ServiceStep
    BY PoolStep
  <1> QED
    BY <1>1, <1>2, PTL DEF Spec, ServiceSpec, Service!ServiceSpec, ServiceStep
=============================================================================
