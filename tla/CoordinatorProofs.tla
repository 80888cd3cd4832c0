------------------------- MODULE CoordinatorProofs -------------------------
(***************************************************************************)
(* Theorems about Coordinator, for every web, every set of seeds and every *)
(* limit.                                                                  *)
(***************************************************************************)
EXTENDS Coordinator, FiniteSetTheorems, TLAPS

\* The result of a failed fetch carries no page.
LEMMA NoPageType == NoPage \in Page
  BY DEF NoPage, Page

\* What a fetch of an accepted job may answer is a result for that job.
LEMMA OutcomesType ==
  ASSUME NEW job \in Job, NEW result \in Outcomes(job)
  PROVE  result \in Result /\ result.job = job
  <1>1. job.url \in URL
    BY DEF Job
  <1>2. CASE \E page \in Web[job.url] :
               result = [job |-> job, kind |-> "ok", page |-> page]
    BY <1>1, <1>2, WebAssumption DEF Result
  <1>3. CASE \E kind \in Failures :
               result = [job |-> job, kind |-> kind, page |-> NoPage]
    BY <1>3, NoPageType, WebAssumption DEF Result
  <1> QED
    BY <1>2, <1>3 DEF Outcomes

\* A new Coordinator, whatever the store already holds, is well typed.
LEMMA TypeInit == Init => TypeOK
  <1> SUFFICES ASSUME Init PROVE TypeOK
    OBVIOUS
  <1>1. todo \in Seq([raw: Raw, priority: {SeedPriority, SitemapPriority}])
    BY InputAssumption DEF Init, Started
  <1>2. seen \subseteq URL
    BY InputAssumption DEF Init, Started
  <1>3. stats \in [StatFields -> Nat]
    BY DEF Init, Started, ZeroStats
  <1>4. Engine!ServiceTypeOK
    BY DEF Init, Started, Engine!ServiceInit, Engine!ServiceTypeOK
  <1>5. links \in Seq(Raw)
    BY DEF Init, Started
  <1>6. /\ pending \subseteq [url: URL, depth: Nat, priority: Priorities]
        /\ submitting \subseteq Job /\ queue \subseteq Item
        /\ handling \subseteq Result /\ emitting \subseteq Result
        /\ hashes \subseteq Text /\ simhashes \subseteq Text /\ sunk \subseteq Result
    BY DEF Init, Started
  <1>7. /\ seq \in Nat /\ inFlight \in Int /\ dispatched \in Nat
        /\ main = "resume" /\ consumer = "unstarted" /\ canceller = "waiting"
    BY DEF Init, Started
  <1>8. done \in BOOLEAN
    BY DEF Init, Started
  <1> QED
    BY <1>1, <1>2, <1>3, <1>4, <1>5, <1>6, <1>7, <1>8 DEF TypeOK

\* What the checkpoint file yields can be queued.
LEMMA ResumedType ==
  ASSUME NEW items \in Seq(SavedItem), seq \in Nat
  PROVE  /\ Resumed(items) \subseteq Item
         /\ ResumedUrls(items) \subseteq URL
         /\ Len(items) \in Nat
  <1>2. Len(items) \in Nat /\ \A i \in 1..Len(items) : items[i] \in SavedItem
    OBVIOUS
  <1>3. ASSUME NEW i \in 1..Len(items)
        PROVE  /\ items[i].url \in URL
               /\ [url |-> items[i].url, depth |-> items[i].depth,
                   attempt |-> items[i].attempt, retry |-> FALSE,
                   priority |-> items[i].priority, seq |-> seq + i] \in Item
    <2>1. items[i] \in SavedItem /\ seq + i \in Nat
      BY <1>2
    <2> QED
      BY <2>1 DEF Item, SavedItem
  <1> QED
    BY <1>2, <1>3 DEF Resumed, ResumedUrls

\* enqueue marks as seen, and goes on to push, nothing but normalized URLs.
LEMMA EnqueueProcessType ==
  ASSUME TypeOK, NEW raw, NEW depth \in Nat, NEW priority \in Priorities,
         EnqueueProcess(raw, depth, priority)
  PROVE  /\ seen' \subseteq URL
         /\ pending' \subseteq [url: URL, depth: Nat, priority: Priorities]
  BY DEF TypeOK, EnqueueProcess, Accepts

\* Incrementing a counter of CrawlStats leaves counters.
LEMMA CountType ==
  ASSUME TypeOK, NEW fields, Count(fields)
  PROVE  stats' \in [StatFields -> Nat]
  BY DEF TypeOK, Count

\* What is left of a non-empty sequence.
LEMMA HeadAndTail ==
  ASSUME NEW S, NEW s \in Seq(S), s # <<>>
  PROVE  Head(s) \in S /\ Tail(s) \in Seq(S)
  OBVIOUS

\* A crawl that has loaded a checkpoint is well typed.
LEMMA ResumeTyped ==
  ASSUME TypeOK, NEW items \in Seq(SavedItem), ResumeWith(items)
  PROVE  TypeOK'
  <1> USE DEF TypeOK, Engine!ServiceTypeOK
  <1>1. queue' \subseteq Item /\ seq' \in Nat /\ seen' \subseteq URL
    BY ResumedType DEF ResumeWith
  <1> QED
    BY <1>1 DEF ResumeWith, consumerVars, outputVars, serviceVars

\* No action of the coordinator, the engine or the caller breaks a type.
LEMMA TypeStep == TypeOK /\ [Next]_vars => TypeOK'
  <1> SUFFICES ASSUME TypeOK, [Next]_vars PROVE TypeOK'
    OBVIOUS
  <1> USE DEF TypeOK, Engine!ServiceTypeOK
  <1>1. CASE Resume
    <2>1. PICK items \in Saved : ResumeWith(items)
      BY <1>1 DEF Resume
    <2> QED
      BY <2>1, ResumeTyped, InputAssumption
  <1>2. CASE Seed
    <2>1. /\ Head(todo) \in [raw: Raw, priority: {SeedPriority, SitemapPriority}]
          /\ todo' \in Seq([raw: Raw, priority: {SeedPriority, SitemapPriority}])
      BY <1>2, HeadAndTail DEF Seed
    <2>2. EnqueueProcess(Head(todo).raw, 0, Head(todo).priority)
      BY <1>2 DEF Seed
    <2>3. Head(todo).priority \in Priorities
      BY <2>1 DEF Priorities
    <2>4. /\ seen' \subseteq URL
          /\ pending' \subseteq [url: URL, depth: Nat, priority: Priorities]
      BY <2>2, <2>3, EnqueueProcessType
    <2> QED
      BY <1>2, <2>1, <2>4 DEF Seed, consumerVars, frontierVars, outputVars,
         serviceVars
  <1>3. CASE StartConsumer
    BY <1>3 DEF StartConsumer, frontierVars, outputVars, serviceVars
  <1>4. CASE FeedWait
    BY <1>4 DEF FeedWait, consumerVars, frontierVars, outputVars, serviceVars
  <1>5. CASE FeedFinish
    BY <1>5 DEF FeedFinish, consumerVars, outputVars, serviceVars
  <1>6. CASE FeedPop
    BY <1>6 DEF FeedPop, InFlightWith, Item, Job, consumerVars, outputVars,
       serviceVars
  <1>7. CASE SubmitAccepted
    BY <1>7 DEF SubmitAccepted, Engine!Accept, consumerVars, frontierVars, outputVars
  <1>8. CASE SubmitRefused
    BY <1>8 DEF SubmitRefused, AfterRefusal, consumerVars, outputVars, serviceVars
  <1>9. CASE StopEngine
    BY <1>9 DEF StopEngine, Engine!Stop, consumerVars, frontierVars, outputVars
  <1>10. CASE Return
    BY <1>10 DEF Return, Joined, consumerVars, frontierVars, outputVars, serviceVars
  <1>11. CASE EnqueuePush
    <2>1. /\ UNCHANGED <<todo, submitting, consumerVars, canceller, inFlight,
                         dispatched, done, seen, outputVars, serviceVars>>
          /\ pending' = {}
      BY <1>11 DEF EnqueuePush
    <2>2. PICK new \in pending :
             \/ UNCHANGED <<main, queue, seq, stats>>
             \/ Count({"Dropped"}) /\ UNCHANGED <<main, queue, seq>>
             \/ /\ seq' = seq + 1
                /\ queue' = queue \union
                     {[url |-> new.url, depth |-> new.depth, attempt |-> 0,
                       retry |-> FALSE, priority |-> new.priority, seq |-> seq']}
                /\ main' = Woken
                /\ UNCHANGED stats
      BY <1>11 DEF EnqueuePush
    <2>3. stats' \in [StatFields -> Nat]
      BY <2>2, CountType
    <2>4. seq' \in Nat
      BY <2>2
    <2>8. queue' \subseteq Item
      <3>1. new.url \in URL /\ new.depth \in Nat /\ new.priority \in Priorities
        OBVIOUS
      <3>2. [url |-> new.url, depth |-> new.depth, attempt |-> 0, retry |-> FALSE,
             priority |-> new.priority, seq |-> seq'] \in Item
        BY <2>4, <3>1 DEF Item
      <3>3. queue \subseteq Item
        OBVIOUS
      <3> HIDE DEF TypeOK
      <3> QED
        BY <2>2, <3>2, <3>3
    <2>5. main' \in {"resume", "seed", "feed", "wait", "submit", "stop", "join",
                     "returned"}
      BY <2>2 DEF Woken
    <2> QED
      BY <2>1, <2>3, <2>4, <2>5, <2>8 DEF consumerVars, outputVars, serviceVars
  <1>12. CASE ConsumerExit
    BY <1>12 DEF ConsumerExit, runVars, frontierVars, outputVars, serviceVars
  <1>13. CASE ConsumerReceive
    BY <1>13 DEF ConsumerReceive, Engine!Receive, Result, Page, runVars, frontierVars,
                 outputVars
  <1>14. CASE EnqueueChild
    <2>1. links' \in Seq(Raw)
      BY <1>14, HeadAndTail DEF EnqueueChild
    <2>2. PICK result \in handling :
             EnqueueProcess(Head(links), result.job.depth + 1, DiscoveredPriority)
      BY <1>14 DEF EnqueueChild
    <2>3. result.job.depth + 1 \in Nat
      BY DEF Result, Job
    <2>4. DiscoveredPriority \in Priorities
      BY DEF Priorities
    <2>5. /\ seen' \subseteq URL
          /\ pending' \subseteq [url: URL, depth: Nat, priority: Priorities]
      BY <2>2, <2>3, <2>4, EnqueueProcessType
    <2> QED
      BY <1>14, <2>1, <2>5 DEF EnqueueChild, runVars, frontierVars, outputVars,
         serviceVars
  <1>15. CASE Account
    <2>1. /\ consumer' = "signal" /\ handling' = {} /\ inFlight' = inFlight - 1
          /\ UNCHANGED <<runVars, links, pending, canceller, dispatched, done, seen,
                         outputVars, serviceVars>>
      BY <1>15 DEF Account
    <2>2. PICK result \in handling :
             /\ \/ /\ seq' = seq + 1
                   /\ queue' = queue \union
                        {[url |-> result.job.url, depth |-> result.job.depth,
                          attempt |-> result.job.attempt + 1, retry |-> TRUE,
                          priority |-> DiscoveredPriority, seq |-> seq']}
                \/ UNCHANGED <<queue, seq>>
             /\ Count(Settled(result))
             /\ emitting' = Emits(result)
      BY <1>15 DEF Account
    <2>3. stats' \in [StatFields -> Nat]
      BY <2>2, CountType
    <2>4. /\ result \in Result /\ result.job.url \in URL
          /\ result.job.depth \in Nat /\ result.job.attempt + 1 \in Nat
      BY DEF Result, Job
    <2>5. seq' \in Nat
      BY <2>2
    <2>7. queue' \subseteq Item
      <3>1. DiscoveredPriority \in Priorities
        BY DEF Priorities
      <3>2. [url |-> result.job.url, depth |-> result.job.depth,
             attempt |-> result.job.attempt + 1, retry |-> TRUE,
             priority |-> DiscoveredPriority, seq |-> seq'] \in Item
        BY <2>4, <2>5, <3>1 DEF Item
      <3>3. queue \subseteq Item
        OBVIOUS
      <3> HIDE DEF TypeOK
      <3> QED
        BY <2>2, <3>2, <3>3
    <2>6. emitting' \subseteq Result
      BY <2>2, <2>4 DEF Emits
    <2> QED
      BY <2>1, <2>3, <2>5, <2>6, <2>7 DEF runVars, outputVars, serviceVars
  <1>16. CASE Signal
    BY <1>16 DEF Signal, Woken, frontierVars, outputVars, serviceVars
  <1>17. CASE Emit
    <2>1. /\ consumer' = "recv" /\ emitting' = {}
          /\ UNCHANGED <<runVars, handling, links, pending, canceller, frontierVars,
                         seen, serviceVars>>
      BY <1>17 DEF Emit
    <2>2. PICK result \in emitting :
             LET text == result.page.text
             IN  \/ Count({"Duplicate"}) /\ UNCHANGED outputVars
                 \/ /\ text # NoText
                    /\ hashes' = hashes \union {text} \/ UNCHANGED hashes
                    /\ PastExact(result)
                 \/ UNCHANGED hashes /\ PastExact(result)
      BY <1>17 DEF Emit
    <2>3. /\ result \in Result
          /\ result.page.text # NoText => result.page.text \in Text
      BY DEF Result, Page
    <2>4. PastDedup(result) => stats' \in [StatFields -> Nat] /\ sunk' \subseteq
    Result
      BY <2>3, CountType DEF PastDedup
    <2>5. PastExact(result) => /\ stats' \in [StatFields -> Nat]
                               /\ sunk' \subseteq Result
                               /\ simhashes' \subseteq Text
      BY <2>3, <2>4, CountType DEF PastExact, Remembered
    <2>6. hashes' \subseteq Text
      BY <2>2, <2>3 DEF outputVars
    <2>7. /\ stats' \in [StatFields -> Nat]
          /\ sunk' \subseteq Result /\ simhashes' \subseteq Text
      BY <2>2, <2>5, CountType DEF outputVars
    <2> QED
      BY <2>1, <2>6, <2>7 DEF runVars, frontierVars, serviceVars
  <1>18. CASE NoticeCancel
    BY <1>18 DEF NoticeCancel, CancelSeen, runVars, consumerVars, outputVars,
       serviceVars
  <1>19. CASE BroadcastCancel
    BY <1>19 DEF BroadcastCancel, Woken, consumerVars, frontierVars, outputVars,
                 serviceVars
  <1>20. CASE EngineStep
    <2>1. UNCHANGED <<runVars, consumerVars, pending, canceller, frontierVars, stats,
                      seen, outputVars>>
      BY <1>20 DEF EngineStep
    <2>2. ASSUME NEW job \in working, NEW result \in Outcomes(job),
    Engine!Answer(result)
          PROVE  Engine!ServiceTypeOK'
      BY <2>2, OutcomesType DEF Engine!Answer
    <2>3. ASSUME NEW job \in working, Engine!Lose(job)
          PROVE  Engine!ServiceTypeOK'
      BY <2>3 DEF Engine!Lose
    <2>4. ASSUME Engine!CloseJobs \/ Engine!CloseResults
          PROVE  Engine!ServiceTypeOK'
      BY <2>4 DEF Engine!CloseJobs, Engine!CloseResults
    <2>5. Engine!ServiceTypeOK'
      BY <1>20, <2>2, <2>3, <2>4 DEF EngineStep
    <2> QED
      BY <2>1, <2>5 DEF runVars, consumerVars, frontierVars, outputVars
  <1>21. CASE CancelRun
    BY <1>21 DEF CancelRun, Engine!Cancel, runVars, consumerVars, frontierVars,
                 outputVars
  <1>22. CASE UNCHANGED vars
    BY <1>22 DEF vars
  <1> QED
    BY <1>1, <1>2, <1>3, <1>4, <1>5, <1>6, <1>7, <1>8, <1>9, <1>10, <1>11, <1>12,
       <1>13, <1>14, <1>15, <1>16, <1>17, <1>18, <1>19, <1>20, <1>21, <1>22
       DEF Next, RunNext, RunBody, ConsumerNext, CancellerNext, Returned

\* Every state of every crawl is well typed.
THEOREM TypeCorrect == Spec => []TypeOK
  BY TypeInit, TypeStep, PTL DEF Spec
-----------------------------------------------------------------------------
(* What the goroutines hold *)

\* Nobody holds anything when Run starts.
LEMMA HandsInit == Init => Hands
  BY DEF Init, Started, Hands, Ended, Engine!ServiceInit

\* Each goroutine takes and hands over what its place in the code says.
LEMMA HandsStep == TypeOK /\ Hands /\ [Next]_vars => Hands'
  <1> SUFFICES ASSUME TypeOK, Hands, [Next]_vars PROVE Hands'
    OBVIOUS
  <1> USE DEF Hands, Ended
  <1>1. CASE Resume
    BY <1>1 DEF Resume, ResumeWith, consumerVars, serviceVars
  <1>2. CASE Seed
    BY <1>2 DEF Seed, EnqueueProcess, consumerVars, frontierVars, serviceVars
  <1>3. CASE StartConsumer
    BY <1>3 DEF StartConsumer, frontierVars, serviceVars
  <1>4. CASE FeedWait
    BY <1>4 DEF FeedWait, consumerVars, frontierVars, serviceVars
  <1>5. CASE FeedFinish
    BY <1>5 DEF FeedFinish, consumerVars, serviceVars
  <1>6. CASE FeedPop
    BY <1>6 DEF FeedPop, consumerVars, serviceVars
  <1>7. CASE SubmitAccepted
    BY <1>7 DEF SubmitAccepted, Engine!Accept, consumerVars, frontierVars
  <1>8. CASE SubmitRefused
    BY <1>8 DEF SubmitRefused, consumerVars, serviceVars
  <1>9. CASE StopEngine
    BY <1>9 DEF StopEngine, Engine!Stop, consumerVars, frontierVars
  <1>10. CASE Return
    BY <1>10 DEF Return, Joined, consumerVars, frontierVars, serviceVars
  <1>11. CASE EnqueuePush
    BY <1>11 DEF EnqueuePush, Woken, consumerVars, serviceVars
  <1>12. CASE ConsumerExit
    BY <1>12 DEF ConsumerExit, runVars, frontierVars, serviceVars
  <1>13. CASE ConsumerReceive
    BY <1>13 DEF ConsumerReceive, Engine!Receive, runVars, frontierVars
  <1>14. CASE EnqueueChild
    BY <1>14 DEF EnqueueChild, EnqueueProcess, runVars, frontierVars, serviceVars
  <1>15. CASE Account
    BY <1>15 DEF Account, runVars, serviceVars
  <1>16. CASE Signal
    BY <1>16 DEF Signal, Woken, frontierVars, serviceVars
  <1>17. CASE Emit
    BY <1>17 DEF Emit, runVars, frontierVars, serviceVars
  <1>18. CASE NoticeCancel
    BY <1>18 DEF NoticeCancel, CancelSeen, runVars, consumerVars, serviceVars
  <1>19. CASE BroadcastCancel
    BY <1>19 DEF BroadcastCancel, Woken, consumerVars, frontierVars, serviceVars
  <1>20. CASE EngineStep
    BY <1>20 DEF EngineStep, Engine!Answer, Engine!Lose, Engine!CloseJobs,
       Engine!CloseResults, runVars,
                 consumerVars, frontierVars
  <1>21. CASE CancelRun
    BY <1>21 DEF CancelRun, Engine!Cancel, runVars, consumerVars, frontierVars
  <1>22. CASE UNCHANGED vars
    BY <1>22 DEF vars
  <1> QED
    BY <1>1, <1>2, <1>3, <1>4, <1>5, <1>6, <1>7, <1>8, <1>9, <1>10, <1>11, <1>12,
       <1>13, <1>14, <1>15, <1>16, <1>17, <1>18, <1>19, <1>20, <1>21, <1>22
       DEF Next, RunNext, RunBody, ConsumerNext, CancellerNext, Returned
-----------------------------------------------------------------------------
(* The in-flight counter *)

\* The half of InFlightAccounts that survives cancellation, with the finiteness
\* the counting needs.
Counted ==
    /\ IsFiniteSet(working) /\ IsFiniteSet(ready)
    /\ inFlight >= Busy

\* A finite set with one more member.
LEMMA AddOne ==
  ASSUME NEW S, NEW x, IsFiniteSet(S)
  PROVE  /\ IsFiniteSet(S \union {x})
         /\ Cardinality(S) \in Nat
         /\ Cardinality(S \union {x}) \in Nat
         /\ Cardinality(S \union {x}) <= Cardinality(S) + 1
         /\ x \notin S => Cardinality(S \union {x}) = Cardinality(S) + 1
  <1>1. /\ IsFiniteSet(S \union {x})
        /\ Cardinality(S \union {x}) =
              IF x \in S THEN Cardinality(S) ELSE Cardinality(S) + 1
    BY FS_AddElement
  <1>2. Cardinality(S) \in Nat
    BY FS_CardinalityType
  <1> QED
    BY <1>1, <1>2

\* A finite set with one member less.
LEMMA RemoveOne ==
  ASSUME NEW S, NEW x \in S, IsFiniteSet(S)
  PROVE  /\ IsFiniteSet(S \ {x})
         /\ Cardinality(S) \in Nat
         /\ Cardinality(S \ {x}) = Cardinality(S) - 1
  BY FS_RemoveElement, FS_CardinalityType

\* What a goroutine holds is nothing or one thing.
LEMMA HeldCounts ==
  ASSUME Hands
  PROVE  /\ IsFiniteSet(submitting) /\ IsFiniteSet(handling)
         /\ Cardinality(submitting) = IF main = "submit" THEN 1 ELSE 0
         /\ Cardinality(handling) = IF consumer = "children" THEN 1 ELSE 0
  <1>1. \A x : IsFiniteSet({x}) /\ Cardinality({x}) = 1
    BY FS_Singleton
  <1>2. IsFiniteSet({}) /\ Cardinality({}) = 0
    BY FS_EmptySet
  <1>3. /\ main = "submit" => \E job : submitting = {job}
        /\ main # "submit" => submitting = {}
        /\ consumer = "children" => \E result : handling = {result}
        /\ consumer # "children" => handling = {}
    BY DEF Hands
  <1> QED
    BY <1>1, <1>2, <1>3

\* A new Coordinator has nothing in flight.
LEMMA CountedInit == Init => Counted
  BY FS_EmptySet DEF Init, Started, Counted, Busy, Engine!ServiceInit

\* Every pop is counted before the job leaves the frontier, and every job
\* leaves the count once at most: by its result or by its refusal.
LEMMA CountedStep ==
  TypeOK /\ Hands /\ Hands' /\ Counted /\ [Next]_vars => Counted'
  <1> SUFFICES ASSUME TypeOK, Hands, Hands', Counted, [Next]_vars PROVE Counted'
    OBVIOUS
  <1> DEFINE subm == Cardinality(submitting)
             hand == Cardinality(handling)
  <1>a. /\ subm = IF main = "submit" THEN 1 ELSE 0
        /\ hand = IF consumer = "children" THEN 1 ELSE 0
    BY HeldCounts
  <1>b. /\ subm' = IF main' = "submit" THEN 1 ELSE 0
        /\ hand' = IF consumer' = "children" THEN 1 ELSE 0
    BY FS_Singleton, FS_EmptySet DEF Hands
  <1>c. /\ Cardinality(working) \in Nat /\ Cardinality(ready) \in Nat
        /\ inFlight \in Int
        /\ inFlight >= subm + Cardinality(working) + Cardinality(ready) + hand
    BY FS_CardinalityType DEF Counted, Busy, TypeOK
  <1>d. ASSUME IsFiniteSet(working'), IsFiniteSet(ready'),
               inFlight' >= subm' + Cardinality(working') + Cardinality(ready') +
               hand'
        PROVE  Counted'
    BY <1>d DEF Counted, Busy
  <1> HIDE DEF subm, hand
  <1>1. CASE FeedPop
    <2>1. /\ inFlight' = inFlight + 1 /\ main = "feed" /\ main' = "submit"
          /\ UNCHANGED <<working, ready, consumer>>
      BY <1>1 DEF FeedPop, InFlightWith, consumerVars, serviceVars
    <2> QED
      BY <2>1, <1>a, <1>b, <1>c, <1>d DEF Counted
  <1>2. CASE SubmitAccepted
    <2>1. /\ main = "submit" /\ main' = "feed"
          /\ UNCHANGED <<inFlight, ready, consumer>>
      BY <1>2 DEF SubmitAccepted, Engine!Accept, consumerVars, frontierVars
    <2>2. PICK job \in submitting : working' = working \union {job}
      BY <1>2 DEF SubmitAccepted, Engine!Accept
    <2>3. /\ IsFiniteSet(working') /\ Cardinality(working') \in Nat
          /\ Cardinality(working') <= Cardinality(working) + 1
      BY <2>2, AddOne DEF Counted
    <2> QED
      BY <2>1, <2>3, <1>a, <1>b, <1>c, <1>d DEF Counted
  <1>3. CASE SubmitRefused
    <2>1. /\ inFlight' = inFlight - 1 /\ main = "submit" /\ main' = "feed"
          /\ UNCHANGED <<working, ready, consumer>>
      BY <1>3 DEF SubmitRefused, AfterRefusal, consumerVars, serviceVars
    <2> QED
      BY <2>1, <1>a, <1>b, <1>c, <1>d DEF Counted
  <1>4. CASE ConsumerReceive
    <2>1. /\ consumer = "recv" /\ consumer' = "children"
          /\ UNCHANGED <<inFlight, working, main>>
      BY <1>4 DEF ConsumerReceive, Engine!Receive, runVars, frontierVars
    <2>2. PICK result \in ready : ready' = ready \ {result}
      BY <1>4 DEF ConsumerReceive, Engine!Receive
    <2>3. IsFiniteSet(ready') /\ Cardinality(ready') = Cardinality(ready) - 1
      BY <2>2, RemoveOne DEF Counted
    <2> QED
      BY <2>1, <2>3, <1>a, <1>b, <1>c, <1>d DEF Counted
  <1>5. CASE Account
    <2>1. /\ inFlight' = inFlight - 1 /\ consumer = "children" /\ consumer' = "signal"
          /\ UNCHANGED <<working, ready, main>>
      BY <1>5 DEF Account, runVars, serviceVars
    <2> QED
      BY <2>1, <1>a, <1>b, <1>c, <1>d DEF Counted
  <1>6. CASE EngineStep
    <2>1. UNCHANGED <<inFlight, main, consumer>>
      BY <1>6 DEF EngineStep, runVars, consumerVars, frontierVars
    <2>2. ASSUME NEW job \in working, NEW result \in Outcomes(job),
    Engine!Answer(result)
          PROVE  Counted'
      <3>1. /\ result.job \in working /\ working' = working \ {result.job}
            /\ ready' = ready \union {result}
        BY <2>2 DEF Engine!Answer
      <3>2. /\ IsFiniteSet(working')
            /\ Cardinality(working') = Cardinality(working) - 1
        BY <3>1, RemoveOne DEF Counted
      <3>3. /\ IsFiniteSet(ready') /\ Cardinality(ready') \in Nat
            /\ Cardinality(ready') <= Cardinality(ready) + 1
        BY <3>1, AddOne DEF Counted
      <3> QED
        BY <2>1, <3>2, <3>3, <1>a, <1>b, <1>c, <1>d
    <2>3. ASSUME NEW job \in working, Engine!Lose(job)
          PROVE  Counted'
      <3>1. working' = working \ {job} /\ ready' = ready
        BY <2>3 DEF Engine!Lose
      <3>2. /\ IsFiniteSet(working')
            /\ Cardinality(working') = Cardinality(working) - 1
        BY <3>1, RemoveOne DEF Counted
      <3> QED
        BY <2>1, <3>1, <3>2, <1>a, <1>b, <1>c, <1>d DEF Counted
    <2>4. ASSUME Engine!CloseJobs \/ Engine!CloseResults
          PROVE  Counted'
      BY <2>1, <2>4, <1>a, <1>b, <1>c, <1>d
         DEF Engine!CloseJobs, Engine!CloseResults, Counted
    <2> QED
      BY <1>6, <2>2, <2>3, <2>4 DEF EngineStep
  <1>7. ASSUME UNCHANGED <<submitting, handling, working, ready, inFlight>>
        PROVE  Counted'
    BY <1>7 DEF Counted, Busy
  <1>8. CASE Resume \/ Seed \/ StartConsumer \/ FeedWait \/ FeedFinish \/ Return
    BY <1>7, <1>8 DEF Resume, ResumeWith, Seed, StartConsumer, FeedWait,
       FeedFinish, Return,
       consumerVars, frontierVars, serviceVars
  <1>9. CASE StopEngine
    BY <1>7, <1>9 DEF StopEngine, Engine!Stop, consumerVars, frontierVars
  <1>10. CASE EnqueuePush \/ ConsumerExit \/ EnqueueChild \/ Signal \/ Emit
    BY <1>7, <1>10 DEF EnqueuePush, ConsumerExit, EnqueueChild, Signal, Emit, runVars,
       consumerVars, frontierVars, serviceVars
  <1>11. CASE NoticeCancel \/ BroadcastCancel
    BY <1>7, <1>11 DEF NoticeCancel, BroadcastCancel, runVars, consumerVars,
       frontierVars, serviceVars
  <1>12. CASE CancelRun
    BY <1>7, <1>12 DEF CancelRun, Engine!Cancel, runVars, consumerVars, frontierVars
  <1>13. CASE UNCHANGED vars
    BY <1>7, <1>13 DEF vars
  <1> QED
    BY <1>1, <1>2, <1>3, <1>4, <1>5, <1>6, <1>8, <1>9, <1>10, <1>11, <1>12, <1>13
       DEF Next, RunNext, RunBody, ConsumerNext, CancellerNext, Returned

CountingInv == TypeOK /\ Hands /\ Counted

\* The inductive invariant: types, hands and the in-flight count.
LEMMA CountingInvariant == Spec => []CountingInv
  <1>1. Init => CountingInv
    BY TypeInit, HandsInit, CountedInit DEF CountingInv
  <1>2. CountingInv /\ [Next]_vars => CountingInv'
    BY TypeStep, HandsStep, CountedStep DEF CountingInv
  <1> QED
    BY <1>1, <1>2, PTL DEF Spec

\* feed pops only below the cap, with something to pop: the counter cannot be
\* negative, so the two conditions of the loop leave no other case.
LEMMA PopsBelowCap ==
  ASSUME CountingInv, FeedPop
  PROVE  ~AtCap /\ queue # {}
  <1>1. inFlight \in Int /\ inFlight >= 0
    BY HeldCounts, FS_CardinalityType DEF CountingInv, Counted, Busy, TypeOK
  <1> QED
    BY <1>1 DEF FeedPop, MustWait, Finished

-----------------------------------------------------------------------------
(* The page cap *)

\* Only a pop advances dispatched, by one, and no pop happens at the cap.
LEMMA PageCapStep == CountingInv /\ PageCap /\ [Next]_vars => PageCap'
  <1> SUFFICES ASSUME CountingInv, PageCap, [Next]_vars PROVE PageCap'
    OBVIOUS
  <1>1. CASE FeedPop
    <2>1. dispatched' = dispatched \/ dispatched' = dispatched + 1
      BY <1>1 DEF FeedPop
    <2>2. ~AtCap
      BY <1>1, PopsBelowCap
    <2>3. dispatched \in Nat /\ MaxPages \in Nat
      BY LimitsAssumption DEF CountingInv, TypeOK
    <2> QED
      BY <2>1, <2>2, <2>3 DEF PageCap, AtCap
  <1>2. CASE dispatched' = dispatched
    BY <1>2 DEF PageCap
  <1> QED
    BY <1>1, <1>2 DEF Next, RunNext, RunBody, ConsumerNext, CancellerNext,
       Returned, Resume, ResumeWith,
       Seed, StartConsumer, FeedWait, FeedFinish, SubmitAccepted, SubmitRefused,
       StopEngine, Return, EnqueuePush, ConsumerExit, ConsumerReceive, EnqueueChild,
       Account, Signal, Emit, NoticeCancel, BroadcastCancel, EngineStep, CancelRun,
       frontierVars, vars

\* Whatever is seeded, discovered, resumed or retried, no more than MaxPages
\* pages are counted as dispatched.
THEOREM PageCapHolds == Spec => []PageCap
  <1>1. Init => PageCap
    BY LimitsAssumption DEF Init, Started, PageCap
  <1> QED
    BY <1>1, CountingInvariant, PageCapStep, PTL DEF Spec

-----------------------------------------------------------------------------
(* No lost wakeup *)

\* Whatever changes what a parked feeder waits for wakes it or is about to.
LEMMA NoLostWakeupStep ==
  TypeOK /\ NoLostWakeup /\ [Next]_vars => NoLostWakeup'
  <1> SUFFICES ASSUME TypeOK, NoLostWakeup, [Next]_vars, main' = "wait"
               PROVE  (MustWait \/ consumer = "signal" \/ canceller = "signal")'
    BY DEF NoLostWakeup
  <1>1. CASE FeedWait
    BY <1>1 DEF FeedWait, MustWait, AtCap, frontierVars
  <1>2. CASE EnqueuePush
    <2>1. main = "wait" /\ UNCHANGED frontierVars /\ UNCHANGED <<consumer, canceller>>
      BY <1>2 DEF EnqueuePush, Woken, consumerVars, frontierVars
    <2> QED
      BY <2>1 DEF NoLostWakeup, MustWait, AtCap, frontierVars
  <1>3. CASE Account
    BY <1>3 DEF Account
  <1>4. CASE NoticeCancel
    BY <1>4 DEF NoticeCancel
  <1>5. CASE Signal \/ BroadcastCancel
    BY <1>5 DEF Signal, BroadcastCancel, Woken
  <1>6. CASE ConsumerExit \/ ConsumerReceive \/ EnqueueChild \/ Emit
    BY <1>6 DEF ConsumerExit, ConsumerReceive, EnqueueChild, Emit, NoLostWakeup,
       MustWait, AtCap, runVars, frontierVars
  <1>7. CASE EngineStep \/ CancelRun \/ UNCHANGED vars
    BY <1>7 DEF EngineStep, CancelRun, NoLostWakeup, MustWait, AtCap, runVars,
       consumerVars, frontierVars, vars
  <1>8. CASE Resume \/ Seed \/ StartConsumer \/ FeedFinish \/ FeedPop
                \/ SubmitAccepted \/ SubmitRefused \/ StopEngine \/ Return
    BY <1>8 DEF Resume, ResumeWith, Seed, StartConsumer, FeedFinish, FeedPop,
       SubmitAccepted,
       SubmitRefused, StopEngine, Return
  <1> QED
    BY <1>1, <1>2, <1>3, <1>4, <1>5, <1>6, <1>7, <1>8
       DEF Next, RunNext, RunBody, ConsumerNext, CancellerNext, Returned

\* A parked feeder is rightly parked or about to be woken.
THEOREM NoLostWakeupHolds == Spec => []NoLostWakeup
  <1>1. Init => NoLostWakeup
    BY DEF Init, Started, NoLostWakeup
  <1> QED
    BY <1>1, TypeCorrect, NoLostWakeupStep, PTL DEF Spec

-----------------------------------------------------------------------------
(* The end of a run *)

\* feed ends an uncancelled crawl only at inFlight = 0, which leaves nothing
\* in the engine or in the consumer's hands; nothing appears after that.
LEMMA CompleteEndStep ==
  CountingInv /\ CountingInv' /\ CompleteEnd /\ [Next]_vars => CompleteEnd'
  <1> SUFFICES ASSUME CountingInv, CountingInv', CompleteEnd, [Next]_vars,
                      Ended', ~cancelled'
               PROVE  CompleteEnd'
    BY DEF CompleteEnd
  <1>1. ~cancelled
    BY DEF Next, RunNext, RunBody, ConsumerNext, CancellerNext, Returned, Resume,
       ResumeWith, Seed,
       StartConsumer, FeedWait, FeedFinish, FeedPop, SubmitAccepted, SubmitRefused,
       StopEngine, Return, EnqueuePush, ConsumerExit, ConsumerReceive, EnqueueChild,
       Account, Signal, Emit, NoticeCancel, BroadcastCancel, EngineStep, CancelRun,
       Engine!Accept, Engine!Answer, Engine!Receive, Engine!Lose, Engine!Cancel,
       Engine!Stop, Engine!CloseJobs, Engine!CloseResults, serviceVars, vars
  <1>2. CASE FeedFinish
    <2>1. ~done /\ inFlight = 0 /\ (queue = {} \/ AtCap)
      BY <1>1, <1>2 DEF FeedFinish, Finished, CountingInv, Hands, Ended
    <2>2. /\ IsFiniteSet(submitting) /\ IsFiniteSet(handling)
          /\ IsFiniteSet(working) /\ IsFiniteSet(ready)
          /\ Cardinality(submitting) \in Nat /\ Cardinality(handling) \in Nat
          /\ Cardinality(working) \in Nat /\ Cardinality(ready) \in Nat
      BY HeldCounts, FS_CardinalityType DEF CountingInv, Counted
    <2>3. Cardinality(submitting) + Cardinality(working) + Cardinality(ready)
             + Cardinality(handling) <= 0
      BY <2>1, <2>2 DEF CountingInv, Counted, Busy
    <2>4. /\ Cardinality(submitting) = 0 /\ Cardinality(handling) = 0
          /\ Cardinality(working) = 0 /\ Cardinality(ready) = 0
      BY <2>2, <2>3
    <2>5. submitting = {} /\ handling = {} /\ working = {} /\ ready = {}
      BY <2>2, <2>4, FS_EmptySet
    <2>6. links = <<>> /\ pending = {}
      BY <1>2, <2>5 DEF FeedFinish, CountingInv, Hands
    <2> QED
      BY <1>2, <2>1, <2>5, <2>6 DEF CompleteEnd, FeedFinish, AtCap, consumerVars,
         serviceVars
  <1>3. CASE Ended /\ ~FeedFinish
    <2>1. /\ submitting = {} /\ working = {} /\ ready = {} /\ handling = {}
          /\ pending = {} /\ links = <<>>
          /\ queue = {} \/ AtCap
      BY <1>1, <1>3 DEF CompleteEnd
    <2>2. consumer # "children" /\ main \notin {"resume", "seed"}
      BY <1>3, <2>1 DEF CountingInv, Hands, Ended
    <2>3. UNCHANGED <<submitting, handling, links, pending, queue, dispatched>>
      BY <1>3, <2>1, <2>2 DEF Ended, Next, RunNext, RunBody, ConsumerNext,
         CancellerNext,
         Returned, Resume, ResumeWith, Seed, StartConsumer, FeedWait, FeedPop,
         SubmitAccepted,
         SubmitRefused, StopEngine, Return, EnqueuePush, ConsumerExit,
         ConsumerReceive, EnqueueChild, Account, Signal, Emit, NoticeCancel,
         BroadcastCancel, EngineStep, CancelRun, Engine!Receive, runVars,
         consumerVars, frontierVars, vars
    <2>4. working' = {} /\ ready' = {}
      BY <1>3, <2>1, <2>2 DEF Ended, Next, RunNext, RunBody, ConsumerNext,
         CancellerNext,
         Returned, Resume, ResumeWith, Seed, StartConsumer, FeedWait, FeedPop,
         SubmitAccepted,
         SubmitRefused, StopEngine, Return, EnqueuePush, ConsumerExit,
         ConsumerReceive, EnqueueChild, Account, Signal, Emit, NoticeCancel,
         BroadcastCancel, EngineStep, CancelRun, Engine!Answer, Engine!Lose,
         Engine!CloseJobs, Engine!CloseResults, Engine!Stop, Engine!Cancel,
         Engine!Receive, serviceVars, vars
    <2> QED
      BY <2>1, <2>3, <2>4 DEF CompleteEnd, AtCap
  <1>4. CASE ~Ended /\ ~FeedFinish
    <2>1. ~Ended'
      BY <1>4 DEF Ended, Next, RunNext, RunBody, ConsumerNext, CancellerNext,
         Returned, Resume, ResumeWith,
         Seed, StartConsumer, FeedWait, FeedPop, SubmitAccepted, SubmitRefused,
         StopEngine, Return, Joined, EnqueuePush, ConsumerExit, ConsumerReceive,
         EnqueueChild, Account, Signal, Emit, NoticeCancel, BroadcastCancel,
         EngineStep, CancelRun, Woken, runVars, vars
    <2> QED
      BY <2>1
  <1> QED
    BY <1>2, <1>3, <1>4

\* A run nobody cancels ends with nothing in flight and nothing left to do
\* within the page cap.
THEOREM CompleteEndHolds == Spec => []CompleteEnd
  <1>1. Init => CompleteEnd
    BY DEF Init, Started, CompleteEnd, Ended
  <1> QED
    BY <1>1, CountingInvariant, CompleteEndStep, PTL DEF Spec

-----------------------------------------------------------------------------
(* The output filters *)

\* The accounted result is on its way to the filters, alone.
OutHand ==
    /\ emitting # {} => consumer \in {"signal", "emit"}
    /\ emitting = {} \/ \E result \in Result : emitting = {result}

LEMMA OutHandStep == TypeOK /\ Hands /\ OutHand /\ [Next]_vars => OutHand'
  <1> SUFFICES ASSUME TypeOK, Hands, OutHand, [Next]_vars PROVE OutHand'
    OBVIOUS
  <1> USE DEF OutHand
  <1>1. CASE Account
    <2>1. PICK result \in handling : emitting' = Emits(result)
      BY <1>1 DEF Account
    <2> QED
      BY <1>1, <2>1 DEF Account, Emits, TypeOK
  <1>2. CASE Signal \/ Emit
    BY <1>2 DEF Signal, Emit
  <1>3. CASE StartConsumer \/ ConsumerExit \/ ConsumerReceive \/ EnqueueChild
    BY <1>3 DEF StartConsumer, ConsumerExit, ConsumerReceive, EnqueueChild, Hands
  <1>4. CASE UNCHANGED <<consumer, emitting>>
    BY <1>4
  <1> QED
    BY <1>1, <1>2, <1>3, <1>4
       DEF Next, RunNext, RunBody, ConsumerNext, CancellerNext, Returned, Resume,
       ResumeWith, Seed, FeedWait, FeedFinish, FeedPop, SubmitAccepted, SubmitRefused,
       StopEngine, Return, EnqueuePush, NoticeCancel, BroadcastCancel, EngineStep,
       CancelRun, consumerVars, vars

\* Only the filters touch what has been output.
LEMMA OnlyEmitOutputs == [Next]_vars => Emit \/ UNCHANGED outputVars
  BY DEF Next, RunNext, RunBody, ConsumerNext, CancellerNext, Returned, Resume,
     ResumeWith, Seed, StartConsumer, FeedWait, FeedFinish, FeedPop, SubmitAccepted,
     SubmitRefused, StopEngine, Return, EnqueuePush, ConsumerExit, ConsumerReceive,
     EnqueueChild, Account, Signal, NoticeCancel, BroadcastCancel, EngineStep,
     CancelRun, outputVars, vars

\* What one pass through the filters may output.
LEMMA EmitOutputs ==
  ASSUME Emit
  PROVE  \E result \in emitting :
            /\ UNCHANGED outputVars \/ PastExact(result)
            /\ sunk' = sunk \/ sunk' = sunk \union {result}
            /\ hashes' = hashes \/ hashes' = hashes \union {result.page.text}
            /\ DedupContent /\ ~StoreErrors /\ result.page.text # NoText /\ sunk' # sunk =>
                  result.page.text \notin hashes /\ hashes' = hashes \union {result.page.text}
  <1>1. PICK result \in emitting :
           LET text == result.page.text
           IN  \/ UNCHANGED outputVars
               \/ /\ text # NoText /\ DedupContent
                  /\ ~Known(text) \/ StoreErrors
                  /\ \/ hashes' = hashes \union {text}
                     \/ StoreErrors /\ UNCHANGED hashes
                  /\ PastExact(result)
               \/ /\ text = NoText \/ ~DedupContent
                  /\ UNCHANGED hashes
                  /\ PastExact(result)
    BY DEF Emit
  <1>2. PastExact(result) => sunk' = sunk \/ sunk' = sunk \union {result}
    BY DEF PastExact, PastDedup
  <1> QED
    BY <1>1, <1>2 DEF Known, outputVars

\* The store keeps the hash of every text in the output.
SunkHashed ==
    DedupContent /\ ~StoreErrors =>
        /\ \A result \in sunk : result.page.text # NoText => result.page.text \in hashes
        /\ EmittedDistinct

LEMMA SunkHashedStep == SunkHashed /\ [Next]_vars => SunkHashed'
  <1> SUFFICES ASSUME SunkHashed, [Next]_vars, DedupContent, ~StoreErrors PROVE SunkHashed'
    BY DEF SunkHashed
  <1>1. CASE UNCHANGED outputVars
    BY <1>1 DEF SunkHashed, EmittedDistinct, Twins, outputVars
  <1>2. CASE Emit
    <2>1. PICK result \in emitting :
             /\ sunk' = sunk \/ sunk' = sunk \union {result}
             /\ hashes' = hashes \/ hashes' = hashes \union {result.page.text}
             /\ result.page.text # NoText /\ sunk' # sunk =>
                   result.page.text \notin hashes /\ hashes' = hashes \union {result.page.text}
      BY <1>2, EmitOutputs
    <2>2. \A old \in sunk : old.page.text # NoText => old.page.text \in hashes
      BY DEF SunkHashed
    <2>3. \A new \in sunk' : new.page.text # NoText => new.page.text \in hashes'
      BY <2>1, <2>2
    <2>4. \A x, y \in sunk : x # y /\ x.page.text = y.page.text => x.page.text = NoText
      <3> TAKE x, y \in sunk
      <3>1. <<x, y>> \in sunk \X sunk /\ <<x, y>>[1] = x /\ <<x, y>>[2] = y
        OBVIOUS
      <3> QED
        BY <3>1 DEF SunkHashed, EmittedDistinct, Twins
    <2>5. \A x, y \in sunk' : x # y /\ x.page.text = y.page.text => x.page.text = NoText
      BY <2>1, <2>2, <2>4
    <2>6. EmittedDistinct'
      BY <2>5 DEF EmittedDistinct, Twins
    <2> QED
      BY <2>3, <2>6 DEF SunkHashed
  <1> QED
    BY <1>1, <1>2, OnlyEmitOutputs

\* While the store answers, no two pages with the same text reach the sink.
THEOREM EmittedDistinctHolds == Spec => []EmittedDistinct
  <1>1. Init => SunkHashed
    BY DEF Init, Started, SunkHashed, EmittedDistinct, Twins
  <1>2. SunkHashed => EmittedDistinct
    BY DEF SunkHashed, EmittedDistinct
  <1> QED
    BY <1>1, <1>2, SunkHashedStep, PTL DEF Spec

\* Below its cap, the set of fingerprints has one of every text in the output.
SunkRemembered ==
    /\ IsFiniteSet(simhashes)
    /\ DedupNear /\ Cardinality(simhashes) < MaxSimhashes =>
          /\ \A result \in sunk : result.page.text # NoText => result.page.text \in simhashes
          /\ EmittedNotNear

LEMMA SunkRememberedStep == TypeOK /\ SunkRemembered /\ [Next]_vars => SunkRemembered'
  <1> SUFFICES ASSUME TypeOK, SunkRemembered, [Next]_vars PROVE SunkRemembered'
    OBVIOUS
  <1>1. CASE UNCHANGED outputVars
    BY <1>1 DEF SunkRemembered, EmittedNotNear, Twins, outputVars
  <1>2. CASE Emit
    <2>1. PICK result \in emitting :
             /\ UNCHANGED outputVars \/ PastExact(result)
             /\ sunk' = sunk \/ sunk' = sunk \union {result}
      BY <1>2, EmitOutputs
    <2> DEFINE text == result.page.text
    <2>2. text # NoText => text \in Text
      BY DEF TypeOK, Result, Page
    <2>3. \/ simhashes' = simhashes /\ (sunk' = sunk \/ text = NoText \/ ~DedupNear)
          \/ simhashes' = Remembered(text) /\ ~NearSeen(text) /\ text # NoText
      BY <2>1 DEF PastExact, outputVars
    <2>4. IsFiniteSet(simhashes) /\ Cardinality(simhashes) \in Nat
      BY FS_CardinalityType DEF SunkRemembered
    <2>5. CASE simhashes' = simhashes /\ (sunk' = sunk \/ text = NoText \/ ~DedupNear)
      <3>1. SUFFICES ASSUME DedupNear, Cardinality(simhashes) < MaxSimhashes
                     PROVE  /\ \A new \in sunk' : new.page.text # NoText => new.page.text \in simhashes
                            /\ EmittedNotNear'
        BY <2>4, <2>5 DEF SunkRemembered
      <3>2. \A new \in sunk' : new.page.text # NoText => new \in sunk /\ new.page.text \in simhashes
        BY <2>1, <2>5, <3>1 DEF SunkRemembered
      <3>3. Twins(LAMBDA x, y : <<x, y>> \in Near) = {}
        BY <3>1 DEF SunkRemembered, EmittedNotNear
      <3>4. EmittedNotNear'
        BY <3>2, <3>3 DEF EmittedNotNear, Twins
      <3> QED
        BY <3>2, <3>4
    <2>6. CASE simhashes' = Remembered(text) /\ ~NearSeen(text) /\ text # NoText
      <3>1. /\ IsFiniteSet(simhashes') /\ Cardinality(simhashes') \in Nat
            /\ Cardinality(simhashes') < MaxSimhashes =>
                  simhashes' = simhashes \union {text} /\ Cardinality(simhashes) < MaxSimhashes
        BY <2>4, <2>6, AddOne, LimitsAssumption DEF Remembered
      <3>2. SUFFICES ASSUME DedupNear, Cardinality(simhashes') < MaxSimhashes
                     PROVE  /\ \A new \in sunk' : new.page.text # NoText => new.page.text \in simhashes'
                            /\ EmittedNotNear'
        BY <3>1 DEF SunkRemembered
      <3>3. \A old \in sunk : old.page.text # NoText => old.page.text \in simhashes
        BY <3>1, <3>2 DEF SunkRemembered
      <3>4. \A old \in sunk : old.page.text # NoText =>
               <<text, old.page.text>> \notin Near /\ <<old.page.text, text>> \notin Near
        <4> TAKE old \in sunk
        <4> HAVE old.page.text # NoText
        <4>1. <<text, old.page.text>> \notin Near
          BY <2>6, <3>3 DEF NearSeen
        <4>2. <<old.page.text, text>> \in Near => <<text, old.page.text>> \in Near
          <5>1. /\ <<old.page.text, text>>[1] = old.page.text
                /\ <<old.page.text, text>>[2] = text
            OBVIOUS
          <5> QED
            BY <5>1, WebAssumption
        <4> QED
          BY <4>1, <4>2
      <3>5. \A x, y \in sunk : x # y /\ <<x.page.text, y.page.text>> \in Near =>
               NoText \in {x.page.text, y.page.text}
        <4> TAKE x, y \in sunk
        <4>1. <<x, y>> \in sunk \X sunk /\ <<x, y>>[1] = x /\ <<x, y>>[2] = y
          OBVIOUS
        <4>2. Twins(LAMBDA u, v : <<u, v>> \in Near) = {}
          BY <3>1, <3>2 DEF SunkRemembered, EmittedNotNear
        <4> QED
          BY <4>1, <4>2 DEF Twins
      <3>6. \A x, y \in sunk' : x # y /\ <<x.page.text, y.page.text>> \in Near =>
               NoText \in {x.page.text, y.page.text}
        BY <2>1, <3>4, <3>5
      <3>7. EmittedNotNear'
        BY <3>6 DEF EmittedNotNear, Twins
      <3> QED
        BY <2>1, <3>1, <3>2, <3>3, <3>7
    <2> QED
      BY <2>3, <2>5, <2>6
  <1> QED
    BY <1>1, <1>2, OnlyEmitOutputs

\* Whatever the store does, no two pages with near texts reach the sink while
\* there is room for their fingerprints.
THEOREM EmittedNotNearHolds == Spec => []EmittedNotNear
  <1>1. Init => SunkRemembered
    BY FS_EmptySet DEF Init, Started, SunkRemembered, EmittedNotNear, Twins
  <1>2. SunkRemembered => EmittedNotNear
    BY DEF SunkRemembered, EmittedNotNear
  <1> QED
    BY <1>1, <1>2, TypeCorrect, SunkRememberedStep, PTL DEF Spec

-----------------------------------------------------------------------------
(* The links of a page *)

\* A link in scope and depth has been seen.
Seen(result, i) ==
    LET url == Normalize[result.page.links[i]]
    IN  url \in URL /\ (MaxDepth = 0 \/ result.job.depth < MaxDepth) => url \in seen

\* The links of the result in hand from the one after gone on are left, and the
\* others have been seen.
LeftAfter(result, gone) ==
    /\ Len(result.page.links) = gone + Len(links)
    /\ \A i \in 1..Len(links) : links[i] = result.page.links[gone + i]
    /\ \A i \in 1..gone : Seen(result, i)

LinksLeft ==
    ~cancelled /\ ~StoreErrors =>
        /\ \A result \in emitting : \A i \in 1..Len(result.page.links) : Seen(result, i)
        /\ \A result \in handling :
              \/ TooDeep(result.job.depth + 1) /\ links = <<>>
              \/ \E gone \in Nat : LeftAfter(result, gone)

LEMMA LinksLeftStep ==
  CountingInv /\ CompleteEnd /\ LinksLeft /\ [Next]_vars => LinksLeft'
  <1> SUFFICES ASSUME CountingInv, CompleteEnd, LinksLeft, [Next]_vars,
                      ~cancelled', ~StoreErrors
               PROVE  LinksLeft'
    BY DEF LinksLeft
  <1>a. ~cancelled
    BY DEF Next, RunNext, RunBody, ConsumerNext, CancellerNext, Returned, Resume,
       ResumeWith, Seed,
       StartConsumer, FeedWait, FeedFinish, FeedPop, SubmitAccepted, SubmitRefused,
       StopEngine, Return, EnqueuePush, ConsumerExit, ConsumerReceive, EnqueueChild,
       Account, Signal, Emit, NoticeCancel, BroadcastCancel, EngineStep, CancelRun,
       Engine!Accept, Engine!Answer, Engine!Receive, Engine!Lose, Engine!Cancel,
       Engine!Stop, Engine!CloseJobs, Engine!CloseResults, serviceVars, vars
  <1>b. /\ handling \subseteq Result /\ emitting \subseteq Result /\ ready \subseteq Result
        /\ links \in Seq(Raw)
    BY DEF CountingInv, TypeOK, Engine!ServiceTypeOK
  <1>c. \A result \in Result : /\ result.page.links \in Seq(Raw) /\ result.job.depth \in Nat
                               /\ Len(result.page.links) \in Nat
    BY DEF Result, Page, Job
  <1>1. CASE ConsumerReceive
    <2>1. PICK result \in ready :
             /\ handling' = {result}
             /\ links' = IF TooDeep(result.job.depth + 1) THEN <<>> ELSE result.page.links
      BY <1>1 DEF ConsumerReceive
    <2>2. UNCHANGED <<emitting, seen>>
      BY <1>1 DEF ConsumerReceive
    <2>3. CASE TooDeep(result.job.depth + 1)
      BY <1>a, <2>1, <2>2, <2>3 DEF LinksLeft, Seen, TooDeep
    <2>4. CASE ~TooDeep(result.job.depth + 1)
      <3>1. links' = result.page.links /\ Len(links') \in Nat
        BY <1>b, <1>c, <2>1, <2>4
      <3>2. LeftAfter(result, 0)'
        BY <3>1 DEF LeftAfter
      <3> QED
        BY <1>a, <2>1, <2>2, <3>2 DEF LinksLeft, Seen
    <2> QED
      BY <2>3, <2>4
  <1>2. CASE EnqueueChild
    <2>1. PICK result \in handling :
             EnqueueProcess(Head(links), result.job.depth + 1, DiscoveredPriority)
      BY <1>2 DEF EnqueueChild
    <2>2. handling = {result} /\ UNCHANGED <<handling, emitting>>
      BY <1>2, <2>1 DEF EnqueueChild, CountingInv, Hands
    <2>3. ~done
      BY <1>a, <2>1 DEF CountingInv, Hands, CompleteEnd
    <2>4. seen \subseteq seen'
      BY <2>1 DEF EnqueueProcess
    <2>5. /\ links # <<>> /\ links' = Tail(links)
          /\ Len(links) \in Nat \ {0} /\ Len(links') = Len(links) - 1
          /\ Head(links) = links[1]
          /\ \A i \in 1..Len(links') : links'[i] = links[i + 1]
      BY <1>2, <1>b DEF EnqueueChild
    <2>6. result \in Result
      BY <1>b
    <2>8. PICK gone \in Nat : LeftAfter(result, gone)
      BY <1>a, <2>5 DEF LinksLeft
    <2>9. /\ Len(result.page.links) = gone + Len(links)
          /\ \A i \in 1..Len(links) : links[i] = result.page.links[gone + i]
          /\ \A i \in 1..gone : Seen(result, i)
      BY <2>8 DEF LeftAfter
    <2>10. Head(links) = result.page.links[gone + 1]
      BY <2>5, <2>9
    <2>11. Seen(result, gone + 1)'
      BY <1>c, <2>1, <2>3, <2>6, <2>10, LimitsAssumption
         DEF EnqueueProcess, Accepts, Seen, TooDeep
    <2>12. \A i \in 1..gone : Seen(result, i)'
      BY <2>4, <2>9 DEF Seen
    <2>13. \A i \in 1..(gone + 1) : Seen(result, i)'
      <3> TAKE i \in 1..(gone + 1)
      <3>1. i \in 1..gone \/ i = gone + 1
        OBVIOUS
      <3> QED
        BY <2>11, <2>12, <3>1
    <2>14. \A i \in 1..Len(links') : links'[i] = result.page.links[gone + 1 + i]
      <3> TAKE i \in 1..Len(links')
      <3>1. i + 1 \in 1..Len(links) /\ gone + (i + 1) = gone + 1 + i
        BY <2>5
      <3> QED
        BY <2>5, <2>9, <3>1
    <2>15. Len(result.page.links) = gone + 1 + Len(links')
      BY <1>c, <2>5, <2>6, <2>9
    <2>16. LeftAfter(result, gone + 1)'
      BY <2>13, <2>14, <2>15 DEF LeftAfter
    <2>17. \A other \in emitting' : \A i \in 1..Len(other.page.links) : Seen(other, i)'
      BY <1>a, <2>2, <2>4 DEF LinksLeft, Seen
    <2> QED
      BY <2>2, <2>16, <2>17 DEF LinksLeft
  <1>3. CASE Account
    <2>1. PICK result \in handling : emitting' = Emits(result)
      BY <1>3 DEF Account
    <2>2. handling' = {} /\ links = <<>> /\ UNCHANGED seen
      BY <1>3 DEF Account
    <2>3. result \in Result /\ Len(links) = 0
      BY <1>b, <2>2
    <2>4. \A i \in 1..Len(result.page.links) : Seen(result, i)
      <3>1. CASE TooDeep(result.job.depth + 1)
        BY <1>c, <2>3, <3>1, LimitsAssumption DEF TooDeep, Seen
      <3>2. CASE ~TooDeep(result.job.depth + 1)
        <4>1. PICK gone \in Nat : LeftAfter(result, gone)
          BY <1>a, <3>2 DEF LinksLeft
        <4>2. gone = Len(result.page.links)
          BY <1>c, <2>3, <4>1 DEF LeftAfter
        <4> QED
          BY <4>1, <4>2 DEF LeftAfter
      <3> QED
        BY <3>1, <3>2
    <2>5. \A other \in emitting' : other = result
      BY <2>1 DEF Emits
    <2> QED
      BY <2>2, <2>4, <2>5 DEF LinksLeft, Seen
  <1>4. ASSUME seen \subseteq seen', UNCHANGED <<handling, links>>, emitting' \subseteq emitting
        PROVE  LinksLeft'
    BY <1>4, <1>a DEF LinksLeft, LeftAfter, Seen
  <1>5. CASE Seed
    BY <1>4, <1>5 DEF Seed, EnqueueProcess, consumerVars
  <1>6. CASE Resume
    BY <1>4, <1>6 DEF Resume, ResumeWith, consumerVars
  <1>7. CASE Emit \/ Signal \/ ConsumerExit
    BY <1>4, <1>7 DEF Emit, Signal, ConsumerExit
  <1> QED
    BY <1>1, <1>2, <1>3, <1>4, <1>5, <1>6, <1>7
       DEF Next, RunNext, RunBody, ConsumerNext, CancellerNext, Returned,
       StartConsumer, FeedWait, FeedFinish, FeedPop, SubmitAccepted, SubmitRefused,
       StopEngine, Return, EnqueuePush, NoticeCancel, BroadcastCancel, EngineStep,
       CancelRun, consumerVars, vars

\* When the filters run, every link in scope and depth of the page has been
\* seen, whatever the page limit, the other goroutines and the filters do.
THEOREM LinksFollowedHolds == Spec => []LinksFollowed
  <1>1. Init => LinksLeft
    BY DEF Init, Started, LinksLeft
  <1>2. LinksLeft => LinksFollowed
    BY DEF LinksLeft, LinksFollowed, Seen
  <1> QED
    BY <1>1, <1>2, CountingInvariant, CompleteEndHolds, LinksLeftStep, PTL DEF Spec

-----------------------------------------------------------------------------
(* A URL is in one place *)

Apart == \A i, j \in 1..6 : i # j => Places[i] \intersect Places[j] = {}
Covered == \A i \in 1..6 : Places[i] \subseteq seen
Alone == OneEach(queue) /\ OneEach(pending) /\ OneEach(working)
AnsweredOnce == \A x, y \in ready : x.job.url = y.job.url => x = y
FreshStart == main = "resume" => \A i \in 1..6 : Places[i] = {}

\* OnePlace, strengthened: what a goroutine is about to hand over is single
\* too, a job has one answer, and a checkpoint is loaded into an empty crawl.
PlaceInv == Apart /\ Covered /\ Alone /\ AnsweredOnce /\ FreshStart

\* The six places, by name.
LEMMA PlacesByName ==
  /\ Places[1] = UrlsIn(queue) /\ Places[2] = UrlsIn(pending)
  /\ Places[3] = UrlsIn(submitting) /\ Places[4] = UrlsIn(working)
  /\ Places[5] = UrlsIn(JobsOf(ready)) /\ Places[6] = UrlsIn(JobsOf(handling))
  BY DEF Places

LEMMA PlacesByNameNext ==
  /\ Places'[1] = UrlsIn(queue') /\ Places'[2] = UrlsIn(pending')
  /\ Places'[3] = UrlsIn(submitting') /\ Places'[4] = UrlsIn(working')
  /\ Places'[5] = UrlsIn(JobsOf(ready')) /\ Places'[6] = UrlsIn(JobsOf(handling'))
  BY DEF Places, UrlsIn, JobsOf

\* A step that brings URLs to one place and leaves them nowhere else keeps
\* every URL in one place.
LEMMA Moved ==
  ASSUME Apart, Covered, seen \subseteq seen',
         NEW b \in 1..6, NEW urls, urls \subseteq seen',
         Places'[b] \subseteq Places[b] \union urls,
         \A k \in (1..6) \ {b} : Places'[k] \subseteq Places[k] \ urls
  PROVE  Apart' /\ Covered'
  <1>1. \A i \in 1..6 : Places'[i] \subseteq Places[i] \union urls
    OBVIOUS
  <1>2. Covered'
    BY <1>1 DEF Covered
  <1>3. ASSUME NEW i \in 1..6, NEW j \in 1..6, i # j
        PROVE  Places'[i] \intersect Places'[j] = {}
    <2>1. Places[i] \intersect Places[j] = {}
      BY <1>3 DEF Apart
    <2>2. CASE i = b
      BY <2>1, <2>2, <1>3
    <2>3. CASE j = b
      BY <2>1, <2>3, <1>3
    <2>4. CASE i # b /\ j # b
      BY <2>1, <2>4
    <2> QED
      BY <2>2, <2>3, <2>4
  <1>4. Apart'
    BY <1>3 DEF Apart
  <1> QED
    BY <1>2, <1>4

\* The same for a step that brings nothing.
LEMMA NothingMoved ==
  ASSUME Apart, Covered, seen \subseteq seen',
         \A k \in 1..6 : Places'[k] \subseteq Places[k]
  PROVE  Apart' /\ Covered'
  BY Moved, 1 \in 1..6, Zenon DEF Apart

\* What the steps below use: one URL, from anywhere, to the place b.
LEMMA MovedOne ==
  ASSUME PlaceInv, seen \subseteq seen', NEW b \in 1..6, NEW url, url \in seen',
         Places'[b] \subseteq Places[b] \union {url},
         \A k \in (1..6) \ {b} : Places'[k] \subseteq Places[k] \ {url}
  PROVE  Apart' /\ Covered'
  <1>1. {url} \subseteq seen' /\ Apart /\ Covered
    BY DEF PlaceInv
  <1> QED
    BY <1>1, Moved

\* An entry for a URL that has none leaves one for each URL.
LEMMA AddAlone ==
  ASSUME NEW entries, OneEach(entries), NEW entry,
         \A other \in entries : other.url # entry.url
  PROVE  OneEach(entries \union {entry})
  BY DEF OneEach

\* A crawl starts with nothing anywhere.
LEMMA PlaceInit == Init => PlaceInv
  <1> SUFFICES ASSUME Init PROVE PlaceInv
    OBVIOUS
  <1>1. /\ queue = {} /\ pending = {} /\ submitting = {} /\ working = {}
        /\ ready = {} /\ handling = {}
    BY DEF Init, Started, Engine!ServiceInit
  <1>2. /\ UrlsIn(queue) = {} /\ UrlsIn(pending) = {} /\ UrlsIn(submitting) = {}
        /\ UrlsIn(working) = {} /\ UrlsIn(JobsOf(ready)) = {}
        /\ UrlsIn(JobsOf(handling)) = {}
    BY <1>1 DEF UrlsIn, JobsOf
  <1>3. \A i \in 1..6 : Places[i] = {}
    BY <1>2, PlacesByName
  <1>4. Apart /\ Covered /\ FreshStart
    BY <1>3 DEF Apart, Covered, FreshStart
  <1>5. Alone /\ AnsweredOnce
    BY <1>1 DEF Alone, OneEach, AnsweredOnce
  <1> QED
    BY <1>4, <1>5 DEF PlaceInv

\* A resumed queue has the URLs of the checkpoint.
LEMMA ResumedItems ==
  ASSUME NEW items
  PROVE  UrlsIn(Resumed(items)) = ResumedUrls(items)
  <1>1. \A i \in 1..Len(items) : \E item \in Resumed(items) : item.url = items[i].url
    <2> TAKE i \in 1..Len(items)
    <2> DEFINE item == [url |-> items[i].url, depth |-> items[i].depth,
                        attempt |-> items[i].attempt, retry |-> FALSE,
                        priority |-> items[i].priority, seq |-> seq + i]
    <2>1. item \in Resumed(items) /\ item.url = items[i].url
      BY DEF Resumed
    <2> QED
      BY <2>1
  <1>2. \A item \in Resumed(items) : \E i \in 1..Len(items) : item.url = items[i].url
    BY DEF Resumed
  <1>3. ASSUME NEW url PROVE url \in UrlsIn(Resumed(items)) <=> url \in ResumedUrls(items)
    BY <1>1, <1>2 DEF UrlsIn, ResumedUrls
  <1> QED
    BY <1>3

\* A checkpoint, in which no URL occurs twice, is loaded into a crawl that has
\* nothing anywhere.
LEMMA ResumePlaces ==
  ASSUME ~StoreErrors, PlaceInv, NEW items, ResumeWith(items),
         \A i, j \in 1..Len(items) : items[i].url = items[j].url => i = j
  PROVE  PlaceInv'
  <1> USE DEF PlaceInv, Alone, AnsweredOnce, OneEach
  <1>2. /\ queue' = queue \union Resumed(items) /\ main' = "seed"
        /\ seen' = seen \union ResumedUrls(items)
        /\ main = "resume"
        /\ UNCHANGED <<submitting, handling, pending, working, ready>>
    BY DEF ResumeWith, consumerVars, serviceVars
  <1>3. \A i \in 1..6 : Places[i] = {}
    BY <1>2 DEF FreshStart
  <1>4. queue = {}
    <2>1. UrlsIn(queue) = {}
      BY <1>3, PlacesByName, 1 \in 1..6
    <2> QED
      BY <2>1 DEF UrlsIn
  <1>5. UrlsIn(queue') = ResumedUrls(items)
    BY <1>2, <1>4, ResumedItems
  <1>6. Places'[1] \subseteq Places[1] \union ResumedUrls(items)
    BY <1>5, PlacesByNameNext
  <1>7. \A k \in (1..6) \ {1} : Places'[k] \subseteq Places[k] \ ResumedUrls(items)
    BY <1>2, <1>3, PlacesByName, PlacesByNameNext
  <1>8. Apart' /\ Covered'
    BY <1>2, <1>6, <1>7, 1 \in 1..6, Moved
  <1>10. queue' = Resumed(items)
    BY <1>2, <1>4
  <1>11. OneEach(queue')
    <2>1. ASSUME NEW x \in queue', NEW y \in queue', x.url = y.url
          PROVE  x = y
      <3>1. PICK i \in 1..Len(items) :
               x = [url |-> items[i].url, depth |-> items[i].depth,
                    attempt |-> items[i].attempt, retry |-> FALSE,
                    priority |-> items[i].priority, seq |-> seq + i]
        BY <1>10 DEF Resumed
      <3>2. PICK j \in 1..Len(items) :
               y = [url |-> items[j].url, depth |-> items[j].depth,
                    attempt |-> items[j].attempt, retry |-> FALSE,
                    priority |-> items[j].priority, seq |-> seq + j]
        BY <1>10 DEF Resumed
      <3>3. items[i].url = items[j].url
        BY <2>1, <3>1, <3>2
      <3>4. i = j
        BY <3>3
      <3> QED
        BY <3>1, <3>2, <3>4
    <2> QED
      BY <2>1
  <1>12. Alone' /\ AnsweredOnce'
    BY <1>2, <1>11
  <1> QED
    BY <1>2, <1>8, <1>12 DEF FreshStart

\* How a step that brings a URL from one place to another, or to the seen set
\* and to a place, is shown to preserve the invariant.
LEMMA PlaceStep ==
  ASSUME ~StoreErrors, TypeOK, Hands, PlaceInv, [Next]_vars
  PROVE  PlaceInv'
  <1>0. /\ 1 \in 1..6 /\ 2 \in 1..6 /\ 3 \in 1..6
        /\ 4 \in 1..6 /\ 5 \in 1..6 /\ 6 \in 1..6
    OBVIOUS
  <1> USE DEF PlaceInv, Alone, AnsweredOnce, OneEach
  <1>1. CASE Resume
    <2>1. PICK items \in Saved : ResumeWith(items)
      BY <1>1 DEF Resume
    <2>2. \A i, j \in 1..Len(items) : items[i].url = items[j].url => i = j
      BY InputAssumption
    <2> HIDE DEF PlaceInv
    <2> QED
      BY <2>1, <2>2, ResumePlaces
  <1>2. CASE Seed \/ EnqueueChild
    <2>1. PICK raw, depth, priority : EnqueueProcess(raw, depth, priority)
      BY <1>2 DEF Seed, EnqueueChild
    <2>2. /\ UNCHANGED <<queue, submitting, handling, working, ready, main>>
          /\ main # "resume" /\ pending = {}
      BY <1>2 DEF Seed, EnqueueChild, Hands, runVars, frontierVars, consumerVars,
         serviceVars
    <2>3. CASE UNCHANGED <<seen, pending>>
      <3>1. \A k \in 1..6 : Places'[k] \subseteq Places[k]
        BY <2>2, <2>3, PlacesByName, PlacesByNameNext
      <3> QED
        BY <2>2, <2>3, <3>1, NothingMoved DEF FreshStart
    <2>4. ASSUME NEW url, url \notin seen, seen' = seen \union {url},
                 pending' = {[url |-> url, depth |-> depth, priority |-> priority]}
          PROVE  PlaceInv'
      <3>1. UrlsIn(pending') = {url}
        BY <2>4 DEF UrlsIn
      <3>2. \A k \in 1..6 : url \notin Places[k]
        BY <2>4 DEF Covered
      <3>3. Places'[2] \subseteq Places[2] \union {url}
        BY <3>1, PlacesByNameNext
      <3>4. \A k \in (1..6) \ {2} : Places'[k] \subseteq Places[k] \ {url}
        BY <2>2, <3>2, PlacesByName, PlacesByNameNext
      <3>5. Apart' /\ Covered'
        BY <2>4, <3>3, <3>4, <1>0, MovedOne
      <3> QED
        BY <2>2, <2>4, <3>5 DEF FreshStart
    <2> QED
      BY <2>1, <2>3, <2>4 DEF EnqueueProcess, Accepts
  <1>3. CASE EnqueuePush
    <2>1. PICK new \in pending :
             \/ UNCHANGED queue
             \/ queue' = queue \union
                    {[url |-> new.url, depth |-> new.depth, attempt |-> 0,
                      retry |-> FALSE, priority |-> new.priority, seq |-> seq']}
      BY <1>3 DEF EnqueuePush
    <2>2. /\ pending' = {} /\ UNCHANGED <<submitting, handling, working, ready, seen>>
          /\ main' # "resume"
      BY <1>3 DEF EnqueuePush, Hands, Woken, consumerVars, serviceVars
    <2>3. new.url \in Places[2]
      BY PlacesByName DEF UrlsIn
    <2>4. \A k \in (1..6) \ {2} : new.url \notin Places[k]
      BY <2>3 DEF Apart
    <2>5. Places'[1] \subseteq Places[1] \union {new.url}
      BY <2>1, PlacesByName, PlacesByNameNext DEF UrlsIn
    <2>6. \A k \in (1..6) \ {1} : Places'[k] \subseteq Places[k] \ {new.url}
      BY <2>2, <2>4, PlacesByName, PlacesByNameNext DEF UrlsIn
    <2>7. new.url \in seen
      BY <2>3 DEF Covered
    <2>8. Apart' /\ Covered'
      BY <2>2, <2>5, <2>6, <2>7, <1>0, MovedOne
    <2>9. new.url \notin UrlsIn(queue)
      BY <2>4, PlacesByName
    <2>10. OneEach(queue')
      <3> DEFINE entry == [url |-> new.url, depth |-> new.depth, attempt |-> 0,
                           retry |-> FALSE, priority |-> new.priority, seq |-> seq']
      <3>1. OneEach(queue) /\ \A other \in queue : other.url # entry.url
        BY <2>9 DEF UrlsIn
      <3>2. OneEach(queue \union {entry})
        BY <3>1, AddAlone
      <3> QED
        BY <2>1, <3>1, <3>2
    <2> QED
      BY <2>2, <2>8, <2>10 DEF FreshStart
  <1>4. CASE FeedPop
    <2>1. PICK item \in queue :
             /\ queue' = queue \ {item}
             /\ submitting' = {[url |-> item.url, depth |-> item.depth,
                                attempt |-> item.attempt]}
      BY <1>4 DEF FeedPop
    <2>2. UNCHANGED <<pending, handling, working, ready, seen>> /\ main' = "submit"
      BY <1>4 DEF FeedPop, consumerVars, serviceVars
    <2>3. item.url \in Places[1]
      BY PlacesByName DEF UrlsIn
    <2>4. \A k \in (1..6) \ {1} : item.url \notin Places[k]
      BY <2>3 DEF Apart
    <2>5. UrlsIn(queue') \subseteq UrlsIn(queue) \ {item.url}
      BY <2>1 DEF UrlsIn
    <2>6. UrlsIn(submitting') = {item.url}
      BY <2>1 DEF UrlsIn
    <2>7. Places'[3] \subseteq Places[3] \union {item.url}
      BY <2>6, PlacesByNameNext
    <2>8. \A k \in (1..6) \ {3} : Places'[k] \subseteq Places[k] \ {item.url}
      BY <2>2, <2>4, <2>5, PlacesByName, PlacesByNameNext
    <2>9. item.url \in seen
      BY <2>3 DEF Covered
    <2>10. Apart' /\ Covered'
      BY <2>2, <2>7, <2>8, <2>9, <1>0, MovedOne
    <2> QED
      BY <2>1, <2>2, <2>10 DEF FreshStart
  <1>5. CASE SubmitAccepted
    <2>1. PICK job \in submitting : working' = working \union {job}
      BY <1>5 DEF SubmitAccepted, Engine!Accept
    <2>2. /\ UNCHANGED <<queue, pending, handling, ready, seen>>
          /\ submitting' = {} /\ main' = "feed"
      BY <1>5 DEF SubmitAccepted, Engine!Accept, consumerVars, frontierVars
    <2>3. job.url \in Places[3]
      BY PlacesByName DEF UrlsIn
    <2>4. \A k \in (1..6) \ {3} : job.url \notin Places[k]
      BY <2>3 DEF Apart
    <2>5. Places'[4] \subseteq Places[4] \union {job.url}
      BY <2>1, PlacesByName, PlacesByNameNext DEF UrlsIn
    <2>6. \A k \in (1..6) \ {4} : Places'[k] \subseteq Places[k] \ {job.url}
      BY <2>2, <2>4, PlacesByName, PlacesByNameNext DEF UrlsIn
    <2>7. job.url \in seen
      BY <2>3 DEF Covered
    <2>8. Apart' /\ Covered'
      BY <2>2, <2>5, <2>6, <2>7, <1>0, MovedOne
    <2>9. \A other \in working : other.url # job.url
      BY <2>4, PlacesByName DEF UrlsIn
    <2> QED
      BY <2>1, <2>2, <2>8, <2>9 DEF FreshStart
  <1>6. CASE ConsumerReceive
    <2>1. PICK result \in ready : ready' = ready \ {result} /\ handling' = {result}
      BY <1>6 DEF ConsumerReceive, Engine!Receive
    <2>2. /\ UNCHANGED <<queue, pending, submitting, working, seen, main>>
          /\ main # "resume"
      BY <1>6 DEF ConsumerReceive, Engine!Receive, Hands, runVars, frontierVars
    <2>3. result.job.url \in Places[5]
      BY PlacesByName DEF UrlsIn, JobsOf
    <2>4. \A k \in (1..6) \ {5} : result.job.url \notin Places[k]
      BY <2>3 DEF Apart
    <2>5. UrlsIn(JobsOf(ready')) \subseteq UrlsIn(JobsOf(ready)) \ {result.job.url}
      BY <2>1 DEF UrlsIn, JobsOf
    <2>6. UrlsIn(JobsOf(handling')) = {result.job.url}
      BY <2>1 DEF UrlsIn, JobsOf
    <2>7. Places'[6] \subseteq Places[6] \union {result.job.url}
      BY <2>6, PlacesByNameNext
    <2>8. \A k \in (1..6) \ {6} : Places'[k] \subseteq Places[k] \ {result.job.url}
      BY <2>2, <2>4, <2>5, PlacesByName, PlacesByNameNext
    <2>9. result.job.url \in seen
      BY <2>3 DEF Covered
    <2>10. Apart' /\ Covered'
      BY <2>2, <2>7, <2>8, <2>9, <1>0, MovedOne
    <2> QED
      BY <2>1, <2>2, <2>10 DEF FreshStart
  <1>7. CASE Account
    <2>1. PICK result \in handling :
             \/ UNCHANGED queue
             \/ queue' = queue \union
                    {[url |-> result.job.url, depth |-> result.job.depth,
                      attempt |-> result.job.attempt + 1, retry |-> TRUE,
                      priority |-> DiscoveredPriority, seq |-> seq']}
      BY <1>7 DEF Account
    <2>2. /\ UNCHANGED <<pending, submitting, working, ready, seen, main>>
          /\ handling' = {} /\ main # "resume"
      BY <1>7 DEF Account, Hands, runVars, serviceVars
    <2>3. result.job.url \in Places[6]
      BY PlacesByName DEF UrlsIn, JobsOf
    <2>4. \A k \in (1..6) \ {6} : result.job.url \notin Places[k]
      BY <2>3 DEF Apart
    <2>5. Places'[1] \subseteq Places[1] \union {result.job.url}
      BY <2>1, PlacesByName, PlacesByNameNext DEF UrlsIn
    <2>6. \A k \in (1..6) \ {1} : Places'[k] \subseteq Places[k] \ {result.job.url}
      BY <2>2, <2>4, PlacesByName, PlacesByNameNext DEF UrlsIn, JobsOf
    <2>7. result.job.url \in seen
      BY <2>3 DEF Covered
    <2>8. Apart' /\ Covered'
      BY <2>2, <2>5, <2>6, <2>7, <1>0, MovedOne
    <2>9. \A other \in queue : other.url # result.job.url
      BY <2>4, PlacesByName DEF UrlsIn
    <2>10. OneEach(queue')
      <3> DEFINE entry == [url |-> result.job.url, depth |-> result.job.depth,
                           attempt |-> result.job.attempt + 1, retry |-> TRUE,
                           priority |-> DiscoveredPriority, seq |-> seq']
      <3>1. OneEach(queue) /\ \A other \in queue : other.url # entry.url
        BY <2>9
      <3>2. OneEach(queue \union {entry})
        BY <3>1, AddAlone
      <3> QED
        BY <2>1, <3>1, <3>2
    <2> QED
      BY <2>2, <2>8, <2>10 DEF FreshStart
  <1>8. ASSUME NEW job \in working, NEW result \in Outcomes(job),
               Engine!Answer(result),
               UNCHANGED <<queue, pending, submitting, handling, seen, main>>
        PROVE  PlaceInv'
    <2>1. result.job \in working /\ working' = working \ {result.job}
          /\ ready' = ready \union {result}
      BY <1>8 DEF Engine!Answer
    <2>2. result.job.url \in Places[4]
      BY <2>1, PlacesByName DEF UrlsIn
    <2>3. \A k \in (1..6) \ {4} : result.job.url \notin Places[k]
      BY <2>2 DEF Apart
    <2>4. UrlsIn(working') \subseteq UrlsIn(working) \ {result.job.url}
      BY <2>1 DEF UrlsIn
    <2>5. Places'[5] \subseteq Places[5] \union {result.job.url}
      BY <2>1, PlacesByName, PlacesByNameNext DEF UrlsIn, JobsOf
    <2>6. \A k \in (1..6) \ {5} : Places'[k] \subseteq Places[k] \ {result.job.url}
      BY <1>8, <2>3, <2>4, PlacesByName, PlacesByNameNext
    <2>7. result.job.url \in seen
      BY <2>2 DEF Covered
    <2>8. Apart' /\ Covered'
      BY <1>8, <2>5, <2>6, <2>7, <1>0, MovedOne
    <2>9. \A other \in ready : other.job.url # result.job.url
      BY <2>3, PlacesByName DEF UrlsIn, JobsOf
    <2>10. main # "resume"
      BY <2>2 DEF FreshStart
    <2> QED
      BY <1>8, <2>1, <2>8, <2>9, <2>10 DEF FreshStart
  <1>9. ASSUME queue' = queue, pending' = pending, submitting' \subseteq submitting,
               working' \subseteq working, ready' = ready, handling' = handling,
               seen' = seen, main' = "resume" => main = "resume"
        PROVE  PlaceInv'
    <2>1. \A k \in 1..6 : Places'[k] \subseteq Places[k]
      BY <1>9, PlacesByName, PlacesByNameNext DEF UrlsIn
    <2> QED
      BY <1>9, <2>1, NothingMoved DEF FreshStart
  <1>10. CASE EngineStep
    <2>1. UNCHANGED <<queue, pending, submitting, handling, seen, main>>
      BY <1>10 DEF EngineStep, runVars, consumerVars, frontierVars
    <2>2. CASE \E job \in working : Engine!Lose(job)
      BY <1>9, <2>1, <2>2 DEF Engine!Lose
    <2>3. CASE Engine!CloseJobs \/ Engine!CloseResults
      BY <1>9, <2>1, <2>3 DEF Engine!CloseJobs, Engine!CloseResults
    <2> QED
      BY <1>8, <1>10, <2>1, <2>2, <2>3 DEF EngineStep
  <1>11. CASE StartConsumer \/ FeedWait \/ FeedFinish \/ SubmitRefused \/ Return
    BY <1>9, <1>11 DEF StartConsumer, FeedWait, FeedFinish, SubmitRefused, Return,
       Joined, consumerVars, frontierVars, serviceVars
  <1>12. CASE StopEngine
    BY <1>9, <1>12 DEF StopEngine, Engine!Stop, consumerVars, frontierVars
  <1>13. CASE ConsumerExit \/ Signal \/ Emit
    BY <1>9, <1>13 DEF ConsumerExit, Signal, Emit, Woken, runVars, frontierVars,
       serviceVars
  <1>14. CASE NoticeCancel \/ BroadcastCancel
    BY <1>9, <1>14 DEF NoticeCancel, BroadcastCancel, Woken, runVars, consumerVars,
       frontierVars, serviceVars
  <1>15. CASE CancelRun
    BY <1>9, <1>15 DEF CancelRun, Engine!Cancel, runVars, consumerVars, frontierVars
  <1>16. CASE UNCHANGED vars
    BY <1>9, <1>16 DEF vars
  <1> QED
    BY <1>1, <1>2, <1>3, <1>4, <1>5, <1>6, <1>7, <1>10, <1>11, <1>12, <1>13, <1>14,
       <1>15, <1>16 DEF Next, RunNext, RunBody, ConsumerNext, CancellerNext, Returned

\* While the store answers, no URL is ever in two places of the pipeline: not
\* by a retry, a rediscovery, a resumed checkpoint or an answer that comes late.
THEOREM OnePlaceHolds ==
  ASSUME ~StoreErrors
  PROVE  Spec => []OnePlace
  <1>1. TypeOK /\ Hands /\ PlaceInv /\ [Next]_vars => PlaceInv'
    BY PlaceStep
  <1>2. PlaceInv => OnePlace
    BY DEF PlaceInv, Apart, Covered, Alone, AnsweredOnce, OnePlace, OneEach, JobsOf
  <1>3. CountingInv => TypeOK /\ Hands
    BY DEF CountingInv
  <1> QED
    BY <1>1, <1>2, <1>3, PlaceInit, CountingInvariant, PTL DEF Spec

-----------------------------------------------------------------------------
(* A page settles once *)

\* A queued retry stands for the settlement it will lead to.
SettleInv == SettledOnce /\ IsFiniteSet(RetriesQueued)

\* What counting some fields makes of the two that settle a page.
LEMMA CountSettled ==
  ASSUME TypeOK, NEW fields, Count(fields)
  PROVE  /\ stats'.Succeeded = stats.Succeeded
                + IF "Succeeded" \in fields THEN 1 ELSE 0
         /\ stats'.Failed = stats.Failed + IF "Failed" \in fields THEN 1 ELSE 0
  BY DEF Count, TypeOK, StatFields

\* Each settlement is paid for by a job in flight, each job in flight by a page
\* counted or by a retry taken from the queue.
LEMMA SettleStep ==
  ASSUME TypeOK, TypeOK', SettleInv, [Next]_vars
  PROVE  SettleInv'
  <1>a. /\ stats.Succeeded \in Nat /\ stats.Failed \in Nat
        /\ inFlight \in Int /\ dispatched \in Nat
        /\ stats'.Succeeded \in Nat /\ stats'.Failed \in Nat
        /\ inFlight' \in Int /\ dispatched' \in Nat
    BY DEF TypeOK, StatFields
  <1>b. /\ IsFiniteSet(RetriesQueued) /\ Cardinality(RetriesQueued) \in Nat
        /\ stats.Succeeded + stats.Failed + inFlight + Cardinality(RetriesQueued)
              <= dispatched
    BY FS_CardinalityType DEF SettleInv, SettledOnce
  <1>c. ASSUME UNCHANGED RetriesQueued,
               stats'.Succeeded + stats'.Failed + inFlight' - dispatched'
                   <= stats.Succeeded + stats.Failed + inFlight - dispatched
        PROVE  SettleInv'
    BY <1>a, <1>b, <1>c DEF SettleInv, SettledOnce
  <1>1. CASE Resume
    <2>1. PICK items \in Saved : ResumeWith(items)
      BY <1>1 DEF Resume
    <2>2. RetriesQueued' = RetriesQueued
      BY <2>1 DEF ResumeWith, Resumed, RetriesQueued
    <2> QED
      BY <1>a, <1>c, <2>1, <2>2 DEF ResumeWith
  <1>2. CASE EnqueuePush
    <2>1. RetriesQueued' = RetriesQueued
      <3>1. PICK new \in pending :
               \/ UNCHANGED queue
               \/ queue' = queue \union
                      {[url |-> new.url, depth |-> new.depth, attempt |-> 0,
                        retry |-> FALSE, priority |-> new.priority, seq |-> seq']}
        BY <1>2 DEF EnqueuePush
      <3> QED
        BY <3>1 DEF RetriesQueued
    <2>2. UNCHANGED <<inFlight, dispatched>>
      BY <1>2 DEF EnqueuePush
    <2>3. stats'.Succeeded = stats.Succeeded /\ stats'.Failed = stats.Failed
      <3>1. Count({"Dropped"}) \/ UNCHANGED stats
        BY <1>2 DEF EnqueuePush
      <3>2. Count({"Dropped"}) => /\ stats'.Succeeded = stats.Succeeded + 0
                                 /\ stats'.Failed = stats.Failed + 0
        BY CountSettled
      <3> QED
        BY <1>a, <3>1, <3>2
    <2> QED
      BY <1>a, <1>c, <2>1, <2>2, <2>3
  <1>3. CASE FeedPop
    <2>1. PICK item \in queue :
             /\ queue' = queue \ {item} /\ inFlight' = inFlight + 1
             /\ dispatched' = IF item.retry THEN dispatched ELSE dispatched + 1
      BY <1>3 DEF FeedPop, InFlightWith
    <2>2. UNCHANGED stats
      BY <1>3 DEF FeedPop
    <2>3. CASE item.retry
      <3>1. item \in RetriesQueued /\ RetriesQueued' = RetriesQueued \ {item}
        BY <2>1, <2>3 DEF RetriesQueued
      <3>2. /\ IsFiniteSet(RetriesQueued')
            /\ Cardinality(RetriesQueued') = Cardinality(RetriesQueued) - 1
        BY <1>b, <3>1, RemoveOne
      <3> QED
        BY <1>a, <1>b, <2>1, <2>2, <2>3, <3>2 DEF SettleInv, SettledOnce
    <2>4. CASE ~item.retry
      <3>1. RetriesQueued' = RetriesQueued
        BY <2>1, <2>4 DEF RetriesQueued
      <3> QED
        BY <1>a, <1>c, <2>1, <2>2, <2>4, <3>1
    <2> QED
      BY <2>3, <2>4
  <1>4. CASE SubmitRefused
    <2>1. UNCHANGED <<queue, dispatched, stats>> /\ inFlight' = inFlight - 1
      BY <1>4 DEF SubmitRefused, AfterRefusal
    <2>2. RetriesQueued' = RetriesQueued
      BY <2>1 DEF RetriesQueued
    <2> QED
      BY <1>a, <1>c, <2>1, <2>2
  <1>5. CASE Account
    <2>1. PICK result \in handling :
             /\ \/ /\ Requeues(result)
                   /\ queue' = queue \union
                        {[url |-> result.job.url, depth |-> result.job.depth,
                          attempt |-> result.job.attempt + 1, retry |-> TRUE,
                          priority |-> DiscoveredPriority, seq |-> seq']}
                \/ ~Requeues(result) /\ UNCHANGED queue
             /\ Count(Settled(result))
      BY <1>5 DEF Account
    <2>2. inFlight' = inFlight - 1 /\ UNCHANGED dispatched
      BY <1>5 DEF Account
    <2>3. CASE Requeues(result)
      <3> DEFINE entry == [url |-> result.job.url, depth |-> result.job.depth,
                           attempt |-> result.job.attempt + 1, retry |-> TRUE,
                           priority |-> DiscoveredPriority, seq |-> seq']
      <3>1. RetriesQueued' = RetriesQueued \union {entry}
        BY <2>1, <2>3 DEF RetriesQueued
      <3>2. /\ IsFiniteSet(RetriesQueued') /\ Cardinality(RetriesQueued') \in Nat
            /\ Cardinality(RetriesQueued') <= Cardinality(RetriesQueued) + 1
        BY <1>b, <3>1, AddOne
      <3>3. stats'.Succeeded = stats.Succeeded /\ stats'.Failed = stats.Failed
        <4>1. Settled(result) = {"Received", "Retried"}
          BY <2>3 DEF Settled
        <4> QED
          BY <1>a, <2>1, <4>1, CountSettled
      <3> QED
        BY <1>a, <1>b, <2>2, <3>2, <3>3 DEF SettleInv, SettledOnce
    <2>4. CASE ~Requeues(result)
      <3>1. RetriesQueued' = RetriesQueued
        BY <2>1, <2>4 DEF RetriesQueued
      <3>2. stats'.Succeeded + stats'.Failed = stats.Succeeded + stats.Failed + 1
        <4>1. \/ Settled(result) = {"Received", "Succeeded"}
              \/ Settled(result) = {"Received", "Failed"}
          BY <2>4 DEF Settled
        <4> QED
          BY <1>a, <2>1, <4>1, CountSettled
      <3> QED
        BY <1>a, <1>c, <2>2, <3>1, <3>2
    <2> QED
      BY <2>3, <2>4
  <1>6. CASE Emit
    <2>1. UNCHANGED <<queue, inFlight, dispatched>>
      BY <1>6 DEF Emit, frontierVars
    <2>2. RetriesQueued' = RetriesQueued
      BY <2>1 DEF RetriesQueued
    <2>3. PICK result \in emitting : Count({"Duplicate"}) \/ PastExact(result)
      BY <1>6 DEF Emit
    <2>4. \/ UNCHANGED stats
          \/ \E field \in {"Duplicate", "NearDuplicate", "WrongLanguage"} : Count({field})
      BY <2>3 DEF PastExact, PastDedup
    <2>5. stats'.Succeeded = stats.Succeeded /\ stats'.Failed = stats.Failed
      BY <1>a, <2>4, CountSettled
    <2> QED
      BY <1>a, <1>c, <2>1, <2>2, <2>5
  <1>7. CASE UNCHANGED <<queue, stats, inFlight, dispatched>>
    <2>1. RetriesQueued' = RetriesQueued
      BY <1>7 DEF RetriesQueued
    <2> QED
      BY <1>a, <1>c, <1>7, <2>1
  <1> QED
    BY <1>1, <1>2, <1>3, <1>4, <1>5, <1>6, <1>7
       DEF Next, RunNext, RunBody, ConsumerNext, CancellerNext, Returned, Seed,
       StartConsumer, FeedWait, FeedFinish, SubmitAccepted, StopEngine, Return,
       ConsumerExit, ConsumerReceive, EnqueueChild, Signal, NoticeCancel,
       BroadcastCancel, EngineStep, CancelRun, frontierVars, vars

\* However often pages are retried, refused or resumed, no more settle than
\* were counted as dispatched.
THEOREM SettledOnceHolds == Spec => []SettledOnce
  <1>1. Init => SettleInv
    <2> SUFFICES ASSUME Init PROVE SettleInv
      OBVIOUS
    <2>1. RetriesQueued = {} /\ inFlight = 0 /\ dispatched = 0
      BY DEF Init, Started, RetriesQueued
    <2>2. stats.Succeeded = 0 /\ stats.Failed = 0
      BY DEF Init, Started, ZeroStats, StatFields
    <2> QED
      BY <2>1, <2>2, FS_EmptySet DEF SettleInv, SettledOnce
  <1>2. TypeOK /\ TypeOK' /\ SettleInv /\ [Next]_vars => SettleInv'
    BY SettleStep
  <1>3. SettleInv => SettledOnce
    BY DEF SettleInv
  <1> QED
    BY <1>1, <1>2, <1>3, TypeCorrect, PTL DEF Spec

-----------------------------------------------------------------------------
(* The queue bound *)

\* A checkpoint fills the queue with no more items than it has.
LEMMA ResumedCount ==
  ASSUME NEW items \in Seq(SavedItem)
  PROVE  IsFiniteSet(Resumed(items)) /\ Cardinality(Resumed(items)) <= Len(items)
  <1> DEFINE f == [i \in 1..Len(items) |->
                     [url |-> items[i].url, depth |-> items[i].depth,
                      attempt |-> items[i].attempt, retry |-> FALSE,
                      priority |-> items[i].priority, seq |-> seq + i]]
  <1>1. Len(items) \in Nat
    OBVIOUS
  <1>2. f \in Surjection(1..Len(items), Resumed(items))
    BY DEF Surjection, Resumed
  <1>3. IsFiniteSet(1..Len(items)) /\ Cardinality(1..Len(items)) = Len(items)
    <2> DEFINE n == Len(items)
    <2>1. n \in Int /\ 1 \in Int /\ n >= 0
      BY <1>1
    <2> HIDE DEF n
    <2>2. IsFiniteSet(1..n) /\ Cardinality(1..n) = IF 1 > n THEN 0 ELSE n - 1 + 1
      BY <2>1, FS_Interval
    <2> QED
      BY <2>1, <2>2 DEF n
  <1> HIDE DEF f
  <1> QED
    BY <1>2, <1>3, FS_Surjection

\* FrontierBound, strengthened: the queue is finite, and empty until the
\* checkpoint has been loaded.
BoundInv == FrontierBound /\ IsFiniteSet(queue) /\ (main = "resume" => queue = {})

\* Only a fresh entry is bounded; it is pushed onto a queue, retries included,
\* that is below the bound.
LEMMA BoundStep ==
  ASSUME Hands, BoundInv, [Next]_vars
  PROVE  BoundInv'
  <1> DEFINE fresh == queue \ RetriesQueued
             within == MaxQueue > 0 /\ \A items \in Saved : Len(items) <= MaxQueue
  <1>a. IsFiniteSet(queue) /\ Cardinality(queue) \in Nat /\ MaxQueue \in Nat
    BY FS_CardinalityType, LimitsAssumption DEF BoundInv
  <1>b. ASSUME IsFiniteSet(queue'), main' # "resume", queue' \ RetriesQueued' \subseteq fresh
        PROVE  BoundInv'
    <2>1. IsFiniteSet(fresh) /\ Cardinality(fresh) \in Nat
      BY <1>a, FS_Subset, FS_CardinalityType, fresh \in SUBSET queue
    <2>2. /\ Cardinality(fresh') \in Nat
          /\ Cardinality(fresh') <= Cardinality(fresh)
      BY <1>b, <2>1, FS_Subset, FS_CardinalityType
    <2> QED
      BY <1>a, <1>b, <2>1, <2>2 DEF BoundInv, FrontierBound
  <1>1. CASE Resume
    <2>1. PICK items \in Saved : ResumeWith(items)
      BY <1>1 DEF Resume
    <2>2. queue' = Resumed(items) /\ main' = "seed"
      BY <2>1 DEF ResumeWith, BoundInv
    <2>3. fresh' \subseteq Resumed(items)
      BY <2>2
    <2>4. /\ IsFiniteSet(queue') /\ Cardinality(fresh') \in Nat
          /\ Cardinality(fresh') <= Cardinality(queue') /\ Cardinality(queue') \in Nat
          /\ Cardinality(queue') <= Len(items)
      BY <2>2, <2>3, ResumedCount, InputAssumption, FS_Subset, FS_CardinalityType
    <2>5. Len(items) \in Nat
      BY InputAssumption
    <2> QED
      BY <1>a, <2>2, <2>4, <2>5 DEF BoundInv, FrontierBound
  <1>2. CASE EnqueuePush
    <2>1. PICK new \in pending :
             \/ UNCHANGED queue
             \/ /\ ~Full
                /\ queue' = queue \union
                     {[url |-> new.url, depth |-> new.depth, attempt |-> 0,
                       retry |-> FALSE, priority |-> new.priority, seq |-> seq']}
      BY <1>2 DEF EnqueuePush
    <2>2. main' # "resume"
      BY <1>2 DEF EnqueuePush, Hands, Woken
    <2>3. CASE UNCHANGED queue
      BY <1>a, <1>b, <2>2, <2>3 DEF RetriesQueued
    <2>4. CASE ~UNCHANGED queue
      <3> DEFINE entry == [url |-> new.url, depth |-> new.depth, attempt |-> 0,
                           retry |-> FALSE, priority |-> new.priority, seq |-> seq']
      <3>1. ~Full /\ queue' = queue \union {entry}
        BY <2>1, <2>4
      <3>2. /\ IsFiniteSet(queue') /\ Cardinality(queue') \in Nat
            /\ Cardinality(queue') <= Cardinality(queue) + 1
        BY <1>a, <3>1, AddOne
      <3>3. Cardinality(fresh') \in Nat /\ Cardinality(fresh') <= Cardinality(queue')
        BY <3>2, FS_Subset, FS_CardinalityType, fresh' \in SUBSET queue'
      <3>4. within => Cardinality(fresh') <= MaxQueue
        BY <1>a, <3>1, <3>2, <3>3 DEF Full
      <3> QED
        BY <2>2, <3>2, <3>4 DEF BoundInv, FrontierBound
    <2> QED
      BY <2>3, <2>4
  <1>3. CASE FeedPop
    <2>1. PICK item \in queue : queue' = queue \ {item}
      BY <1>3 DEF FeedPop
    <2>2. main' = "submit"
      BY <1>3 DEF FeedPop
    <2>3. IsFiniteSet(queue')
      BY <1>a, <2>1, RemoveOne
    <2>4. fresh' \subseteq fresh
      BY <2>1 DEF RetriesQueued
    <2> QED
      BY <1>b, <2>2, <2>3, <2>4
  <1>4. CASE Account
    <2>1. PICK result \in handling :
             \/ UNCHANGED queue
             \/ queue' = queue \union
                    {[url |-> result.job.url, depth |-> result.job.depth,
                      attempt |-> result.job.attempt + 1, retry |-> TRUE,
                      priority |-> DiscoveredPriority, seq |-> seq']}
      BY <1>4 DEF Account
    <2>2. main' # "resume"
      BY <1>4 DEF Account, Hands, runVars
    <2>3. fresh' \subseteq fresh
      BY <2>1 DEF RetriesQueued
    <2>4. IsFiniteSet(queue')
      BY <1>a, <2>1, AddOne
    <2> QED
      BY <1>b, <2>2, <2>3, <2>4
  <1>5. CASE UNCHANGED queue /\ (main' = "resume" => main = "resume")
    BY <1>5 DEF BoundInv, FrontierBound, RetriesQueued
  <1> QED
    BY <1>1, <1>2, <1>3, <1>4, <1>5
       DEF Next, RunNext, RunBody, ConsumerNext, CancellerNext, Returned, Seed,
       StartConsumer, FeedWait, FeedFinish, SubmitAccepted, SubmitRefused, StopEngine,
       Return, ConsumerExit, ConsumerReceive, EnqueueChild, Signal, Emit, NoticeCancel,
       BroadcastCancel, EngineStep, CancelRun, Woken, runVars, frontierVars, vars

\* With a checkpoint within the bound, no more than MaxQueue fresh items are
\* ever queued, however retries and pushes interleave.
THEOREM FrontierBoundHolds == Spec => []FrontierBound
  <1>1. Init => BoundInv
    <2> SUFFICES ASSUME Init PROVE BoundInv
      OBVIOUS
    <2>1. queue = {} /\ queue \ RetriesQueued = {}
      BY DEF Init, Started, RetriesQueued
    <2> QED
      BY <2>1, FS_EmptySet, LimitsAssumption DEF BoundInv, FrontierBound
  <1>2. Hands /\ BoundInv /\ [Next]_vars => BoundInv'
    BY BoundStep
  <1>3. (CountingInv => Hands) /\ (BoundInv => FrontierBound)
    BY DEF CountingInv, BoundInv
  <1> QED
    BY <1>1, <1>2, <1>3, CountingInvariant, PTL DEF Spec

-----------------------------------------------------------------------------
(* The in-flight counter is exact *)

\* The half of InFlightAccounts that cancellation ends.
Exact == ~cancelled => inFlight = Busy

\* While nobody cancels, a job is given up only when Stop has been called, and
\* then none is left to give up.
LEMMA NothingLost ==
  ASSUME TypeOK, Hands, CompleteEnd, ~cancelled, NEW job \in working
  PROVE  ~Engine!Lose(job)
  BY DEF Hands, CompleteEnd, Ended, Engine!Lose, Engine!ContextDone

\* A job moves from one place to the next, where its URL is not yet, and is
\* counted in each.
LEMMA ExactStep ==
  ASSUME CountingInv, Hands', PlaceInv, CompleteEnd, Exact, [Next]_vars
  PROVE  Exact'
  <1> DEFINE subm == Cardinality(submitting)
             hand == Cardinality(handling)
  <1> USE DEF CountingInv, Counted
  <1> SUFFICES ASSUME ~cancelled' PROVE inFlight' = Busy'
    BY DEF Exact
  <1>0. ~cancelled
    BY DEF Next, RunNext, RunBody, ConsumerNext, CancellerNext, Returned, Resume,
       ResumeWith, Seed, StartConsumer, FeedWait, FeedFinish, FeedPop, SubmitAccepted,
       SubmitRefused, StopEngine, Return, EnqueuePush, ConsumerExit, ConsumerReceive,
       EnqueueChild, Account, Signal, Emit, NoticeCancel, BroadcastCancel, EngineStep,
       CancelRun, Engine!Accept, Engine!Answer, Engine!Receive, Engine!Lose,
       Engine!Cancel, Engine!Stop, Engine!CloseJobs, Engine!CloseResults, serviceVars,
       vars
  <1>a. /\ subm = IF main = "submit" THEN 1 ELSE 0
        /\ hand = IF consumer = "children" THEN 1 ELSE 0
    BY HeldCounts
  <1>b. /\ subm' = IF main' = "submit" THEN 1 ELSE 0
        /\ hand' = IF consumer' = "children" THEN 1 ELSE 0
    BY FS_Singleton, FS_EmptySet DEF Hands
  <1>c. /\ Cardinality(working) \in Nat /\ Cardinality(ready) \in Nat
        /\ inFlight \in Int
        /\ inFlight = subm + Cardinality(working) + Cardinality(ready) + hand
    BY <1>0, FS_CardinalityType DEF Exact, Busy, TypeOK
  <1>d. ASSUME inFlight' = subm' + Cardinality(working') + Cardinality(ready') + hand'
        PROVE  inFlight' = Busy'
    BY <1>d DEF Busy
  <1> HIDE DEF subm, hand
  <1>1. CASE FeedPop
    <2>1. /\ inFlight' = inFlight + 1 /\ main = "feed" /\ main' = "submit"
          /\ UNCHANGED <<working, ready, consumer>>
      BY <1>1 DEF FeedPop, InFlightWith, consumerVars, serviceVars
    <2> QED
      BY <2>1, <1>a, <1>b, <1>c, <1>d
  <1>2. CASE SubmitAccepted
    <2>1. /\ main = "submit" /\ main' = "feed"
          /\ UNCHANGED <<inFlight, ready, consumer>>
      BY <1>2 DEF SubmitAccepted, Engine!Accept, consumerVars, frontierVars
    <2>2. PICK job \in submitting : working' = working \union {job}
      BY <1>2 DEF SubmitAccepted, Engine!Accept
    <2>3. job.url \in Places[3] /\ Places[3] \intersect Places[4] = {}
      BY PlacesByName DEF UrlsIn, PlaceInv, Apart
    <2>4. job \notin working
      BY <2>3, PlacesByName DEF UrlsIn
    <2>5. Cardinality(working') = Cardinality(working) + 1
      BY <2>2, <2>4, AddOne
    <2> QED
      BY <2>1, <2>5, <1>a, <1>b, <1>c, <1>d
  <1>3. CASE SubmitRefused
    <2>1. /\ inFlight' = inFlight - 1 /\ main = "submit" /\ main' = "feed"
          /\ UNCHANGED <<working, ready, consumer>>
      BY <1>3 DEF SubmitRefused, AfterRefusal, consumerVars, serviceVars
    <2> QED
      BY <2>1, <1>a, <1>b, <1>c, <1>d
  <1>4. CASE ConsumerReceive
    <2>1. /\ consumer = "recv" /\ consumer' = "children"
          /\ UNCHANGED <<inFlight, working, main>>
      BY <1>4 DEF ConsumerReceive, Engine!Receive, runVars, frontierVars
    <2>2. PICK result \in ready : ready' = ready \ {result}
      BY <1>4 DEF ConsumerReceive, Engine!Receive
    <2>3. Cardinality(ready') = Cardinality(ready) - 1
      BY <2>2, RemoveOne
    <2> QED
      BY <2>1, <2>3, <1>a, <1>b, <1>c, <1>d
  <1>5. CASE Account
    <2>1. /\ inFlight' = inFlight - 1 /\ consumer = "children" /\ consumer' = "signal"
          /\ UNCHANGED <<working, ready, main>>
      BY <1>5 DEF Account, runVars, serviceVars
    <2> QED
      BY <2>1, <1>a, <1>b, <1>c, <1>d
  <1>6. CASE EngineStep
    <2>1. UNCHANGED <<inFlight, main, consumer>>
      BY <1>6 DEF EngineStep, runVars, consumerVars, frontierVars
    <2>2. ASSUME NEW job \in working, NEW result \in Outcomes(job), Engine!Answer(result)
          PROVE  inFlight' = Busy'
      <3>1. /\ result.job \in working /\ working' = working \ {result.job}
            /\ ready' = ready \union {result}
        BY <2>2 DEF Engine!Answer
      <3>2. result.job.url \in Places[4] /\ Places[4] \intersect Places[5] = {}
        BY <3>1, PlacesByName DEF UrlsIn, PlaceInv, Apart
      <3>3. result.job.url \notin UrlsIn(JobsOf(ready))
        BY <3>2, PlacesByName
      <3>4. result \notin ready
        BY <3>3 DEF UrlsIn, JobsOf
      <3>5. Cardinality(working') = Cardinality(working) - 1
        BY <3>1, RemoveOne
      <3>6. Cardinality(ready') = Cardinality(ready) + 1
        BY <3>1, <3>4, AddOne
      <3> QED
        BY <2>1, <3>5, <3>6, <1>a, <1>b, <1>c, <1>d
    <2>3. ~ \E job \in working : Engine!Lose(job)
      BY <1>0, NothingLost
    <2>4. CASE Engine!CloseJobs \/ Engine!CloseResults
      BY <2>1, <2>4, <1>a, <1>b, <1>c, <1>d DEF Engine!CloseJobs, Engine!CloseResults
    <2> QED
      BY <1>6, <2>2, <2>3, <2>4 DEF EngineStep
  <1>7. CASE UNCHANGED <<submitting, handling, working, ready, inFlight>>
    BY <1>0, <1>7 DEF Exact, Busy
  <1> QED
    BY <1>1, <1>2, <1>3, <1>4, <1>5, <1>6, <1>7
       DEF Next, RunNext, RunBody, ConsumerNext, CancellerNext, Returned, Resume,
       ResumeWith, Seed, StartConsumer, FeedWait, FeedFinish, StopEngine, Return,
       EnqueuePush, ConsumerExit, EnqueueChild, Signal, Emit, NoticeCancel,
       BroadcastCancel, CancelRun, Engine!Stop, Engine!Cancel, runVars, consumerVars,
       frontierVars, serviceVars, vars

\* feed's counter is the number of jobs between the pop and the accounting as
\* long as nobody cancels, and never less: it waits no longer than it has to.
THEOREM InFlightAccountsHolds ==
  ASSUME ~StoreErrors
  PROVE  Spec => []InFlightAccounts
  <1>1. Init => Exact
    BY FS_EmptySet DEF Init, Started, Exact, Busy, Engine!ServiceInit
  <1>2. CountingInv /\ PlaceInv /\ [Next]_vars => PlaceInv'
    BY PlaceStep DEF CountingInv
  <1>3. CountingInv /\ CountingInv' /\ PlaceInv /\ CompleteEnd /\ Exact /\ [Next]_vars
           => Exact'
    BY ExactStep DEF CountingInv
  <1>4. CountingInv /\ Exact => InFlightAccounts
    BY DEF CountingInv, Counted, Exact, InFlightAccounts
  <1> QED
    BY <1>1, <1>2, <1>3, <1>4, PlaceInit, CountingInvariant, CompleteEndHolds, PTL
       DEF Spec

-----------------------------------------------------------------------------
(* A page is given to the sink once *)

\* The URLs on their way, and those of the results that are through.
InPlay == UrlsIn(queue) \union UrlsIn(pending) \union UrlsIn(submitting)
            \union UrlsIn(working) \union UrlsIn(JobsOf(ready))
            \union UrlsIn(JobsOf(handling))
Out == UrlsIn(JobsOf(emitting)) \union UrlsIn(JobsOf(sunk))

LEMMA InPlayNext ==
  InPlay' = UrlsIn(queue') \union UrlsIn(pending') \union UrlsIn(submitting')
              \union UrlsIn(working') \union UrlsIn(JobsOf(ready'))
              \union UrlsIn(JobsOf(handling'))
  BY DEF InPlay, UrlsIn, JobsOf

\* Only a URL just marked seen, or one of a checkpoint, comes into play.
LEMMA InPlayStep ==
  ASSUME [Next]_vars, ~Resume
  PROVE  seen \subseteq seen' /\ InPlay' \subseteq InPlay \union (seen' \ seen)
  <1>1. CASE Seed \/ EnqueueChild
    <2>1. PICK raw, depth, priority : EnqueueProcess(raw, depth, priority)
      BY <1>1 DEF Seed, EnqueueChild
    <2>2. UNCHANGED <<queue, submitting, working, ready, handling>>
      BY <1>1 DEF Seed, EnqueueChild, runVars, frontierVars, consumerVars, serviceVars
    <2>3. seen \subseteq seen' /\ UrlsIn(pending') \subseteq UrlsIn(pending) \union (seen' \ seen)
      BY <2>1 DEF EnqueueProcess, Accepts, UrlsIn
    <2> QED
      BY <2>2, <2>3, InPlayNext DEF InPlay
  <1>2. CASE EnqueuePush
    <2>1. PICK new \in pending :
             \/ UNCHANGED queue
             \/ queue' = queue \union
                    {[url |-> new.url, depth |-> new.depth, attempt |-> 0,
                      retry |-> FALSE, priority |-> new.priority, seq |-> seq']}
      BY <1>2 DEF EnqueuePush
    <2>2. pending' = {} /\ UNCHANGED <<submitting, working, ready, handling, seen>>
      BY <1>2 DEF EnqueuePush, consumerVars, serviceVars
    <2>3. UrlsIn(queue') \subseteq UrlsIn(queue) \union UrlsIn(pending) /\ UrlsIn(pending') = {}
      BY <2>1, <2>2 DEF UrlsIn
    <2> QED
      BY <2>2, <2>3, InPlayNext DEF InPlay
  <1>3. CASE FeedPop
    <2>1. /\ UrlsIn(queue') \subseteq UrlsIn(queue)
          /\ UrlsIn(submitting') \subseteq UrlsIn(queue)
      BY <1>3 DEF FeedPop, UrlsIn
    <2>2. UNCHANGED <<pending, working, ready, handling, seen>>
      BY <1>3 DEF FeedPop, consumerVars, serviceVars
    <2> QED
      BY <2>1, <2>2, InPlayNext DEF InPlay
  <1>4. CASE SubmitAccepted
    <2>1. /\ UrlsIn(working') \subseteq UrlsIn(working) \union UrlsIn(submitting)
          /\ UrlsIn(submitting') = {}
      BY <1>4 DEF SubmitAccepted, Engine!Accept, UrlsIn
    <2>2. UNCHANGED <<queue, pending, ready, handling, seen>>
      BY <1>4 DEF SubmitAccepted, Engine!Accept, consumerVars, frontierVars
    <2> QED
      BY <2>1, <2>2, InPlayNext DEF InPlay
  <1>5. CASE ConsumerReceive
    <2>1. /\ UrlsIn(JobsOf(ready')) \subseteq UrlsIn(JobsOf(ready))
          /\ UrlsIn(JobsOf(handling')) \subseteq UrlsIn(JobsOf(ready))
      BY <1>5 DEF ConsumerReceive, Engine!Receive, UrlsIn, JobsOf
    <2>2. UNCHANGED <<queue, pending, submitting, working, seen>>
      BY <1>5 DEF ConsumerReceive, Engine!Receive, runVars, frontierVars
    <2> QED
      BY <2>1, <2>2, InPlayNext DEF InPlay
  <1>6. CASE Account
    <2>1. PICK result \in handling :
             \/ UNCHANGED queue
             \/ queue' = queue \union
                    {[url |-> result.job.url, depth |-> result.job.depth,
                      attempt |-> result.job.attempt + 1, retry |-> TRUE,
                      priority |-> DiscoveredPriority, seq |-> seq']}
      BY <1>6 DEF Account
    <2>2. handling' = {} /\ UNCHANGED <<pending, submitting, working, ready, seen>>
      BY <1>6 DEF Account, runVars, serviceVars
    <2>3. /\ UrlsIn(queue') \subseteq UrlsIn(queue) \union UrlsIn(JobsOf(handling))
          /\ UrlsIn(JobsOf(handling')) = {}
      BY <2>1, <2>2 DEF UrlsIn, JobsOf
    <2> QED
      BY <2>2, <2>3, InPlayNext DEF InPlay
  <1>7. CASE EngineStep
    <2>1. /\ UrlsIn(working') \subseteq UrlsIn(working)
          /\ UrlsIn(JobsOf(ready')) \subseteq UrlsIn(JobsOf(ready)) \union UrlsIn(working)
      BY <1>7 DEF EngineStep, Engine!Answer, Engine!Lose, Engine!CloseJobs,
         Engine!CloseResults, UrlsIn, JobsOf
    <2>2. UNCHANGED <<queue, pending, submitting, handling, seen>>
      BY <1>7 DEF EngineStep, runVars, consumerVars, frontierVars
    <2> QED
      BY <2>1, <2>2, InPlayNext DEF InPlay
  <1>8. ASSUME UNCHANGED <<queue, pending, working, ready, handling, seen>>,
               submitting' \subseteq submitting
        PROVE  seen \subseteq seen' /\ InPlay' \subseteq InPlay \union (seen' \ seen)
    <2>1. UrlsIn(submitting') \subseteq UrlsIn(submitting)
      BY <1>8 DEF UrlsIn
    <2> QED
      BY <1>8, <2>1, InPlayNext DEF InPlay
  <1> QED
    BY <1>1, <1>2, <1>3, <1>4, <1>5, <1>6, <1>7, <1>8
       DEF Next, RunNext, RunBody, ConsumerNext, CancellerNext, Returned,
       StartConsumer, FeedWait, FeedFinish, SubmitRefused, StopEngine, Return,
       ConsumerExit, Signal, Emit, NoticeCancel, BroadcastCancel, CancelRun,
       Engine!Stop, Engine!Cancel, runVars, consumerVars, frontierVars, serviceVars, vars

\* A result that is through has left the places for good: it is not emitted
\* twice, and what has been seen does not come into play again.
SunkApart ==
    /\ Out \subseteq seen
    /\ InPlay \intersect Out = {}
    /\ UrlsIn(JobsOf(emitting)) \intersect UrlsIn(JobsOf(sunk)) = {}
    /\ main = "resume" => Out = {}

LEMMA SunkApartStep ==
  ASSUME CountingInv, OutHand, PlaceInv, SunkApart, [Next]_vars
  PROVE  SunkApart'
  <1>0. /\ Out' = UrlsIn(JobsOf(emitting')) \union UrlsIn(JobsOf(sunk'))
        /\ UrlsIn(JobsOf(emitting))' = UrlsIn(JobsOf(emitting'))
        /\ UrlsIn(JobsOf(sunk))' = UrlsIn(JobsOf(sunk'))
    BY DEF Out, UrlsIn, JobsOf
  <1>1. CASE Resume
    <2>1. /\ main = "resume" /\ main' # "resume" /\ UNCHANGED <<emitting, sunk>>
      BY <1>1 DEF Resume, ResumeWith, consumerVars, outputVars
    <2> QED
      BY <1>0, <2>1 DEF SunkApart, Out
  <1>2. CASE Account
    <2>1. PICK result \in handling : emitting' = Emits(result)
               /\ (~Requeues(result) => UNCHANGED queue)
      BY <1>2 DEF Account
    <2>2. handling' = {} /\ UNCHANGED <<pending, submitting, working, ready, seen, sunk, main>>
      BY <1>2 DEF Account, runVars, serviceVars, outputVars
    <2>3. InPlay' \subseteq InPlay
      BY <1>2, <2>2, InPlayStep DEF Account, Resume, ResumeWith, CountingInv, Hands
    <2>4. CASE Requeues(result)
      <3>1. UrlsIn(JobsOf(emitting')) = {}
        BY <2>1, <2>4 DEF Emits, UrlsIn, JobsOf
      <3> QED
        BY <1>0, <2>2, <2>3, <3>1 DEF SunkApart, Out
    <2>5. CASE ~Requeues(result)
      <3>1. UrlsIn(JobsOf(emitting')) = {result.job.url}
        BY <2>1, <2>5 DEF Emits, UrlsIn, JobsOf
      <3>2. result.job.url \in UrlsIn(JobsOf(handling))
        BY DEF UrlsIn, JobsOf
      <3>3. result.job.url \in Places[6]
        BY <3>2, PlacesByName
      <3>4. result.job.url \in seen /\ \A k \in 1..5 : result.job.url \notin Places[k]
        BY <3>3 DEF PlaceInv, Apart, Covered
      <3>5. UrlsIn(JobsOf(handling')) = {}
        BY <2>2 DEF UrlsIn, JobsOf
      <3>6. result.job.url \notin InPlay'
        BY <2>1, <2>2, <2>5, <3>4, <3>5, PlacesByName, InPlayNext
      <3>7. result.job.url \notin Out /\ UrlsIn(JobsOf(sunk)) \subseteq Out
        BY <3>2 DEF SunkApart, InPlay, Out
      <3>8. main # "resume"
        BY <1>2 DEF Account, CountingInv, Hands
      <3> QED
        BY <1>0, <2>2, <2>3, <3>1, <3>4, <3>6, <3>7, <3>8 DEF SunkApart
    <2> QED
      BY <2>4, <2>5
  <1>3. CASE Emit
    <2>1. /\ emitting' = {} /\ sunk' \subseteq sunk \union emitting
          /\ main # "resume" /\ UNCHANGED main
      BY <1>3 DEF Emit, PastExact, PastDedup, outputVars, runVars, CountingInv, Hands
    <2>2. InPlay' \subseteq InPlay \union (seen' \ seen) /\ seen \subseteq seen'
      BY <1>3, <2>1, InPlayStep DEF Resume, ResumeWith
    <2>3. UrlsIn(JobsOf(emitting')) = {} /\ UrlsIn(JobsOf(sunk')) \subseteq Out
      BY <2>1 DEF Out, UrlsIn, JobsOf
    <2> QED
      BY <1>0, <2>1, <2>2, <2>3 DEF SunkApart
  <1>4. CASE ~Resume /\ emitting' = emitting /\ sunk' = sunk
             /\ (main' = "resume" => main = "resume")
    <2>1. seen \subseteq seen' /\ InPlay' \subseteq InPlay \union (seen' \ seen)
      BY <1>4, InPlayStep
    <2> QED
      BY <1>0, <1>4, <2>1 DEF SunkApart, Out
  <1>5. UNCHANGED outputVars \/ Emit
    BY OnlyEmitOutputs
  <1> QED
    BY <1>1, <1>2, <1>3, <1>4, <1>5
       DEF Next, RunNext, RunBody, ConsumerNext, CancellerNext, Returned, Seed,
       StartConsumer, FeedWait, FeedFinish, FeedPop, SubmitAccepted, SubmitRefused,
       StopEngine, Return, EnqueuePush, ConsumerExit, ConsumerReceive, EnqueueChild,
       Signal, NoticeCancel, BroadcastCancel, EngineStep, CancelRun, Woken, runVars,
       consumerVars, outputVars, vars

\* While the store answers, no URL's result reaches the sink twice, however it
\* is retried, rediscovered or found in the checkpoint.
THEOREM SunkOnceHolds ==
  ASSUME ~StoreErrors
  PROVE  Spec => SunkOnce
  <1>1. Init => SunkApart /\ OutHand
    <2> SUFFICES ASSUME Init PROVE SunkApart /\ OutHand
      OBVIOUS
    <2>1. emitting = {} /\ sunk = {} /\ consumer = "unstarted"
      BY DEF Init, Started
    <2>2. UrlsIn(JobsOf(emitting)) = {} /\ UrlsIn(JobsOf(sunk)) = {}
      BY <2>1 DEF UrlsIn, JobsOf
    <2> QED
      BY <2>1, <2>2 DEF SunkApart, Out, OutHand
  <1>2. CountingInv /\ PlaceInv /\ [Next]_vars => PlaceInv'
    BY PlaceStep DEF CountingInv
  <1>3. CountingInv /\ OutHand /\ [Next]_vars => OutHand'
    BY OutHandStep DEF CountingInv
  <1>4. CountingInv /\ OutHand /\ PlaceInv /\ SunkApart /\ [Next]_vars => SunkApart'
    BY SunkApartStep
  <1>5. SunkApart => [Emit => \A result \in emitting :
                                 result.job.url \notin UrlsIn(JobsOf(sunk))]_vars
    <2> SUFFICES ASSUME SunkApart, NEW result \in emitting
                 PROVE  result.job.url \notin UrlsIn(JobsOf(sunk))
      OBVIOUS
    <2>1. result.job.url \in UrlsIn(JobsOf(emitting))
      BY DEF UrlsIn, JobsOf
    <2> QED
      BY <2>1 DEF SunkApart
  <1> QED
    BY <1>1, <1>2, <1>3, <1>4, <1>5, PlaceInit, CountingInvariant, PTL
       DEF Spec, SunkOnce
=============================================================================
