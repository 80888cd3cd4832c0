---------------------------- MODULE Coordinator ----------------------------
(***************************************************************************)
(* The crawl coordinator (internal/crawler/coordinator.go): the goroutine  *)
(* of Run that resumes, seeds and then feeds, the consumer goroutine, and  *)
(* the goroutine that turns cancellation into done.  They share the        *)
(* frontier under one mutex and one condition variable; every action below *)
(* is one critical section, or one stretch of code between two of them     *)
(* that touches nothing shared.  The engine is seen through JobService.    *)
(***************************************************************************)
EXTENDS Integers, Sequences, FiniteSets

CONSTANTS
    URL,            \* normalized URLs in scope
    Raw,            \* URLs as they are written in seeds, sitemaps and pages
    Normalize,      \* what normalization and validation make of a raw URL: a
                    \* member of URL, or something else when it is rejected
    Text, NoText,   \* cleaned page texts, and its absence
    Lang, NoLang,   \* primary languages, and the absence of a detected one
    Near,           \* the pairs of texts whose simhashes are near
    Web,            \* Web[url]: the pages a successful fetch of url may see
    Failures,       \* the ways a fetch may fail: "failed", "retryable"
    Seeds,          \* the seeds, each followed by what its sitemaps list
    Saved,          \* the possible contents of the checkpoint file
    OldSeen,        \* the possible contents of the seen set of the store
    StoreErrors,    \* whether a call of the dedup store may fail
    MaxPages, MaxDepth, MaxQueue,   \* 0 is "no limit"
    MaxRetries,
    MaxSimhashes,
    DedupContent, DedupNear,
    AllowedLangs    \* the languages to keep; {} keeps all

SeedPriority == 100
SitemapPriority == 50
DiscoveredPriority == 0
Priorities == {SeedPriority, SitemapPriority, DiscoveredPriority}

Page == [links: Seq(Raw), text: Text \union {NoText}, lang: Lang \union {NoLang}]
NoPage == [links |-> <<>>, text |-> NoText, lang |-> NoLang]
Job == [url: URL, depth: Nat, attempt: Nat]
Result == [job: Job, kind: {"ok", "failed", "retryable"}, page: Page]
Item == [url: URL, depth: Nat, attempt: Nat, retry: BOOLEAN,
         priority: Priorities, seq: Nat]
SavedItem == [url: URL, depth: Nat, attempt: Nat, priority: Priorities]

ASSUME LimitsAssumption ==
    /\ MaxPages \in Nat /\ MaxDepth \in Nat /\ MaxQueue \in Nat
    /\ MaxRetries \in Nat /\ MaxSimhashes \in Nat
    /\ DedupContent \in BOOLEAN /\ DedupNear \in BOOLEAN
    /\ StoreErrors \in BOOLEAN

\* That two simhashes are near is a matter of the bits in which they differ.
ASSUME WebAssumption ==
    /\ \A url \in URL : Web[url] \subseteq Page
    /\ Near \subseteq Text \X Text /\ \A pair \in Near : <<pair[2], pair[1]>> \in Near
    /\ Failures \subseteq {"failed", "retryable"}
    /\ AllowedLangs \subseteq Lang

\* A checkpoint is a snapshot of a queue, in which no URL occurs twice.
ASSUME InputAssumption ==
    /\ Seeds \in Seq([raw: Raw, priority: {SeedPriority, SitemapPriority}])
    /\ Saved \subseteq Seq(SavedItem)
    /\ \A items \in Saved : \A i, j \in 1..Len(items) :
          items[i].url = items[j].url => i = j
    /\ \A old \in OldSeen : old \subseteq URL

VARIABLES
    main,       \* where the goroutine of Run is
    todo,       \* the seeds it has not enqueued yet
    submitting, \* the job it popped and is submitting, as a set
    consumer,   \* where the consumer goroutine is
    handling,   \* the result the consumer has not accounted for yet, as a set
    links,      \* the links of that result still to be enqueued
    emitting,   \* the accounted result not yet filtered and sunk, as a set
    pending,    \* the entry between the two critical sections of enqueue
    canceller,  \* where the goroutine waiting for ctx.Done is
    queue, seq, inFlight, dispatched, done, stats,  \* the Coordinator's fields
    seen,       \* the store's seen set
    hashes,     \* the store's content hashes
    simhashes,  \* the texts whose simhash the consumer keeps
    sunk,       \* the results given to the sink
    working, ready, engine, closed, cancelled   \* the engine, see JobService

runVars == <<main, todo, submitting>>
consumerVars == <<consumer, handling, links, emitting>>
frontierVars == <<queue, seq, inFlight, dispatched, done>>
outputVars == <<hashes, simhashes, sunk>>
serviceVars == <<working, ready, engine, closed, cancelled>>
vars == <<main, todo, submitting, consumer, handling, links, emitting, pending,
          canceller, queue, seq, inFlight, dispatched, done, stats, seen, hashes,
          simhashes, sunk, working, ready, engine, closed, cancelled>>

Engine == INSTANCE JobService

\* The fields of CrawlStats; Dispatched is the variable dispatched.
StatFields == {"Received", "Succeeded", "Failed", "Retried", "Dropped", "Duplicate",
               "NearDuplicate", "WrongLanguage"}
ZeroStats == [field \in StatFields |-> 0]

Count(fields) ==
    stats' = [f \in StatFields |-> stats[f] + IF f \in fields THEN 1 ELSE 0]

\* The state of a new Coordinator, apart from the store, when Run starts.
Started ==
    /\ main = "resume" /\ todo = Seeds /\ submitting = {}
    /\ consumer = "unstarted" /\ handling = {} /\ links = <<>> /\ emitting = {}
    /\ pending = {}
    /\ canceller = "waiting"
    /\ queue = {} /\ seq = 0 /\ inFlight = 0 /\ dispatched = 0 /\ done = FALSE
    /\ stats = ZeroStats
    /\ simhashes = {} /\ sunk = {}
    /\ Engine!ServiceInit

Init == Started /\ seen \in OldSeen /\ hashes = {}

-----------------------------------------------------------------------------
(* The frontier *)

\* The heap's order: higher priority, then shallower, then older.
Before(a, b) ==
    \/ a.priority > b.priority
    \/ a.priority = b.priority /\ a.depth < b.depth
    \/ a.priority = b.priority /\ a.depth = b.depth /\ a.seq < b.seq

IsTop(item) == item \in queue /\ \A other \in queue : ~Before(other, item)

AtCapLate == MaxPages > 0 /\ dispatched > MaxPages
AtCap == MaxPages > 0 /\ dispatched >= MaxPages
TooDeepEarly(depth) == MaxDepth > 0 /\ depth >= MaxDepth
TooDeep(depth) == MaxDepth > 0 /\ depth > MaxDepth
FullLate == MaxQueue > 0 /\ Cardinality(queue) > MaxQueue
Full == MaxQueue > 0 /\ Cardinality(queue) >= MaxQueue

\* cond.Broadcast: only the feeder ever waits on the condition.
Unwoken == main
Woken == IF main = "wait" THEN "feed" ELSE main

\* Process rejects what does not normalize or validate, and what is seen.
AnyScope(url) == url \notin seen
AnyAge(url) == url \in URL
Accepts(url) == url \in URL /\ url \notin seen

\* enqueue up to its second critical section: give up if done, too deep,
\* rejected or seen; otherwise Process marks the URL seen.
EnqueueProcess(raw, depth, priority) ==
    LET url == Normalize[raw]
        accepted == ~done /\ ~TooDeep(depth) /\ Accepts(url)
    IN  \/ /\ accepted
           /\ seen' = seen \union {url}
           /\ pending' = {[url |-> url, depth |-> depth, priority |-> priority]}
        \/ /\ ~accepted \/ StoreErrors
           /\ UNCHANGED <<seen, pending>>

\* The second critical section: recheck done, bound the queue, push, wake.
EnqueuePush ==
    /\ pending # {}
    /\ pending' = {}
    /\ \E new \in pending :
          \/ /\ done
             /\ UNCHANGED <<main, queue, seq, stats>>
          \/ /\ ~done /\ Full
             /\ Count({"Dropped"})
             /\ UNCHANGED <<main, queue, seq>>
          \/ /\ ~done /\ ~Full
             /\ seq' = seq + 1
             /\ queue' = queue \union
                  {[url |-> new.url, depth |-> new.depth, attempt |-> 0,
                    retry |-> FALSE, priority |-> new.priority, seq |-> seq']}
             /\ main' = Woken
             /\ UNCHANGED stats
    /\ UNCHANGED <<todo, submitting, consumerVars, canceller, inFlight,
                   dispatched, done, seen, outputVars, serviceVars>>

-----------------------------------------------------------------------------
(* Run *)

ResumedFresh(items) ==
    {[url |-> items[i].url, depth |-> items[i].depth, attempt |-> items[i].attempt,
      retry |-> FALSE, priority |-> items[i].priority, seq |-> seq + i] :
        i \in {j \in 1..Len(items) : items[j].url \notin seen}}

\* The items loaded from the checkpoint, as the heap receives them: marked as
\* fresh dispatches whatever they were when they were saved.
Resumed(items) ==
    {[url |-> items[i].url, depth |-> items[i].depth, attempt |-> items[i].attempt,
      retry |-> FALSE, priority |-> items[i].priority, seq |-> seq + i] :
        i \in 1..Len(items)}

\* Loaded URLs are marked seen; an error of the store is ignored.
ForgottenUrls(items) == {}
ResumedUrls(items) == {items[i].url : i \in 1..Len(items)}

ResumeWith(items) ==
    /\ main = "resume"
    /\ main' = "seed"
    /\ queue' = queue \union Resumed(items)
    /\ seq' = seq + Len(items)
    /\ \E lost \in SUBSET ResumedUrls(items) :
          /\ lost = {} \/ StoreErrors
          /\ seen' = seen \union (ResumedUrls(items) \ lost)
    /\ UNCHANGED <<todo, submitting, consumerVars, pending, canceller, inFlight,
                   dispatched, done, stats, outputVars, serviceVars>>

Resume == \E items \in Saved : ResumeWith(items)

Seed ==
    /\ main = "seed" /\ todo # <<>> /\ pending = {}
    /\ todo' = Tail(todo)
    /\ EnqueueProcess(Head(todo).raw, 0, Head(todo).priority)
    /\ UNCHANGED <<main, submitting, consumerVars, canceller, frontierVars, stats,
                   outputVars, serviceVars>>

StartConsumer ==
    /\ main = "seed" /\ todo = <<>> /\ pending = {}
    /\ main' = "feed"
    /\ consumer' = "recv"
    /\ UNCHANGED <<todo, submitting, handling, links, emitting, pending, canceller,
                   frontierVars, stats, seen, outputVars, serviceVars>>

\* feed, holding the mutex: wait, terminate or pop.
MustWait == (queue = {} \/ AtCap) /\ inFlight > 0 /\ ~done
Finished == done \/ (inFlight = 0 /\ (queue = {} \/ AtCap))

FeedWait ==
    /\ main = "feed" /\ MustWait
    /\ main' = "wait"
    /\ UNCHANGED <<todo, submitting, consumerVars, pending, canceller, frontierVars,
                   stats, seen, outputVars, serviceVars>>

FeedFinish ==
    /\ main = "feed" /\ ~MustWait /\ Finished
    /\ main' = "stop"
    /\ done' = TRUE
    /\ UNCHANGED <<todo, submitting, consumerVars, pending, canceller, queue, seq,
                   inFlight, dispatched, stats, seen, outputVars, serviceVars>>

\* A retry is not counted again in dispatched, but it is in flight again.
InFlightOnce(item) == IF item.retry THEN inFlight ELSE inFlight + 1
InFlightWith(item) == inFlight + 1

FeedPop ==
    /\ main = "feed" /\ ~MustWait /\ ~Finished
    /\ main' = "submit"
    /\ \E item \in queue :
          /\ IsTop(item)
          /\ queue' = queue \ {item}
          /\ dispatched' = IF item.retry THEN dispatched ELSE dispatched + 1
          /\ submitting' = {[url |-> item.url, depth |-> item.depth,
                             attempt |-> item.attempt]}
          /\ inFlight' = InFlightWith(item)
    /\ UNCHANGED <<todo, consumerVars, pending, canceller, seq, done, stats, seen,
                   outputVars, serviceVars>>

\* SubmitJob succeeds, or fails (robots.txt, cancellation) and the feeder takes
\* the job back out of inFlight; its URL is given up.
SubmitAccepted ==
    /\ main = "submit"
    /\ main' = "feed"
    /\ \E job \in submitting : Engine!Accept(job)
    /\ submitting' = {}
    /\ UNCHANGED <<todo, consumerVars, pending, canceller, frontierVars, stats, seen,
                   outputVars>>

StillCounted == inFlight
AfterRefusal == inFlight - 1

SubmitRefused ==
    /\ main = "submit"
    /\ main' = "feed"
    /\ submitting' = {}
    /\ inFlight' = AfterRefusal
    /\ UNCHANGED <<todo, consumerVars, pending, canceller, queue, seq, dispatched,
                   done, stats, seen, outputVars, serviceVars>>

StopEngine ==
    /\ main = "stop"
    /\ main' = "join"
    /\ Engine!Stop
    /\ UNCHANGED <<todo, submitting, consumerVars, pending, canceller, frontierVars,
                   stats, seen, outputVars>>

\* engine.Stop has returned and the consumer has closed consumerDone.
Joined == main = "join" /\ engine = "stopped" /\ consumer = "exited"

Return ==
    /\ Joined
    /\ main' = "returned"
    /\ UNCHANGED <<todo, submitting, consumerVars, pending, canceller, frontierVars,
                   stats, seen, outputVars, serviceVars>>

-----------------------------------------------------------------------------
(* The consumer *)

\* select takes either ready case: a cancelled consumer may still receive.
ConsumerExit ==
    /\ consumer = "recv"
    /\ cancelled \/ (closed /\ ready = {})
    /\ consumer' = "exited"
    /\ UNCHANGED <<runVars, handling, links, emitting, pending, canceller,
                   frontierVars, stats, seen, outputVars, serviceVars>>

ConsumerReceive ==
    /\ consumer = "recv"
    /\ consumer' = "children"
    /\ \E result \in ready :
          /\ Engine!Receive(result)
          /\ handling' = {result}
          /\ links' = IF TooDeep(result.job.depth + 1) THEN <<>> ELSE result.page.links
    /\ UNCHANGED <<runVars, emitting, pending, canceller, frontierVars, stats, seen,
                   outputVars>>

EnqueueChild ==
    /\ consumer = "children" /\ links # <<>> /\ pending = {}
    /\ links' = Tail(links)
    /\ \E result \in handling :
          EnqueueProcess(Head(links), result.job.depth + 1, DiscoveredPriority)
    /\ UNCHANGED <<runVars, consumer, handling, emitting, canceller, frontierVars,
                   stats, outputVars, serviceVars>>

Requeues(result) ==
    ~done /\ result.kind = "retryable" /\ result.job.attempt < MaxRetries

\* The counters of one result, and whether the filters and the sink get it.
SettledTwice(result) ==
    IF Requeues(result) THEN {"Received", "Retried", "Failed"}
    ELSE {"Received", IF result.kind = "ok" THEN "Succeeded" ELSE "Failed"}
Settled(result) ==
    IF Requeues(result) THEN {"Received", "Retried"}
    ELSE {"Received", IF result.kind = "ok" THEN "Succeeded" ELSE "Failed"}
EmitsRetried(result) == {result}
Emits(result) == IF Requeues(result) THEN {} ELSE {result}

\* The consumer's critical section: requeue a retryable failure, take the job
\* out of inFlight and count it.
Account ==
    /\ consumer = "children" /\ links = <<>> /\ pending = {}
    /\ consumer' = "signal"
    /\ handling' = {}
    /\ inFlight' = inFlight - 1
    /\ \E result \in handling :
          /\ \/ /\ Requeues(result)
                /\ seq' = seq + 1
                /\ queue' = queue \union
                     {[url |-> result.job.url, depth |-> result.job.depth,
                       attempt |-> result.job.attempt + 1, retry |-> TRUE,
                       priority |-> DiscoveredPriority, seq |-> seq']}
             \/ ~Requeues(result) /\ UNCHANGED <<queue, seq>>
          /\ Count(Settled(result))
          /\ emitting' = Emits(result)
    /\ UNCHANGED <<runVars, links, pending, canceller, dispatched, done, seen,
                   outputVars, serviceVars>>

Signal ==
    /\ consumer = "signal"
    /\ consumer' = IF emitting = {} THEN "recv" ELSE "emit"
    /\ main' = Woken
    /\ UNCHANGED <<todo, submitting, handling, links, emitting, pending, canceller,
                   frontierVars, stats, seen, outputVars, serviceVars>>

\* The output filters, in their order: exact duplicates by content hash, near
\* duplicates by simhash, language.  A store error is "not a duplicate" and
\* leaves the hash unstored.
NothingKnown(text) == FALSE
Known(text) == text \in hashes
NearExactly(text) == text \in simhashes
NearSeen(text) == \E prev \in simhashes : <<text, prev>> \in Near
Remembered(text) ==
    IF Cardinality(simhashes) < MaxSimhashes THEN simhashes \union {text} ELSE simhashes
OffLanguage(page) ==
    AllowedLangs # {} /\ page.lang # NoLang /\ page.lang \notin AllowedLangs

PastDedup(result) ==
    \/ /\ OffLanguage(result.page)
       /\ Count({"WrongLanguage"})
       /\ UNCHANGED sunk
    \/ /\ ~OffLanguage(result.page)
       /\ sunk' = sunk \union {result}
       /\ UNCHANGED stats

PastExact(result) ==
    LET text == result.page.text
    IN  \/ /\ text # NoText /\ DedupNear /\ NearSeen(text)
           /\ Count({"NearDuplicate"})
           /\ UNCHANGED <<simhashes, sunk>>
        \/ /\ text # NoText /\ DedupNear /\ ~NearSeen(text)
           /\ simhashes' = Remembered(text)
           /\ PastDedup(result)
        \/ /\ text = NoText \/ ~DedupNear
           /\ UNCHANGED simhashes
           /\ PastDedup(result)

Emit ==
    /\ consumer = "emit"
    /\ consumer' = "recv"
    /\ emitting' = {}
    /\ \E result \in emitting :
          LET text == result.page.text
          IN  \/ /\ text # NoText /\ DedupContent /\ Known(text)
                 /\ Count({"Duplicate"})
                 /\ UNCHANGED outputVars
              \/ /\ text # NoText /\ DedupContent
                 /\ ~Known(text) \/ StoreErrors
                 /\ \/ hashes' = hashes \union {text}
                    \/ StoreErrors /\ UNCHANGED hashes
                 /\ PastExact(result)
              \/ /\ text = NoText \/ ~DedupContent
                 /\ UNCHANGED hashes
                 /\ PastExact(result)
    /\ UNCHANGED <<runVars, handling, links, pending, canceller, frontierVars, seen,
                   serviceVars>>

-----------------------------------------------------------------------------
(* Cancellation *)

CancelSeen == canceller = "waiting" /\ cancelled

NoticeCancel ==
    /\ CancelSeen
    /\ canceller' = "signal"
    /\ done' = TRUE
    /\ UNCHANGED <<runVars, consumerVars, pending, queue, seq, inFlight, dispatched,
                   stats, seen, outputVars, serviceVars>>

BroadcastCancel ==
    /\ canceller = "signal"
    /\ canceller' = "exited"
    /\ main' = Woken
    /\ UNCHANGED <<todo, submitting, consumerVars, pending, frontierVars, stats, seen,
                   outputVars, serviceVars>>

-----------------------------------------------------------------------------
(* The engine and the caller's context *)

Outcomes(job) ==
    {[job |-> job, kind |-> "ok", page |-> page] : page \in Web[job.url]}
    \union {[job |-> job, kind |-> kind, page |-> NoPage] : kind \in Failures}

EngineStep ==
    /\ \/ \E job \in working : \E result \in Outcomes(job) : Engine!Answer(result)
       \/ \E job \in working : Engine!Lose(job)
       \/ Engine!CloseJobs
       \/ Engine!CloseResults
    /\ UNCHANGED <<runVars, consumerVars, pending, canceller, frontierVars, stats,
                   seen, outputVars>>

CancelRun ==
    /\ main # "returned"
    /\ Engine!Cancel
    /\ UNCHANGED <<runVars, consumerVars, pending, canceller, frontierVars, stats,
                   seen, outputVars>>

Returned == main = "returned" /\ UNCHANGED vars

RunBody ==
    \/ Seed \/ StartConsumer
    \/ FeedWait \/ FeedFinish \/ FeedPop \/ SubmitAccepted \/ SubmitRefused
    \/ StopEngine
RunNext == Resume \/ RunBody \/ Return
ConsumerNext ==
    \/ ConsumerExit \/ ConsumerReceive \/ EnqueueChild \/ Account \/ Signal \/ Emit
CancellerNext == NoticeCancel \/ BroadcastCancel

Next ==
    \/ RunNext \/ EnqueuePush \/ ConsumerNext \/ CancellerNext
    \/ EngineStep \/ CancelRun \/ Returned

Spec == Init /\ [][Next]_vars

\* Go runs every goroutine that can run; the engine answers or gives up every
\* job, which assumes that servers end their bodies: the code sets no deadline
\* on reading one.  Nobody has to cancel the run.
Fairness ==
    /\ WF_vars(RunNext \/ (main = "seed" /\ EnqueuePush))
    /\ WF_vars(ConsumerNext \/ (consumer = "children" /\ EnqueuePush))
    /\ WF_vars(CancellerNext)
    /\ WF_vars(EngineStep)

FairSpec == Spec /\ Fairness

-----------------------------------------------------------------------------
(* Properties *)

TypeOK ==
    /\ main \in {"resume", "seed", "feed", "wait", "submit", "stop", "join",
                 "returned"}
    /\ consumer \in {"unstarted", "recv", "children", "signal", "emit", "exited"}
    /\ canceller \in {"waiting", "signal", "exited"}
    /\ todo \in Seq([raw: Raw, priority: {SeedPriority, SitemapPriority}])
    /\ links \in Seq(Raw)
    /\ pending \subseteq [url: URL, depth: Nat, priority: Priorities]
    /\ submitting \subseteq Job
    /\ handling \subseteq Result
    /\ emitting \subseteq Result
    /\ queue \subseteq Item
    /\ seq \in Nat /\ inFlight \in Int /\ dispatched \in Nat
    /\ done \in BOOLEAN
    /\ stats \in [StatFields -> Nat]
    /\ seen \subseteq URL
    /\ hashes \subseteq Text /\ simhashes \subseteq Text
    /\ sunk \subseteq Result
    /\ Engine!ServiceTypeOK

Busy == Cardinality(submitting) + Cardinality(working) + Cardinality(ready)
            + Cardinality(handling)

Ended == main \in {"stop", "join", "returned"}

\* What each goroutine holds follows from where it is, and only cancellation
\* sets done while the crawl goes on.
Hands ==
    /\ IF main = "submit" THEN \E job \in submitting : submitting = {job}
                          ELSE submitting = {}
    /\ IF consumer = "children" THEN \E result \in handling : handling = {result}
                                ELSE handling = {} /\ links = <<>>
    /\ pending # {} => main = "seed" \/ consumer = "children"
    /\ main \in {"resume", "seed"} <=> consumer = "unstarted"
    /\ done => cancelled \/ Ended
    /\ canceller # "waiting" => cancelled
    /\ engine # "running" => main \in {"join", "returned"}

\* inFlight never counts fewer jobs than there are between the pop and the
\* consumer's accounting, and exactly those while the run is not cancelled:
\* the counter by which feed decides that the crawl is over.
InFlightAccounts == inFlight >= Busy /\ (~cancelled => inFlight = Busy)

\* A run nobody cancelled ends only when no job, result or child link is left
\* anywhere, and what is left in the queue is beyond the page cap.
CompleteEnd ==
    Ended /\ ~cancelled =>
        /\ submitting = {} /\ working = {} /\ ready = {} /\ handling = {}
        /\ pending = {} /\ links = <<>>
        /\ queue = {} \/ AtCap

\* A feeder parked on the condition variable is rightly parked, or a Broadcast
\* is still to come: there is no lost wakeup.
NoLostWakeup ==
    main = "wait" => MustWait \/ consumer = "signal" \/ canceller = "signal"

UrlsIn(entries) == {entry.url : entry \in entries}
JobsOf(results) == {result.job : result \in results}
Places == <<UrlsIn(queue), UrlsIn(pending), UrlsIn(submitting), UrlsIn(working),
            UrlsIn(JobsOf(ready)), UrlsIn(JobsOf(handling))>>
OneEach(entries) == \A x, y \in entries : x.url = y.url => x = y

\* A URL is in one place of the pipeline at most, once, and only after it was
\* marked seen: with retries, resumed items and rediscovery, no page is ever
\* fetched twice at the same time or requeued from two places.
OnePlace ==
    /\ \A i, j \in 1..6 : i # j => Places[i] \intersect Places[j] = {}
    /\ OneEach(queue) /\ OneEach(working) /\ OneEach(JobsOf(ready))
    /\ \A i \in 1..6 : Places[i] \subseteq seen

RetriesQueued == {item \in queue : item.retry}

\* Each page counted in dispatched settles at most once, as a success or as a
\* final failure, however often it is retried.
SettledOnce ==
    stats.Succeeded + stats.Failed + inFlight + Cardinality(RetriesQueued)
        <= dispatched

\* The page cap holds through seeds, discoveries, resumed items and retries.
PageCap == MaxPages > 0 => dispatched <= MaxPages

\* Only retries and a resumed checkpoint may put more than MaxQueue items in
\* the queue, for checkpoints within the bound.
FrontierBound ==
    MaxQueue > 0 /\ (\A items \in Saved : Len(items) <= MaxQueue) =>
        Cardinality(queue \ RetriesQueued) <= MaxQueue

\* A page's links are followed whatever the output filters then do with it:
\* when the filters run, every link in scope and depth has been seen.
LinksFollowed ==
    ~cancelled /\ ~StoreErrors =>
        \A result \in emitting : \A i \in 1..Len(result.page.links) :
            LET url == Normalize[result.page.links[i]]
            IN  url \in URL /\ (MaxDepth = 0 \/ result.job.depth < MaxDepth) =>
                    url \in seen

Twins(Alike(_, _)) ==
    {pair \in sunk \X sunk : pair[1] # pair[2] /\ NoText \notin {pair[1].page.text, pair[2].page.text}
                              /\ Alike(pair[1].page.text, pair[2].page.text)}

\* No two emitted pages have the same text, if the store does not fail.
EmittedDistinct ==
    DedupContent /\ ~StoreErrors => Twins(LAMBDA x, y : x = y) = {}

\* No two emitted pages have near texts while the set of fingerprints is below
\* its cap, whatever the store does.
EmittedNotNear ==
    DedupNear /\ Cardinality(simhashes) < MaxSimhashes =>
        Twins(LAMBDA x, y : <<x, y>> \in Near) = {}

\* A URL's result is given to the sink at most once.
SunkOnce ==
    [][Emit => \A result \in emitting : result.job.url \notin UrlsIn(JobsOf(sunk))]_vars

\* Run returns: no interleaving of results, retries, refusals and cancellation
\* leaves the feeder parked or the consumer waiting for ever.
Terminates == <>(main = "returned")

-----------------------------------------------------------------------------
(* What comments of the code say and the code does not do *)

\* "drop pages whose cleaned text matches one already emitted"
\* (coordinator.go:552): a page dropped as a duplicate has an emitted twin.
DuplicatesHaveTwin ==
    [][stats'.Duplicate > stats.Duplicate =>
          \E page \in emitting, twin \in sunk :
              twin.page.text = page.page.text]_vars
=============================================================================
