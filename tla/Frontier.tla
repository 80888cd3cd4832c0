------------------------------- MODULE Frontier -------------------------------
(***************************************************************************)
(* The URL processor (internal/frontier/url.go): Process, and the workers  *)
(* of ProcessBatch that call it.  Process holds the processor's mutex from *)
(* its first line to its return, so a call is one action; who calls it, in *)
(* which order, and whether the store answers is open.                     *)
(***************************************************************************)
EXTENDS Normalizer

CONSTANTS
    Worker,         \* the goroutines of ProcessBatch
    Batches,        \* the sequences of raw URLs it may be given
    Malformed,      \* a raw URL that url.Parse rejects
    OldUrls,        \* the possible contents of the store when it starts
    StoreErrors     \* whether a call of the store may fail

ASSUME FrontierAssumption ==
    Worker # {} /\ Batches \subseteq Seq(Url \union {Malformed})

None == "none"

VARIABLES
    urls,       \* the batch
    sent,       \* how many of its indices ProcessBatch has sent to its workers
    taken,      \* how many they have received: the channel is a queue
    holds,      \* the index a worker has received, 0 for none
    worker,     \* where each worker is
    results, errs,  \* by index: the accepted URL as a set, the error
    seen,       \* the store's seen set
    counts,     \* the processor's counters
    caller,     \* where ProcessBatch is
    cancelled

batchVars == <<sent, taken, caller>>
workerVars == <<holds, worker>>
vars == <<urls, sent, taken, holds, worker, results, errs, seen, counts, caller,
          cancelled>>

Outcome == {"ValidCount", "DuplicateCount", "InvalidCount"}

Init ==
    /\ urls \in Batches
    /\ sent = 0 /\ taken = 0
    /\ worker = [w \in Worker |-> "recv"] /\ holds = [w \in Worker |-> 0]
    /\ results = [i \in DOMAIN urls |-> {}]
    /\ errs = [i \in DOMAIN urls |-> None]
    /\ seen \in OldUrls
    /\ counts = [o \in Outcome \union {"ProcessedCount"} |-> 0]
    /\ caller = "sending"
    /\ cancelled = FALSE

-----------------------------------------------------------------------------
(* Process *)

Answer(i, result, err, counted) ==
    /\ results' = [results EXCEPT ![i] = result]
    /\ errs' = [errs EXCEPT ![i] = err]
    /\ counts' = [o \in DOMAIN counts |->
          counts[o] + IF o \in counted \union {"ProcessedCount"} THEN 1 ELSE 0]

NeverSeen(url) == FALSE
AlreadySeen(url) == url \in seen

\* The store is asked before the validator, and told last.  A failed MarkSeen
\* may have reached the store.
ProcessUrl(i, url) ==
    \/ /\ AlreadySeen(url)
       /\ Answer(i, {}, "duplicate", {"DuplicateCount"})
       /\ UNCHANGED seen
    \/ /\ ~AlreadySeen(url) /\ ~IsValid(url)
       /\ Answer(i, {}, "invalid", {"InvalidCount"})
       /\ UNCHANGED seen
    \/ /\ ~AlreadySeen(url) /\ IsValid(url)
       /\ Answer(i, {url}, None, {"ValidCount"})
       /\ seen' = seen \union {url}
    \/ /\ StoreErrors
       /\ Answer(i, {}, "store", {})
       /\ \/ UNCHANGED seen
          \/ ~AlreadySeen(url) /\ IsValid(url) /\ seen' = seen \union {url}

Process(i) ==
    IF urls[i] = Malformed
    THEN Answer(i, {}, "invalid", {"InvalidCount"}) /\ UNCHANGED seen
    ELSE ProcessUrl(i, Normalize(urls[i]))

-----------------------------------------------------------------------------
(* ProcessBatch *)

\* The channel has room for the whole batch.
Send ==
    /\ caller = "sending" /\ sent < Len(urls)
    /\ sent' = sent + 1
    /\ UNCHANGED <<urls, taken, workerVars, results, errs, seen, counts, caller,
                   cancelled>>

CloseJobs ==
    /\ caller = "sending" /\ sent = Len(urls)
    /\ caller' = "waiting"
    /\ UNCHANGED <<urls, sent, taken, workerVars, results, errs, seen, counts,
                   cancelled>>

Return ==
    /\ caller = "waiting" /\ \A w \in Worker : worker[w] = "exited"
    /\ caller' = "returned"
    /\ UNCHANGED <<urls, sent, taken, workerVars, results, errs, seen, counts,
                   cancelled>>

\* The next index, which the workers do not share.
Receive(w) ==
    /\ worker[w] = "recv" /\ taken < sent
    /\ taken' = taken + 1
    /\ holds' = [holds EXCEPT ![w] = taken + 1]
    /\ worker' = [worker EXCEPT ![w] = "check"]
    /\ UNCHANGED <<urls, sent, results, errs, seen, counts, caller, cancelled>>

CheckContext(w) ==
    /\ worker[w] = "check"
    /\ \/ /\ cancelled
          /\ errs' = [errs EXCEPT ![holds[w]] = "cancelled"]
          /\ worker' = [worker EXCEPT ![w] = "recv"]
          /\ holds' = [holds EXCEPT ![w] = 0]
       \/ /\ ~cancelled
          /\ worker' = [worker EXCEPT ![w] = "process"]
          /\ UNCHANGED <<errs, holds>>
    /\ UNCHANGED <<urls, batchVars, results, seen, counts, cancelled>>

ProcessJob(w) ==
    /\ worker[w] = "process"
    /\ Process(holds[w])
    /\ worker' = [worker EXCEPT ![w] = "recv"]
    /\ holds' = [holds EXCEPT ![w] = 0]
    /\ UNCHANGED <<urls, batchVars, cancelled>>

WorkerExit(w) ==
    /\ worker[w] = "recv" /\ caller = "waiting" /\ taken = sent
    /\ worker' = [worker EXCEPT ![w] = "exited"]
    /\ UNCHANGED <<urls, batchVars, holds, results, errs, seen, counts, cancelled>>

Cancel ==
    /\ ~cancelled
    /\ cancelled' = TRUE
    /\ UNCHANGED <<urls, batchVars, workerVars, results, errs, seen, counts>>

Returned == caller = "returned" /\ UNCHANGED vars

WorkerNext(w) == Receive(w) \/ CheckContext(w) \/ ProcessJob(w) \/ WorkerExit(w)
Next ==
    \/ Send \/ CloseJobs \/ Return \/ Cancel \/ Returned
    \/ \E w \in Worker : WorkerNext(w)

Spec == Init /\ [][Next]_vars

-----------------------------------------------------------------------------
(* Properties *)

Indices == DOMAIN urls
Parsed == {i \in Indices : urls[i] # Malformed}
Accepted == UNION {results[i] : i \in Indices}
Acceptable == {url \in {Normalize(urls[i]) : i \in Parsed} : IsValid(url)}

\* Of the plainly spelled URLs of a batch that denote one resource at most one
\* is accepted, and none is refused as a duplicate for another resource's sake.
OneOfEachResource ==
    \A i \in Parsed : Plain(urls[i]) =>
        /\ results[i] # {} => \A j \in Parsed \ {i} :
              Plain(urls[j]) /\ results[j] # {} => Resource(urls[i]) # Resource(urls[j])
        /\ errs[i] = "duplicate" =>
              \/ \E j \in Parsed \ {i} :
                    ~Plain(urls[j]) \/ Resource(urls[i]) = Resource(urls[j])
              \/ \E old \in OldUrls : Normalize(urls[i]) \in old

\* An accepted URL is what normalization makes of itself: when a checkpoint
\* marks it seen, or a page links back to it, it is recognised.
AcceptedIsStable ==
    \A url \in Accepted : Normalize(url) = url /\ Canonicalize(url) = url

\* ProcessBatch returns for each URL an accepted one or an error, not both;
\* and, whatever the workers' order, a batch that met no store error and no
\* cancellation has accepted each acceptable URL that was not in the store,
\* once, and the counters agree.
BatchAnswered ==
    caller = "returned" =>
        /\ \A i \in Indices : (results[i] = {}) # (errs[i] = None)
        /\ (\A i \in Indices : errs[i] \notin {"cancelled", "store"}) =>
              /\ \E old \in OldUrls :
                    Accepted = Acceptable \ old /\ seen = Acceptable \union old
              /\ Cardinality({i \in Indices : results[i] # {}}) = Cardinality(Accepted)
              /\ counts.ValidCount = Cardinality(Accepted)
              /\ counts.ProcessedCount = Len(urls)
              /\ counts.ValidCount + counts.DuplicateCount + counts.InvalidCount
                    = Len(urls)
=============================================================================
