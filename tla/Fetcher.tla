------------------------------- MODULE Fetcher -------------------------------
(***************************************************************************)
(* How a job reaches the network: the gate of SubmitJob, then the fetch by *)
(* a worker, which passes the gate again on every redirect hop             *)
(* (internal/crawler/fetcher.go), the HTTP client's own attempts           *)
(* (internal/client/http.go) and the classification of ProcessJob.  The    *)
(* gates of concurrent jobs meet in Robots and in HostLimiters.            *)
(***************************************************************************)
EXTENDS Robots, HostLimiters

CONSTANTS
    Start,              \* Start[j]: the URL of job j
    Redirects,          \* Redirects[url]: where its Location may lead
    MaxRedirectHops,
    MaxClientRetries,   \* RetryConfig.MaxRetries
    Replies             \* the replies servers give, see Reply

\* What one request may meet: a page, a redirect, another status, a retryable
\* status (429, 500, 502, 503, 504), a retryable error, another error, and a
\* retryable error while the body is read.
Reply == {"page", "redirect", "status", "busy", "transient", "broken", "cut"}

ASSUME FetcherAssumption ==
    /\ Start \in [Caller -> URL]
    /\ \A url \in URL : Redirects[url] \subseteq URL
    /\ MaxRedirectHops \in Nat /\ MaxClientRetries \in Nat
    /\ Replies \subseteq Reply

VARIABLES
    at,         \* where each job is
    url,        \* the URL it is about
    hop,        \* the redirects followed; -1 in SubmitJob
    attempt,    \* the client's attempts for this URL so far
    outcome,    \* what became of the job
    cancelled,  \* whether the context is done
    unchecked,  \* history: whether robots.txt could not be had for this URL
    last        \* history: what the last request of each job met

fetchVars == <<at, url, hop, attempt, outcome, unchecked, last>>
vars == <<robotsVars, limiterVars, fetchVars, cancelled>>

Init ==
    /\ RobotsInit /\ LimitersInit
    /\ at = [j \in Caller |-> "limiter"]
    /\ url = Start
    /\ hop = [j \in Caller |-> -1]
    /\ attempt = [j \in Caller |-> 0]
    /\ outcome = [j \in Caller |-> "none"]
    /\ cancelled = FALSE
    /\ unchecked = [j \in Caller |-> FALSE]
    /\ last = [j \in Caller |-> "none"]

Goto(j, place) == at' = [at EXCEPT ![j] = place]
End(j, result) == Goto(j, "done") /\ outcome' = [outcome EXCEPT ![j] = result]

-----------------------------------------------------------------------------
(* The gate: governHop, and the same steps in SubmitJob *)

GateLimiter(j) ==
    /\ at[j] = "limiter"
    /\ GetRateLimiter(j, HostOf[url[j]])
    /\ Goto(j, IF held'[j] = {} THEN "limiter" ELSE "robots")
    /\ UNCHANGED <<robotsVars, url, hop, attempt, outcome, unchecked, last, cancelled>>

\* The gate lets the URL through when robots.txt cannot be had.
Passes(answer) == answer.verdict # "disallowed"

\* Where the answer, when it comes, leads.
Verdict(j, answers) ==
    IF answers = {} THEN UNCHANGED <<at, outcome, unchecked>>
    ELSE \E answer \in answers :
          \/ /\ ~Passes(answer)
             /\ End(j, IF hop[j] < 0 THEN "refused" ELSE "failed")
             /\ UNCHANGED unchecked
          \/ /\ Passes(answer)
             /\ Goto(j, IF answer.verdict = "error" THEN "wait" ELSE "delay")
             /\ unchecked' = [unchecked EXCEPT ![j] = answer.verdict = "error"]
             /\ UNCHANGED outcome

GateRobots(j) ==
    /\ at[j] = "robots"
    /\ IsAllowed(j, url[j])
    /\ Verdict(j, permission'[j])
    /\ UNCHANGED <<limiterVars, url, hop, attempt, last, cancelled>>

GateDelay(j) ==
    /\ at[j] = "delay"
    /\ \E answer \in permission[j] : ApplyCrawlDelay(j, HostOf[url[j]], answer.delay)
    /\ Goto(j, IF tightening'[j] = "no" THEN "wait" ELSE "delay")
    /\ UNCHANGED <<robotsVars, url, hop, attempt, outcome, unchecked, last, cancelled>>

\* What the gate leaves behind.
LeaveGate(j) ==
    /\ held' = [held EXCEPT ![j] = {}]
    /\ permission' = [permission EXCEPT ![j] = {}]
    /\ evicted' = evicted \intersect UNION {held[k] : k \in Caller \ {j}}
    /\ UNCHANGED <<cache, shard, asking, expiries, table, interval, burst, taking,
                   tightening, target, cleanups>>

\* Limiter.Wait fails when the context is done; after SubmitJob's gate the job
\* is queued, and the worker's fetch starts with a gate of its own.
GateWait(j) ==
    /\ at[j] = "wait"
    /\ LeaveGate(j)
    /\ \/ /\ Goto(j, IF hop[j] < 0 THEN "limiter" ELSE "send")
          /\ hop' = [hop EXCEPT ![j] = IF @ < 0 THEN 0 ELSE @]
          /\ UNCHANGED outcome
       \/ /\ cancelled
          /\ End(j, IF hop[j] < 0 THEN "refused" ELSE "retryable")
          /\ UNCHANGED hop
    /\ UNCHANGED <<url, attempt, unchecked, last, cancelled>>

-----------------------------------------------------------------------------
(* The request: HTTPClient.Do, the redirect loop and ProcessJob *)

IsRetryableStatus(reply) == reply = "busy"
IsRetryableError(reply) == reply \in {"transient", "cut"}

\* A retryable status or error of Do is tried again until the attempts are used
\* up, not the loss of the body.  The backoff before it ends with the context.
Again(reply) == IsRetryableStatus(reply) \/ (IsRetryableError(reply) /\ reply # "cut")

\* The last error of Do is retryable only if the network's error was: a
\* retryable status has become an error that is not.
Fate(reply) == CASE reply = "page" -> "ok"
                 [] IsRetryableError(reply) -> "retryable"
                 [] OTHER -> "failed"

Retry(j, reply) ==
    /\ Again(reply) /\ attempt[j] < MaxClientRetries
    /\ attempt' = [attempt EXCEPT ![j] = @ + 1]
    /\ IF cancelled THEN End(j, "retryable") ELSE UNCHANGED <<at, outcome>>
    /\ UNCHANGED <<url, hop>>

SameHop(j) == hop[j]
NextHop(j) == hop[j] + 1
MayFollow(j) == NextHop(j) <= MaxRedirectHops
UngatedPlace == "send"
HopPlace == "limiter"

Follow(j, reply) ==
    /\ reply = "redirect"
    /\ attempt' = [attempt EXCEPT ![j] = 0]
    /\ \E next \in Redirects[url[j]] :
          \/ /\ MayFollow(j)
             /\ Goto(j, HopPlace)
             /\ hop' = [hop EXCEPT ![j] = NextHop(j)]
             /\ url' = [url EXCEPT ![j] = next]
             /\ UNCHANGED outcome
          \/ /\ ~MayFollow(j)
             /\ End(j, "failed")
             /\ UNCHANGED <<hop, url>>

Conclude(j, reply) ==
    /\ reply # "redirect" /\ ~(Again(reply) /\ attempt[j] < MaxClientRetries)
    /\ End(j, Fate(reply))
    /\ UNCHANGED <<url, hop, attempt>>

Send(j) ==
    /\ at[j] = "send"
    /\ \E reply \in Replies \union (IF cancelled THEN {"transient"} ELSE {}) :
          /\ Retry(j, reply) \/ Follow(j, reply) \/ Conclude(j, reply)
          /\ last' = [last EXCEPT ![j] = IF at'[j] = "done" THEN reply ELSE @]
    /\ UNCHANGED <<robotsVars, limiterVars, unchecked, cancelled>>

CancelAll ==
    /\ ~cancelled
    /\ cancelled' = TRUE
    /\ UNCHANGED <<robotsVars, limiterVars, fetchVars>>

Job(j) ==
    \/ GateLimiter(j) \/ GateRobots(j) \/ GateDelay(j)
    \/ GateWait(j) \/ Send(j)

ExpireEntry == \E name \in Name : Expire(name) /\ UNCHANGED <<limiterVars, fetchVars, cancelled>>
CleanupTick == Cleanup /\ UNCHANGED <<robotsVars, fetchVars, cancelled>>
AllDone == (\A j \in Caller : at[j] = "done") /\ UNCHANGED vars

Next ==
    \/ \E j \in Caller : Job(j)
    \/ CancelAll \/ ExpireEntry \/ CleanupTick \/ AllDone

Spec == Init /\ [][Next]_vars

\* Goroutines run, locks are granted to those who keep asking, limiters let
\* their waiters through, and servers answer in the end, each request anew.
Fairness == \A j \in Caller :
    /\ WF_vars(GateLimiter(j) \/ GateDelay(j) \/ GateWait(j) \/ Send(j))
    /\ SF_vars(GateRobots(j))

FairSpec == Spec /\ Fairness

-----------------------------------------------------------------------------
(* Properties *)

FTypeOK ==
    /\ RobotsTypeOK /\ LimitersTypeOK
    /\ at \in [Caller -> {"limiter", "robots", "delay", "wait", "send", "done"}]
    /\ url \in [Caller -> URL]
    /\ hop \in [Caller -> -1..MaxRedirectHops]
    /\ attempt \in [Caller -> 0..MaxClientRetries]
    /\ outcome \in [Caller -> {"none", "refused", "ok", "failed", "retryable"}]
    /\ cancelled \in BOOLEAN
    /\ unchecked \in [Caller -> BOOLEAN]
    /\ last \in [Caller -> Reply \union {"none"}]

\* For hosts that share their name with no other port, no request, first or
\* after any redirect, is made for a URL that every copy of its robots.txt
\* disallows, unless that robots.txt could not be had.
Alone(host) == \A other \in Host : NameOf[other] = NameOf[host] => other = host
Forbidden(u) == \A rules \in Served[HostOf[u]] : u \in rules.disallow
ForbiddenNotSent ==
    \A j \in Caller :
        at[j] = "send" /\ Alone(HostOf[url[j]]) /\ Forbidden(url[j]) => unchecked[j]

\* A caller that waits for its limiter after applying a crawl delay waits on
\* one at least as slow, unless that limiter was evicted meanwhile, whoever
\* else looks up, creates, tightens or evicts; where all copies of robots.txt
\* of a name ask for the same delay.
DelayHonoured ==
    \A j \in Caller : at[j] = "wait" =>
        \A answer \in permission[j], l \in held[j] :
            l \in evicted \/ interval[l] >= answer.delay

\* Callers share the limiter of a host: a limiter somebody holds is the one in
\* the table unless it was evicted.
HeldIsShared ==
    \A j \in Caller : held[j] \subseteq LimitersOf(HostOf[url[j]]) \union evicted

\* The table never outgrows its cap, between cleanups or on a burst of hosts.
TableBound == Len(table) <= MaxHostLimiters

\* A caller that sets out to fetch the robots.txt of a name has found neither a
\* copy in the cache nor another caller fetching it.
FetchedOnce ==
    [][\A j \in Caller : asking[j] # "fetch" /\ asking'[j] = "fetch" =>
          /\ cache[KeyOf(url[j])] = {}
          /\ \A k \in Caller : asking[k] = "fetch" => KeyOf(url[k]) # KeyOf(url[j])]_vars

\* Every job ends, however servers redirect in circles, fail, or share locks.
FetchEnds == \A j \in Caller : <>(at[j] = "done")

-----------------------------------------------------------------------------
(* What comments of the code say and the code does not do *)

\* "it gives a failed URL another full attempt later in the crawl"
\* (coordinator.go:63): a fetch whose last attempt met a retryable status ends
\* as a retryable failure.
BusyIsRetryable ==
    \A j \in Caller : last[j] = "busy" /\ at[j] = "done" => outcome[j] = "retryable"
=============================================================================
