---------------------------- MODULE HostLimiters ----------------------------
(***************************************************************************)
(* The per-host rate limiters of internal/crawler/worker.go: lookup or     *)
(* creation by double check, eviction of the least recently used at the    *)
(* cap, the cleanup of idle ones, and the crawl delay that tightens one.   *)
(* A rate is kept as the interval between two requests.                    *)
(***************************************************************************)
EXTENDS Hosts, Integers, Sequences, SequencesExt

CONSTANTS
    Limiter,            \* limiters: for the table, and two for every caller but one
    MaxHostLimiters,    \* cap of the table
    KeepLimiters,       \* how many an eviction keeps
    HostInterval, HostBurst,    \* the configured rate and burst
    MaxCleanups         \* bound: ticks of the cleanup goroutine

ASSUME LimitersAssumption ==
    /\ MaxHostLimiters \in Nat \ {0} /\ KeepLimiters \in 0..(MaxHostLimiters - 1)
    /\ HostInterval \in Nat /\ HostBurst \in Nat \ {0} /\ MaxCleanups \in Nat

\* A new limiter is always to be had, whatever the table and the callers hold.
ASSUME EnoughAssumption ==
    /\ IsFiniteSet(Caller)
    /\ IsFiniteSet(Limiter) =>
          Cardinality(Limiter) > MaxHostLimiters + 2 * (Cardinality(Caller) - 1)

VARIABLES
    table,      \* HostLimiters, in the order of last use
    interval, burst,    \* of each limiter
    held,       \* the limiter GetRateLimiter gave each caller, as a set
    taking,     \* where each caller is in GetRateLimiter
    tightening, \* where each caller is in applyCrawlDelay
    target,     \* the limiter it tightens, as a set
    evicted,    \* history: limiters evicted or cleaned up while somebody
                \* held them
    cleanups    \* counter for the bound

limiterVars == <<table, interval, burst, held, taking, tightening, target, evicted,
                 cleanups>>

LimitersInit ==
    /\ table = <<>>
    /\ interval = [l \in Limiter |-> HostInterval]
    /\ burst = [l \in Limiter |-> HostBurst]
    /\ held = [c \in Caller |-> {}] /\ target = [c \in Caller |-> {}]
    /\ taking = [c \in Caller |-> "no"] /\ tightening = [c \in Caller |-> "no"]
    /\ evicted = {} /\ cleanups = 0

-----------------------------------------------------------------------------
LimitersIn(entries) == {entries[i].limiter : i \in DOMAIN entries}
Entries(host) == {entry \in ToSet(table) : entry.host = host}
LimitersOf(host) == {entry.limiter : entry \in Entries(host)}

\* The entries without that of the host; it has one at most.
Without(entries, host) ==
    LET places == {i \in DOMAIN entries : entries[i].host = host}
    IN  IF places = {} THEN entries ELSE RemoveAt(entries, CHOOSE i \in places : TRUE)

\* touch: the host becomes the most recently used.
Take(c, host) ==
    /\ \E entry \in Entries(host) :
          /\ held' = [held EXCEPT ![c] = {entry.limiter}]
          /\ table' = Append(Without(table, host), entry)
    /\ UNCHANGED <<interval, burst, tightening, target, evicted, cleanups>>

\* The lookup under the read lock.
LookupLimiter(c, host) ==
    /\ taking[c] = "no"
    /\ \/ Entries(host) # {} /\ Take(c, host) /\ UNCHANGED taking
       \/ /\ Entries(host) = {}
          /\ taking' = [taking EXCEPT ![c] = "create"]
          /\ UNCHANGED <<table, interval, burst, held, tightening, target, evicted,
                         cleanups>>

NeverCreated(host) == FALSE
AlreadyCreated(host) == Entries(host) # {}
CrowdedLate == Len(table) > MaxHostLimiters
Crowded == Len(table) >= MaxHostLimiters

\* evictLimitersLocked keeps the most recently used.
Kept == IF Crowded THEN SubSeq(table, Len(table) - KeepLimiters + 1, Len(table))
        ELSE table
FreeLimiter == CHOOSE l \in Limiter :
    l \notin LimitersIn(table) \union UNION {held[c] \union target[c] : c \in Caller}

Gone(limiters) == evicted \union (limiters \intersect UNION {held[c] : c \in Caller})

\* The second look and the insertion under the write lock.
CreateLimiter(c, host) ==
    /\ taking[c] = "create"
    /\ taking' = [taking EXCEPT ![c] = "no"]
    /\ \/ AlreadyCreated(host) /\ Take(c, host)
       \/ /\ ~AlreadyCreated(host)
          /\ LET l == FreeLimiter
             IN  /\ table' = Append(Without(Kept, host), [host |-> host, limiter |-> l])
                 /\ interval' = [interval EXCEPT ![l] = HostInterval]
                 /\ burst' = [burst EXCEPT ![l] = HostBurst]
                 /\ held' = [held EXCEPT ![c] = {l}]
                 /\ evicted' = Gone(LimitersIn(table) \ LimitersIn(Kept))
          /\ UNCHANGED <<tightening, target, cleanups>>

GetRateLimiter(c, host) == LookupLimiter(c, host) \/ CreateLimiter(c, host)

-----------------------------------------------------------------------------
(* applyCrawlDelay *)

FindTarget(c, host, delay) ==
    /\ tightening[c] = "no"
    /\ delay > 0 /\ Entries(host) # {}
    /\ target' = [target EXCEPT ![c] = LimitersOf(host)]
    /\ tightening' = [tightening EXCEPT ![c] = "compare"]
    /\ UNCHANGED <<table, interval, burst, held, taking, evicted, cleanups>>

NoTarget(c, host, delay) ==
    /\ tightening[c] = "no"
    /\ delay <= 0 \/ Entries(host) = {}
    /\ UNCHANGED limiterVars

SlowerThan(l, delay) == interval[l] > delay
FasterThan(l, delay) == interval[l] < delay

CompareLimit(c, delay) ==
    /\ tightening[c] = "compare"
    /\ \E l \in target[c] :
          \/ /\ FasterThan(l, delay)
             /\ tightening' = [tightening EXCEPT ![c] = "limit"]
             /\ UNCHANGED target
          \/ /\ ~FasterThan(l, delay)
             /\ tightening' = [tightening EXCEPT ![c] = "no"]
             /\ target' = [target EXCEPT ![c] = {}]
    /\ UNCHANGED <<table, interval, burst, held, taking, evicted, cleanups>>

SetLimit(c, delay) ==
    /\ tightening[c] = "limit"
    /\ tightening' = [tightening EXCEPT ![c] = "burst"]
    /\ interval' = [l \in Limiter |-> IF l \in target[c] THEN delay ELSE interval[l]]
    /\ UNCHANGED <<table, burst, held, taking, target, evicted, cleanups>>

SetBurst(c) ==
    /\ tightening[c] = "burst"
    /\ tightening' = [tightening EXCEPT ![c] = "no"]
    /\ burst' = [l \in Limiter |-> IF l \in target[c] THEN 1 ELSE burst[l]]
    /\ target' = [target EXCEPT ![c] = {}]
    /\ UNCHANGED <<table, interval, held, taking, evicted, cleanups>>

ApplyCrawlDelay(c, host, delay) ==
    \/ FindTarget(c, host, delay) \/ NoTarget(c, host, delay)
    \/ CompareLimit(c, delay) \/ SetLimit(c, delay) \/ SetBurst(c)

\* A tick of cleanupRateLimiters: the hosts not used within the TTL go, which
\* are the first of the table, however many.
Cleanup ==
    /\ cleanups < MaxCleanups
    /\ cleanups' = cleanups + 1
    /\ \E idle \in 1..Len(table) :
          /\ table' = SubSeq(table, idle + 1, Len(table))
          /\ evicted' = Gone(LimitersIn(SubSeq(table, 1, idle)))
    /\ UNCHANGED <<interval, burst, held, taking, tightening, target>>

LimitersTypeOK ==
    /\ table \in Seq([host: Host, limiter: Limiter])
    /\ interval \in [Limiter -> Nat] /\ burst \in [Limiter -> Nat]
    /\ held \in [Caller -> SUBSET Limiter] /\ target \in [Caller -> SUBSET Limiter]
    /\ taking \in [Caller -> {"no", "create"}]
    /\ tightening \in [Caller -> {"no", "compare", "limit", "burst"}]
    /\ evicted \subseteq Limiter
    /\ cleanups \in 0..MaxCleanups
=============================================================================
