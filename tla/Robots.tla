------------------------------- MODULE Robots -------------------------------
(***************************************************************************)
(* The robots.txt cache of internal/robots/parser.go: IsAllowed looks the  *)
(* host up, and on a miss fetches under one of a fixed set of locks, after *)
(* a second look.  The cache and the locks are keyed by the host without   *)
(* its port.  Matching a path against rules is the library's.              *)
(***************************************************************************)
EXTENDS Hosts, Naturals, FiniteSets

CONSTANTS
    Name, Shard,    \* hosts without port; the lock shards
    NameOf, ShardOf,
    Served,         \* Served[host]: the contents its robots.txt may have, a
                    \* permissive one among them for status 404, 403 or 401
    RobotsErrors,   \* whether fetching one may fail (network, status, size)
    MaxExpiries     \* bound: cache entries that expire

Rules == [disallow: SUBSET URL, delay: Nat]
Permission == [verdict: {"allowed", "disallowed", "error"}, delay: Nat]
Unavailable == [verdict |-> "error", delay |-> 0]

ASSUME RobotsAssumption ==
    /\ NameOf \in [Host -> Name] /\ ShardOf \in [Name -> Shard]
    /\ \A host \in Host : Served[host] \subseteq Rules /\ Served[host] # {}
    /\ RobotsErrors \in BOOLEAN /\ MaxExpiries \in Nat

VARIABLES
    cache,      \* the unexpired entry of each name, as a set
    shard,      \* who holds each lock, as a set
    asking,     \* where each caller is in GetRobots
    permission, \* what IsAllowed answered it last, as a set
    expiries    \* counter for the bound

robotsVars == <<cache, shard, asking, permission, expiries>>

RobotsInit ==
    /\ cache = [name \in Name |-> {}]
    /\ shard = [s \in Shard |-> {}]
    /\ asking = [c \in Caller |-> "no"]
    /\ permission = [c \in Caller |-> {}]
    /\ expiries = 0

\* What is fetched for a URL: the file of its host, with its port, over http.
RobotsOf(url) == Served[HostOf[url]]

KeyOf(url) == NameOf[HostOf[url]]
LockOf(url) == ShardOf[KeyOf(url)]

\* TestAgent and the crawl delay of the group.
Judge(rules, url) ==
    [verdict |-> IF url \in rules.disallow THEN "disallowed" ELSE "allowed",
     delay |-> rules.delay]

Answer(c, answers) == permission' = [permission EXCEPT ![c] = answers]
CachedAnswers(url) == {Judge(rules, url) : rules \in cache[KeyOf(url)]}

Ask(c, url) ==
    /\ asking[c] = "no"
    /\ \/ /\ cache[KeyOf(url)] # {}
          /\ Answer(c, CachedAnswers(url))
          /\ UNCHANGED asking
       \/ /\ cache[KeyOf(url)] = {}
          /\ asking' = [asking EXCEPT ![c] = "lock"]
          /\ UNCHANGED permission
    /\ UNCHANGED <<cache, shard, expiries>>

ShardFree(url) == shard[LockOf(url)] = {}
NotAgain(url) == FALSE
FoundAgain(url) == cache[KeyOf(url)] # {}

\* The lock, and the second look at the cache under it.
LockShard(c, url) ==
    /\ asking[c] = "lock"
    /\ ShardFree(url)
    /\ \/ /\ FoundAgain(url)
          /\ Answer(c, CachedAnswers(url))
          /\ asking' = [asking EXCEPT ![c] = "no"]
          /\ UNCHANGED shard
       \/ /\ ~FoundAgain(url)
          /\ asking' = [asking EXCEPT ![c] = "fetch"]
          /\ shard' = [shard EXCEPT ![LockOf(url)] = @ \union {c}]
          /\ UNCHANGED permission
    /\ UNCHANGED <<cache, expiries>>

\* The fetch ends and the lock is released; a failure is not cached.
FetchRobots(c, url) ==
    /\ asking[c] = "fetch"
    /\ asking' = [asking EXCEPT ![c] = "no"]
    /\ shard' = [shard EXCEPT ![LockOf(url)] = @ \ {c}]
    /\ \/ \E rules \in RobotsOf(url) :
             /\ cache' = [cache EXCEPT ![KeyOf(url)] = {rules}]
             /\ Answer(c, {Judge(rules, url)})
       \/ /\ RobotsErrors
          /\ Answer(c, {Unavailable})
          /\ UNCHANGED cache
    /\ UNCHANGED expiries

IsAllowed(c, url) == Ask(c, url) \/ LockShard(c, url) \/ FetchRobots(c, url)

\* An entry outlives its TTL, or ClearExpired or ClearCache removes it.
Expire(name) ==
    /\ cache[name] # {} /\ expiries < MaxExpiries
    /\ cache' = [cache EXCEPT ![name] = {}]
    /\ expiries' = expiries + 1
    /\ UNCHANGED <<shard, asking, permission>>

RobotsTypeOK ==
    /\ cache \in [Name -> SUBSET Rules]
    /\ \A name \in Name : Cardinality(cache[name]) <= 1
    /\ shard \in [Shard -> SUBSET Caller]
    /\ asking \in [Caller -> {"no", "lock", "fetch"}]
    /\ permission \in [Caller -> SUBSET Permission]
    /\ expiries \in 0..MaxExpiries
=============================================================================
