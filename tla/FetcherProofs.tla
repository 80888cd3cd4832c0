---------------------------- MODULE FetcherProofs ----------------------------
(***************************************************************************)
(* Theorems about Fetcher, and with it about Robots and HostLimiters: for  *)
(* any jobs, hosts, redirects, contents of robots.txt and limits; and,     *)
(* after them, about Headless, which extends Fetcher: for any page,        *)
(* whatever its requests are and in whatever order the browser and the     *)
(* handlers act on them.                                                   *)
(***************************************************************************)
EXTENDS Headless, FiniteSetTheorems, SequenceTheorems, TLAPS

-----------------------------------------------------------------------------
(* The robots.txt cache *)

\* What the cache has for a name was served by a host of that name.
CacheServed ==
    \A name \in Name : \A rules \in cache[name] :
        \E host \in Host : NameOf[host] = name /\ rules \in Served[host]

\* An answer about a URL is a judgement of its rules, or that there are none.
Judged(u, answer) ==
    \/ answer = Unavailable
    \/ \E host \in Host : \E rules \in Served[host] :
          NameOf[host] = KeyOf(u) /\ answer = Judge(rules, u)

\* Answers that come together are all rules, or all that there are none.
Uniform(answers) ==
    (\A answer \in answers : answer = Unavailable) \/ Unavailable \notin answers

LEMMA KeyType == ASSUME NEW u \in URL PROVE HostOf[u] \in Host /\ KeyOf(u) \in Name
                                            /\ LockOf(u) \in Shard
  BY HostsAssumption, RobotsAssumption DEF KeyOf, LockOf

LEMMA JudgeType ==
  ASSUME NEW u \in URL, NEW answer, Judged(u, answer)
  PROVE  answer \in Permission
  <1>1. CASE answer = Unavailable
    BY <1>1 DEF Unavailable, Permission
  <1>2. ASSUME NEW host \in Host, NEW rules \in Served[host], answer = Judge(rules, u)
        PROVE  answer \in Permission
    <2>1. rules \in Rules
      BY RobotsAssumption
    <2> QED
      BY <1>2, <2>1 DEF Judge, Permission, Rules
  <1> QED
    BY <1>1, <1>2 DEF Judged

\* A step of IsAllowed leaves the cache as the hosts served it, and answers its
\* caller, if it answers, with a judgement of the URL.
LEMMA IsAllowedStep ==
  ASSUME RobotsTypeOK, CacheServed, NEW c \in Caller, NEW u \in URL, IsAllowed(c, u)
  PROVE  /\ RobotsTypeOK' /\ CacheServed'
         /\ \/ UNCHANGED permission
            \/ \E answers \in SUBSET Permission :
                  /\ permission' = [permission EXCEPT ![c] = answers]
                  /\ Uniform(answers) /\ \A answer \in answers : Judged(u, answer)
         /\ \/ asking' = [asking EXCEPT ![c] = "no"]
            \/ asking' = [asking EXCEPT ![c] = "lock"] /\ UNCHANGED permission
            \/ asking' = [asking EXCEPT ![c] = "fetch"] /\ UNCHANGED permission
  <1> USE KeyType DEF RobotsTypeOK
  <1>1. Uniform(CachedAnswers(u)) /\ \A answer \in CachedAnswers(u) : Judged(u, answer)
    <2>1. \A answer \in CachedAnswers(u) : answer.verdict # "error"
      BY DEF CachedAnswers, Judge
    <2> QED
      BY <2>1 DEF CacheServed, CachedAnswers, Judged, Uniform, Unavailable
  <1>2. CachedAnswers(u) \in SUBSET Permission
    BY <1>1, JudgeType
  <1>3. CASE Ask(c, u)
    BY <1>1, <1>2, <1>3 DEF Ask, Answer, CacheServed
  <1>4. CASE LockShard(c, u)
    BY <1>1, <1>2, <1>4 DEF LockShard, Answer, CacheServed
  <1>5. CASE FetchRobots(c, u)
    <2>1. /\ shard' \in [Shard -> SUBSET Caller] /\ asking' \in [Caller -> {"no", "lock", "fetch"}]
          /\ asking' = [asking EXCEPT ![c] = "no"] /\ UNCHANGED expiries
      BY <1>5 DEF FetchRobots
    <2>2. CASE UNCHANGED cache /\ Answer(c, {Unavailable})
      <3>1. Judged(u, Unavailable)
        BY DEF Judged
      <3>2. {Unavailable} \in SUBSET Permission
        BY <3>1, JudgeType
      <3>3. Uniform({Unavailable}) /\ \A answer \in {Unavailable} : Judged(u, answer)
        BY <3>1 DEF Uniform
      <3>4. permission' = [permission EXCEPT ![c] = {Unavailable}]
        BY <2>2 DEF Answer
      <3>5. permission' \in [Caller -> SUBSET Permission]
        BY <3>2, <3>4
      <3>6. CacheServed' /\ RobotsTypeOK'
        BY <2>1, <2>2, <3>5 DEF CacheServed
      <3> QED
        BY <2>1, <3>2, <3>3, <3>4, <3>6
    <2>3. ASSUME NEW rules \in RobotsOf(u),
                 cache' = [cache EXCEPT ![KeyOf(u)] = {rules}],
                 Answer(c, {Judge(rules, u)})
          PROVE  /\ RobotsTypeOK' /\ CacheServed'
                 /\ \E answers \in SUBSET Permission :
                       /\ permission' = [permission EXCEPT ![c] = answers]
                       /\ Uniform(answers) /\ \A answer \in answers : Judged(u, answer)
      <3>1. rules \in Served[HostOf[u]] /\ rules \in Rules
        BY RobotsAssumption DEF RobotsOf
      <3>2. Judged(u, Judge(rules, u))
        BY <3>1 DEF Judged, KeyOf
      <3>3. {Judge(rules, u)} \in SUBSET Permission
        BY <3>2, JudgeType
      <3>4. CacheServed'
        BY <2>3, <3>1 DEF CacheServed, KeyOf
      <3>5. Cardinality({rules}) = 1
        BY FS_Singleton
      <3>6. \A name \in Name : Cardinality(cache'[name]) <= 1
        BY <2>3, <3>5
      <3>7. cache' \in [Name -> SUBSET Rules]
        BY <2>3, <3>1
      <3>8. Uniform({Judge(rules, u)})
        BY DEF Uniform, Judge, Unavailable
      <3> QED
        BY <2>1, <2>3, <3>2, <3>3, <3>4, <3>6, <3>7, <3>8 DEF Answer
    <2> QED
      BY <1>5, <2>1, <2>2, <2>3 DEF FetchRobots
  <1> QED
    BY <1>3, <1>4, <1>5 DEF IsAllowed

\* So does an entry that expires.
LEMMA ExpireStep ==
  ASSUME RobotsTypeOK, CacheServed, NEW name \in Name, Expire(name)
  PROVE  RobotsTypeOK' /\ CacheServed' /\ UNCHANGED <<shard, asking, permission>>
  <1>1. Cardinality({}) = 0
    BY FS_EmptySet
  <1> QED
    BY <1>1, RobotsAssumption DEF Expire, RobotsTypeOK, CacheServed

-----------------------------------------------------------------------------
(* Types of the jobs *)

\* FTypeOK without the limiters.
JobTypes ==
    /\ RobotsTypeOK
    /\ at \in [Caller -> {"limiter", "robots", "delay", "wait", "send", "done"}]
    /\ url \in [Caller -> URL]
    /\ hop \in [Caller -> -1..MaxRedirectHops]
    /\ attempt \in [Caller -> 0..MaxClientRetries]
    /\ outcome \in [Caller -> {"none", "refused", "ok", "failed", "retryable"}]
    /\ cancelled \in BOOLEAN
    /\ unchecked \in [Caller -> BOOLEAN]
    /\ last \in [Caller -> Reply \union {"none"}]

LEMMA JobInit == Init => JobTypes /\ CacheServed
  <1> SUFFICES ASSUME Init PROVE JobTypes /\ CacheServed
    OBVIOUS
  <1>1. RobotsTypeOK /\ CacheServed
    <2>1. \A name \in Name : cache[name] = {} /\ Cardinality(cache[name]) = 0
      BY FS_EmptySet DEF Init, RobotsInit
    <2> QED
      BY <2>1, RobotsAssumption DEF Init, RobotsInit, RobotsTypeOK, CacheServed
  <1>2. -1 \in -1..MaxRedirectHops /\ 0 \in 0..MaxClientRetries
    BY FetcherAssumption
  <1> QED
    BY <1>1, <1>2, FetcherAssumption DEF Init, JobTypes

\* Where a verdict leads.
LEMMA VerdictStep ==
  ASSUME JobTypes, NEW j \in Caller, NEW answers, Verdict(j, answers)
  PROVE  /\ at' \in [Caller -> {"limiter", "robots", "delay", "wait", "send", "done"}]
         /\ outcome' \in [Caller -> {"none", "refused", "ok", "failed", "retryable"}]
         /\ unchecked' \in [Caller -> BOOLEAN]
  BY DEF JobTypes, Verdict, End, Goto, Passes

LEMMA SendStep ==
  ASSUME JobTypes, NEW j \in Caller, Send(j)
  PROVE  JobTypes'
  <1> USE FetcherAssumption DEF JobTypes, Goto, End
  <1>1. UNCHANGED <<robotsVars, unchecked, cancelled>>
    BY DEF Send
  <1>2. PICK reply \in Replies \union (IF cancelled THEN {"transient"} ELSE {}) :
           /\ Retry(j, reply) \/ Follow(j, reply) \/ Conclude(j, reply)
           /\ last' = [last EXCEPT ![j] = IF at'[j] = "done" THEN reply ELSE @]
    BY DEF Send
  <1>3. reply \in Reply
    BY <1>2 DEF Reply
  <1>4. last' \in [Caller -> Reply \union {"none"}]
    BY <1>2, <1>3
  <1>5. RobotsTypeOK'
    BY <1>1 DEF robotsVars, RobotsTypeOK
  <1>6. CASE Retry(j, reply)
    BY <1>1, <1>4, <1>5, <1>6 DEF Retry
  <1>7. CASE Follow(j, reply)
    BY <1>1, <1>4, <1>5, <1>7 DEF Follow, MayFollow, NextHop, HopPlace
  <1>8. CASE Conclude(j, reply)
    <2>1. Fate(reply) \in {"ok", "retryable", "failed"}
      BY DEF Fate
    <2> QED
      BY <1>1, <1>4, <1>5, <1>8, <2>1 DEF Conclude
  <1> QED
    BY <1>2, <1>6, <1>7, <1>8

LEMMA JobStep == JobTypes /\ CacheServed /\ [Next]_vars => (JobTypes /\ CacheServed)'
  <1> SUFFICES ASSUME JobTypes, CacheServed, [Next]_vars PROVE (JobTypes /\ CacheServed)'
    OBVIOUS
  <1>1. ASSUME UNCHANGED <<cache, shard, asking, permission, expiries>>
        PROVE  RobotsTypeOK' /\ CacheServed'
    BY <1>1 DEF JobTypes, RobotsTypeOK, CacheServed
  <1>2. ASSUME NEW j \in Caller, GateLimiter(j) PROVE (JobTypes /\ CacheServed)'
    BY <1>1, <1>2 DEF GateLimiter, Goto, JobTypes, robotsVars
  <1>3. ASSUME NEW j \in Caller, GateRobots(j) PROVE (JobTypes /\ CacheServed)'
    <2>1. RobotsTypeOK' /\ CacheServed'
      BY <1>3, IsAllowedStep DEF GateRobots, JobTypes
    <2> QED
      BY <1>3, <2>1, VerdictStep DEF GateRobots, JobTypes
  <1>4. ASSUME NEW j \in Caller, GateDelay(j) PROVE (JobTypes /\ CacheServed)'
    BY <1>1, <1>4 DEF GateDelay, Goto, JobTypes, robotsVars
  <1>5. ASSUME NEW j \in Caller, GateWait(j) PROVE (JobTypes /\ CacheServed)'
    <2>1. permission' = [permission EXCEPT ![j] = {}]
          /\ UNCHANGED <<cache, shard, asking, expiries>>
      BY <1>5 DEF GateWait, LeaveGate
    <2>2. RobotsTypeOK' /\ CacheServed'
      BY <2>1 DEF JobTypes, RobotsTypeOK, CacheServed
    <2> QED
      BY <1>5, <2>2, FetcherAssumption DEF GateWait, Goto, End, JobTypes
  <1>6. ASSUME NEW j \in Caller, Send(j) PROVE (JobTypes /\ CacheServed)'
    BY <1>1, <1>6, SendStep DEF Send, robotsVars
  <1>7. CASE CancelAll
    BY <1>1, <1>7 DEF CancelAll, JobTypes, robotsVars, fetchVars
  <1>8. CASE ExpireEntry
    BY <1>8, ExpireStep DEF ExpireEntry, JobTypes, fetchVars
  <1>9. CASE CleanupTick \/ UNCHANGED vars
    BY <1>1, <1>9 DEF CleanupTick, JobTypes, robotsVars, fetchVars, vars
  <1> QED
    BY <1>2, <1>3, <1>4, <1>5, <1>6, <1>7, <1>8, <1>9 DEF Next, Job, AllDone

LEMMA JobInvariant == Spec => [](JobTypes /\ CacheServed)
  BY JobInit, JobStep, PTL DEF Spec

-----------------------------------------------------------------------------
(* The gate and robots.txt *)

\* A caller has an answer exactly between IsAllowed and the end of its wait, and
\* one is asked for only at that place.
Stations ==
    \A j \in Caller :
        /\ at[j] \in {"limiter", "robots", "send"} => permission[j] = {}
        /\ at[j] # "robots" => asking[j] = "no"

\* A URL that passed the gate is not forbidden, or could not be checked.
Cleared ==
    \A j \in Caller :
        at[j] \in {"delay", "wait", "send"} /\ Alone(HostOf[url[j]]) /\ Forbidden(url[j])
            => unchecked[j]

\* No judgement of a forbidden URL of a lone host lets it pass.
LEMMA ForbiddenRefused ==
  ASSUME NEW u \in URL, Alone(HostOf[u]), Forbidden(u), NEW answer,
         Judged(u, answer), Passes(answer)
  PROVE  answer.verdict = "error"
  <1>1. CASE answer = Unavailable
    BY <1>1 DEF Unavailable
  <1>2. ASSUME NEW host \in Host, NEW rules \in Served[host],
               NameOf[host] = KeyOf(u), answer = Judge(rules, u)
        PROVE  FALSE
    <2>1. host = HostOf[u]
      BY <1>2 DEF Alone, KeyOf
    <2>2. u \in rules.disallow
      BY <2>1 DEF Forbidden
    <2> QED
      BY <1>2, <2>2 DEF Judge, Passes
  <1> QED
    BY <1>1, <1>2 DEF Judged

\* The way through robots.txt, from the lookup to the verdict.
LEMMA GateRobotsStep ==
  ASSUME RobotsTypeOK, CacheServed, NEW j \in Caller, url[j] \in URL,
         DOMAIN at = Caller, unchecked \in [Caller -> BOOLEAN],
         permission[j] = {}, GateRobots(j)
  PROVE  /\ \A k \in Caller \ {j} : /\ at'[k] = at[k] /\ unchecked'[k] = unchecked[k]
                                    /\ permission'[k] = permission[k]
                                    /\ asking'[k] = asking[k]
         /\ \/ at'[j] = "robots" /\ permission'[j] = {}
            \/ at'[j] = "done" /\ asking'[j] = "no"
            \/ /\ at'[j] \in {"delay", "wait"} /\ asking'[j] = "no"
               /\ Alone(HostOf[url[j]]) /\ Forbidden(url[j]) => unchecked'[j]
  <1>1. IsAllowed(j, url[j]) /\ Verdict(j, permission'[j]) /\ at[j] = "robots"
    BY DEF GateRobots
  <1>2. /\ asking \in [Caller -> {"no", "lock", "fetch"}]
        /\ permission \in [Caller -> SUBSET Permission]
    BY DEF RobotsTypeOK
  <1>3. /\ \/ UNCHANGED permission
           \/ \E answers \in SUBSET Permission :
                 /\ permission' = [permission EXCEPT ![j] = answers]
                 /\ Uniform(answers) /\ \A answer \in answers : Judged(url[j], answer)
        /\ \/ asking' = [asking EXCEPT ![j] = "no"]
           \/ asking' = [asking EXCEPT ![j] = "lock"] /\ UNCHANGED permission
           \/ asking' = [asking EXCEPT ![j] = "fetch"] /\ UNCHANGED permission
    BY <1>1, IsAllowedStep
  <1>4. \A k \in Caller \ {j} : permission'[k] = permission[k] /\ asking'[k] = asking[k]
    BY <1>2, <1>3
  <1>5. CASE permission'[j] = {}
    BY <1>1, <1>4, <1>5 DEF Verdict
  <1>6. CASE permission'[j] # {}
    <2>1. asking'[j] = "no" /\ \A answer \in permission'[j] : Judged(url[j], answer)
      BY <1>2, <1>3, <1>6
    <2>2. PICK answer \in permission'[j] :
             \/ /\ at' = [at EXCEPT ![j] = "done"] /\ UNCHANGED unchecked
             \/ /\ Passes(answer)
                /\ at' = [at EXCEPT ![j] = IF answer.verdict = "error" THEN "wait" ELSE "delay"]
                /\ unchecked' = [unchecked EXCEPT ![j] = answer.verdict = "error"]
      BY <1>1, <1>6 DEF Verdict, End, Goto
    <2>3. Judged(url[j], answer)
      BY <2>1
    <2> QED
      BY <1>4, <2>1, <2>2, <2>3, ForbiddenRefused
  <1> QED
    BY <1>5, <1>6

LEMMA StationsStep ==
  JobTypes /\ CacheServed /\ Stations /\ [Next]_vars => Stations'
  <1> SUFFICES ASSUME JobTypes, CacheServed, Stations, [Next]_vars PROVE Stations'
    OBVIOUS
  <1> USE DEF JobTypes, RobotsTypeOK, Stations
  <1>1. ASSUME NEW j \in Caller, GateLimiter(j) PROVE Stations'
    BY <1>1 DEF GateLimiter, Goto, robotsVars
  <1>2. ASSUME NEW j \in Caller, GateRobots(j) PROVE Stations'
    <2>1. at[j] = "robots" /\ permission[j] = {} /\ url[j] \in URL
      BY <1>2 DEF GateRobots
    <2>2. /\ \A k \in Caller \ {j} : at'[k] = at[k] /\ permission'[k] = permission[k]
                                     /\ asking'[k] = asking[k]
          /\ \/ at'[j] = "robots" /\ permission'[j] = {}
             \/ at'[j] \in {"done", "delay", "wait"} /\ asking'[j] = "no"
      BY <1>2, <2>1, GateRobotsStep
    <2> QED
      BY <2>2
  <1>3. ASSUME NEW j \in Caller, GateDelay(j) PROVE Stations'
    BY <1>3 DEF GateDelay, Goto, robotsVars
  <1>4. ASSUME NEW j \in Caller, GateWait(j) PROVE Stations'
    BY <1>4 DEF GateWait, LeaveGate, Goto, End
  <1>5. ASSUME NEW j \in Caller, Send(j) PROVE Stations'
    <2>1. UNCHANGED <<permission, asking>> /\ at[j] = "send"
      BY <1>5 DEF Send, robotsVars
    <2>2. UNCHANGED at \/ \E place \in {"limiter", "done"} : at' = [at EXCEPT ![j] = place]
      BY <1>5 DEF Send, Retry, Follow, Conclude, Goto, End, HopPlace
    <2> QED
      BY <2>1, <2>2
  <1>6. CASE UNCHANGED <<at, asking, permission>>
    BY <1>6
  <1> QED
    BY <1>1, <1>2, <1>3, <1>4, <1>5, <1>6
       DEF Next, Job, AllDone, CancelAll, ExpireEntry, Expire, CleanupTick, robotsVars,
       fetchVars, vars

LEMMA ClearedStep ==
  JobTypes /\ CacheServed /\ Stations /\ Cleared /\ [Next]_vars => Cleared'
  <1> SUFFICES ASSUME JobTypes, CacheServed, Stations, Cleared, [Next]_vars PROVE Cleared'
    OBVIOUS
  <1> USE DEF JobTypes, Cleared
  <1>1. ASSUME NEW j \in Caller, GateLimiter(j) PROVE Cleared'
    BY <1>1 DEF GateLimiter, Goto
  <1>2. ASSUME NEW j \in Caller, GateRobots(j) PROVE Cleared'
    <2>1. permission[j] = {} /\ url[j] \in URL /\ UNCHANGED url
      BY <1>2 DEF GateRobots, Stations
    <2>2. /\ \A k \in Caller \ {j} : at'[k] = at[k] /\ unchecked'[k] = unchecked[k]
          /\ \/ at'[j] \in {"robots", "done"}
             \/ /\ at'[j] \in {"delay", "wait"}
                /\ Alone(HostOf[url[j]]) /\ Forbidden(url[j]) => unchecked'[j]
      BY <1>2, <2>1, GateRobotsStep
    <2> QED
      BY <2>1, <2>2
  <1>3. ASSUME NEW j \in Caller, GateDelay(j) PROVE Cleared'
    BY <1>3 DEF GateDelay, Goto
  <1>4. ASSUME NEW j \in Caller, GateWait(j) PROVE Cleared'
    BY <1>4 DEF GateWait, Goto, End
  <1>5. ASSUME NEW j \in Caller, Send(j) PROVE Cleared'
    <2>1. at[j] = "send" /\ UNCHANGED unchecked
      BY <1>5 DEF Send
    <2>2. \/ UNCHANGED <<at, url>>
          \/ /\ \E place \in {"limiter", "done"} : at' = [at EXCEPT ![j] = place]
             /\ UNCHANGED url \/ \E next \in URL : url' = [url EXCEPT ![j] = next]
      BY <1>5, FetcherAssumption DEF Send, Retry, Follow, Conclude, Goto, End, HopPlace
    <2> QED
      BY <2>1, <2>2
  <1>6. CASE UNCHANGED <<at, url, unchecked>>
    BY <1>6
  <1> QED
    BY <1>1, <1>2, <1>3, <1>4, <1>5, <1>6
       DEF Next, Job, AllDone, CancelAll, ExpireEntry, CleanupTick, fetchVars, vars

LEMMA GateInvariant == Spec => [](JobTypes /\ CacheServed /\ Stations /\ Cleared)
  <1>1. Init => Stations /\ Cleared
    BY DEF Init, RobotsInit, Stations, Cleared
  <1> QED
    BY <1>1, StationsStep, ClearedStep, JobInvariant, PTL DEF Spec

\* No request, first or after any redirect, is made for a URL that every copy of
\* its robots.txt disallows, unless that could not be had; whatever the cache,
\* its expiry and the callers that share its locks do meanwhile.
THEOREM ForbiddenNotSentHolds == Spec => []ForbiddenNotSent
  <1>1. Cleared => ForbiddenNotSent
    BY DEF Cleared, ForbiddenNotSent
  <1> QED
    BY <1>1, GateInvariant, PTL

-----------------------------------------------------------------------------
(* One fetch of a robots.txt at a time *)

\* Who fetches a robots.txt holds the lock of its name, and nobody else does.
Locked ==
    \A j \in Caller :
        asking[j] = "fetch" => at[j] = "robots" /\ shard[LockOf(url[j])] = {j}

LEMMA LockedStep ==
  JobTypes /\ CacheServed /\ Stations /\ Locked /\ [Next]_vars => Locked'
  <1> SUFFICES ASSUME JobTypes, CacheServed, Stations, Locked, [Next]_vars PROVE Locked'
    OBVIOUS
  <1> USE KeyType DEF JobTypes, RobotsTypeOK, Locked
  <1>1. ASSUME NEW j \in Caller, GateRobots(j) PROVE Locked'
    <2>1. at[j] = "robots" /\ IsAllowed(j, url[j]) /\ UNCHANGED url /\ permission[j] = {}
      BY <1>1 DEF GateRobots, Stations
    <2>2. \A k \in Caller \ {j} : at'[k] = at[k]
      BY <1>1, <2>1, GateRobotsStep
    <2>3. asking'[j] = "fetch" => at'[j] = "robots"
      BY <1>1, <2>1, GateRobotsStep
    <2>4. CASE Ask(j, url[j])
      BY <2>1, <2>2, <2>3, <2>4 DEF Ask
    <2>5. CASE LockShard(j, url[j])
      <3>1. CASE asking' = [asking EXCEPT ![j] = "no"] /\ UNCHANGED shard
        BY <2>1, <2>2, <3>1
      <3>2. CASE /\ asking' = [asking EXCEPT ![j] = "fetch"]
                 /\ shard' = [shard EXCEPT ![LockOf(url[j])] = @ \union {j}]
        <4>1. shard[LockOf(url[j])] = {} /\ LockOf(url[j]) \in Shard
          BY <2>5 DEF LockShard, ShardFree
        <4>2. shard'[LockOf(url[j])] = {j}
          BY <3>2, <4>1
        <4>3. \A k \in Caller \ {j} : asking'[k] = "fetch" =>
                 LockOf(url[k]) # LockOf(url[j]) /\ shard[LockOf(url[k])] = {k} /\ at[k] = "robots"
          BY <3>2, <4>1
        <4>4. \A k \in Caller \ {j} : asking'[k] = "fetch" => shard'[LockOf(url[k])] = {k}
          BY <3>2, <4>3
        <4> QED
          BY <2>1, <2>2, <2>3, <4>2, <4>3, <4>4, <3>2 DEF LockOf, KeyOf
      <3> QED
        BY <2>5, <3>1, <3>2 DEF LockShard
    <2>6. CASE FetchRobots(j, url[j])
      BY <2>1, <2>2, <2>3, <2>6 DEF FetchRobots
    <2> QED
      BY <2>1, <2>4, <2>5, <2>6 DEF IsAllowed
  <1>2. ASSUME NEW j \in Caller, at[j] # "robots" \/ at'[j] = "robots",
               \A k \in Caller \ {j} : at'[k] = at[k] /\ url'[k] = url[k],
               at[j] = "robots" => url'[j] = url[j], UNCHANGED <<asking, shard>>
        PROVE  Locked'
    BY <1>2
  <1>3. ASSUME NEW j \in Caller, GateLimiter(j) \/ GateDelay(j) \/ GateWait(j) \/ Send(j)
        PROVE  Locked'
    <2>1. at[j] # "robots" /\ UNCHANGED <<asking, shard>>
      BY <1>3 DEF GateLimiter, GateDelay, GateWait, LeaveGate, Send, robotsVars
    <2>2. UNCHANGED at \/ \E place : at' = [at EXCEPT ![j] = place]
      BY <1>3 DEF GateLimiter, GateDelay, GateWait, Send, Retry, Follow, Conclude, Goto, End
    <2>3. UNCHANGED url \/ \E next : url' = [url EXCEPT ![j] = next]
      BY <1>3 DEF GateLimiter, GateDelay, GateWait, Send, Retry, Follow, Conclude
    <2> QED
      BY <1>2, <2>1, <2>2, <2>3
  <1>4. CASE UNCHANGED <<at, url, asking, shard>>
    BY <1>4
  <1> QED
    BY <1>1, <1>3, <1>4
       DEF Next, Job, AllDone, CancelAll, ExpireEntry, Expire, CleanupTick, robotsVars,
       fetchVars, vars

\* Nobody sets out to fetch the robots.txt of a name that is in the cache or that
\* another caller is fetching, although the locks are fewer than the names.
THEOREM FetchedOnceHolds == Spec => FetchedOnce
  <1> DEFINE Once == \A j \in Caller : asking[j] # "fetch" /\ asking'[j] = "fetch" =>
                        /\ cache[KeyOf(url[j])] = {}
                        /\ \A k \in Caller : asking[k] = "fetch" => KeyOf(url[k]) # KeyOf(url[j])
  <1>1. JobTypes /\ CacheServed /\ Stations /\ Locked /\ [Next]_vars => [Once]_vars
    <2> SUFFICES ASSUME JobTypes, CacheServed, Stations, Locked, Next,
                        NEW j \in Caller, asking[j] # "fetch", asking'[j] = "fetch"
                 PROVE  /\ cache[KeyOf(url[j])] = {}
                        /\ \A k \in Caller : asking[k] = "fetch" => KeyOf(url[k]) # KeyOf(url[j])
      BY DEF vars, robotsVars
    <2>1. PICK c \in Caller : GateRobots(c)
      BY DEF Next, Job, AllDone, GateLimiter, GateDelay, GateWait, LeaveGate, Send,
         CancelAll, ExpireEntry, Expire, CleanupTick, robotsVars, vars
    <2>2. c = j
      <3>1. permission[c] = {} /\ url[c] \in URL
        BY <2>1 DEF GateRobots, Stations, JobTypes
      <3>2. \A k \in Caller \ {c} : asking'[k] = asking[k]
        BY <2>1, <3>1, GateRobotsStep DEF JobTypes
      <3> QED
        BY <3>2
    <2>3. LockShard(j, url[j]) /\ ~FoundAgain(url[j])
      BY <2>1, <2>2 DEF GateRobots, IsAllowed, Ask, LockShard, FetchRobots, JobTypes, RobotsTypeOK
    <2> QED
      BY <2>3, KeyType DEF LockShard, FoundAgain, ShardFree, Locked, LockOf, JobTypes
  <1>2. Init => Locked
    BY DEF Init, RobotsInit, Locked
  <1> QED
    BY <1>1, <1>2, LockedStep, GateInvariant, PTL DEF Spec, FetchedOnce

-----------------------------------------------------------------------------
(* The table of limiters *)

Entry == [host: Host, limiter: Limiter]

\* What a sequence holds after the operations on the table.
LEMMA AppendSet ==
  ASSUME NEW S, NEW s \in Seq(S), NEW x \in S
  PROVE  /\ Append(s, x) \in Seq(S) /\ Len(Append(s, x)) = Len(s) + 1
         /\ ToSet(Append(s, x)) = ToSet(s) \union {x}
  <1>1. /\ Append(s, x) \in Seq(S) /\ Len(Append(s, x)) = Len(s) + 1 /\ Len(s) \in Nat
        /\ \A i \in 1..Len(s) : Append(s, x)[i] = s[i]
        /\ Append(s, x)[Len(s) + 1] = x
    BY AppendProperties, LenProperties
  <1>2. DOMAIN Append(s, x) = 1..(Len(s) + 1) /\ DOMAIN s = 1..Len(s)
    <2>1. \A t \in Seq(S) : DOMAIN t = 1..Len(t)
      BY LenProperties
    <2> QED
      BY <1>1, <2>1
  <1>3. ASSUME NEW y PROVE y \in ToSet(Append(s, x)) <=> y \in ToSet(s) \union {x}
    BY <1>1, <1>2 DEF ToSet
  <1> QED
    BY <1>1, <1>3

LEMMA SubSeqSet ==
  ASSUME NEW S, NEW s \in Seq(S), NEW m \in 1..(Len(s) + 1), NEW n \in (m - 1)..Len(s)
  PROVE  /\ SubSeq(s, m, n) \in Seq(S) /\ Len(SubSeq(s, m, n)) = n - m + 1
         /\ ToSet(SubSeq(s, m, n)) = {s[i] : i \in m..n}
  <1>1. Len(s) \in Nat /\ DOMAIN s = 1..Len(s) /\ m \in Int /\ n \in Int /\ n - m + 1 \in Nat
    BY LenProperties
  <1>2. \A i \in m..n : s[i] \in S
    BY <1>1, ElementOfSeq
  <1>3. /\ SubSeq(s, m, n) \in Seq(S)
        /\ Len(SubSeq(s, m, n)) = IF m <= n THEN n - m + 1 ELSE 0
        /\ \A i \in 1 .. n - m + 1 : SubSeq(s, m, n)[i] = s[m + i - 1]
    BY <1>1, <1>2, SubSeqProperties
  <1>4. Len(SubSeq(s, m, n)) = n - m + 1
    BY <1>1, <1>3
  <1>5. DOMAIN SubSeq(s, m, n) = 1..(n - m + 1)
    BY <1>3, <1>4, LenProperties
  <1>6. ASSUME NEW y PROVE y \in ToSet(SubSeq(s, m, n)) <=> y \in {s[i] : i \in m..n}
    <2>1. ASSUME NEW i \in m..n, y = s[i] PROVE y \in ToSet(SubSeq(s, m, n))
      <3>1. i - m + 1 \in 1..(n - m + 1) /\ m + (i - m + 1) - 1 = i
        BY <1>1
      <3> QED
        BY <1>3, <1>5, <2>1, <3>1 DEF ToSet
    <2>2. ASSUME NEW i \in 1..(n - m + 1), y = SubSeq(s, m, n)[i] PROVE y \in {s[k] : k \in m..n}
      <3>1. m + i - 1 \in m..n
        BY <1>1
      <3> QED
        BY <1>3, <2>2, <3>1
    <2> QED
      BY <1>5, <2>1, <2>2 DEF ToSet
  <1> QED
    BY <1>3, <1>4, <1>6

LEMMA RemoveAtSet ==
  ASSUME NEW S, NEW s \in Seq(S), NEW i \in 1..Len(s)
  PROVE  /\ RemoveAt(s, i) \in Seq(S) /\ Len(RemoveAt(s, i)) = Len(s) - 1
         /\ ToSet(s) = ToSet(RemoveAt(s, i)) \union {s[i]}
  <1> DEFINE before == SubSeq(s, 1, i - 1)
             after == SubSeq(s, i + 1, Len(s))
  <1>1. Len(s) \in Nat /\ DOMAIN s = 1..Len(s)
    BY LenProperties
  <1>2. /\ before \in Seq(S) /\ Len(before) = i - 1
        /\ ToSet(before) = {s[k] : k \in 1..(i - 1)}
    <2>1. 1 \in 1..(Len(s) + 1) /\ i - 1 \in (1 - 1)..Len(s) /\ (i - 1) - 1 + 1 = i - 1
      BY <1>1
    <2> QED
      BY <2>1, SubSeqSet
  <1>3. /\ after \in Seq(S) /\ Len(after) = Len(s) - i
        /\ ToSet(after) = {s[k] : k \in (i + 1)..Len(s)}
    <2>1. i + 1 \in 1..(Len(s) + 1) /\ Len(s) \in ((i + 1) - 1)..Len(s)
          /\ Len(s) - (i + 1) + 1 = Len(s) - i
      BY <1>1
    <2>2. /\ after \in Seq(S) /\ Len(after) = Len(s) - (i + 1) + 1
          /\ ToSet(after) = {s[k] : k \in (i + 1)..Len(s)}
      BY <2>1, SubSeqSet
    <2> QED
      BY <2>1, <2>2
  <1>4. RemoveAt(s, i) = before \o after
    BY DEF RemoveAt
  <1> HIDE DEF before, after
  <1>5. /\ before \o after \in Seq(S) /\ Len(before \o after) = Len(before) + Len(after)
    BY <1>2, <1>3, ConcatProperties
  <1>6. Range(before \o after) = Range(before) \union Range(after)
    BY <1>2, <1>3, RangeConcatenation
  <1>7. ToSet(before \o after) = ToSet(before) \union ToSet(after)
    BY <1>6 DEF ToSet, Range
  <1>8. ToSet(s) = {s[k] : k \in 1..(i - 1)} \union {s[k] : k \in (i + 1)..Len(s)} \union {s[i]}
    <2>1. \A k : k \in 1..Len(s) <=> k \in 1..(i - 1) \/ k \in (i + 1)..Len(s) \/ k = i
      BY <1>1
    <2> QED
      BY <1>1, <2>1 DEF ToSet
  <1> QED
    BY <1>1, <1>2, <1>3, <1>4, <1>5, <1>7, <1>8

\* Two entries differ in their hosts and in their limiters.
OneEntry ==
    \A x, y \in ToSet(table) : x.host = y.host \/ x.limiter = y.limiter => x = y

LEMMA TableSet ==
  ASSUME table \in Seq(Entry)
  PROVE  /\ ToSet(table) \subseteq Entry /\ Len(table) \in Nat
         /\ LimitersIn(table) = {entry.limiter : entry \in ToSet(table)}
  <1>1. DOMAIN table = 1..Len(table) /\ Len(table) \in Nat
    BY LenProperties
  <1>2. \A i \in 1..Len(table) : table[i] \in Entry
    BY ElementOfSeq
  <1> QED
    BY <1>1, <1>2 DEF ToSet, LimitersIn

\* A lookup moves an entry to the end.
LEMMA TakeTable ==
  ASSUME table \in Seq(Entry), OneEntry, NEW host, NEW entry \in Entries(host),
         table' = Append(Without(table, host), entry)
  PROVE  table' \in Seq(Entry) /\ Len(table') = Len(table) /\ ToSet(table') = ToSet(table)
  <1> DEFINE places == {i \in DOMAIN table : table[i].host = host}
  <1>1. DOMAIN table = 1..Len(table) /\ Len(table) \in Nat
    BY LenProperties
  <1>2. entry \in ToSet(table) /\ entry.host = host
    BY DEF Entries
  <1>3. places # {}
    BY <1>2 DEF ToSet
  <1>4. PICK i \in places : Without(table, host) = RemoveAt(table, i)
    BY <1>3 DEF Without
  <1>5. i \in 1..Len(table) /\ table[i] \in ToSet(table) /\ table[i].host = host
    BY <1>1, <1>4 DEF ToSet
  <1>6. table[i] = entry
    BY <1>2, <1>5 DEF OneEntry
  <1>7. /\ RemoveAt(table, i) \in Seq(Entry) /\ Len(RemoveAt(table, i)) = Len(table) - 1
        /\ ToSet(table) = ToSet(RemoveAt(table, i)) \union {entry}
    BY <1>5, <1>6, RemoveAtSet
  <1>8. entry \in Entry
    BY <1>2, TableSet
  <1> DEFINE rest == RemoveAt(table, i)
  <1>9. table' = Append(rest, entry)
    BY <1>4
  <1> HIDE DEF rest
  <1>10. rest \in Seq(Entry) /\ Len(rest) = Len(table) - 1
    BY <1>7 DEF rest
  <1>11. /\ Append(rest, entry) \in Seq(Entry) /\ Len(Append(rest, entry)) = Len(rest) + 1
         /\ ToSet(Append(rest, entry)) = ToSet(rest) \union {entry}
    BY <1>8, <1>10, AppendSet
  <1>12. ToSet(table') = ToSet(table)
    BY <1>7, <1>9, <1>11 DEF rest
  <1>13. Len(table') = Len(table)
    BY <1>1, <1>9, <1>10, <1>11
  <1> QED
    BY <1>9, <1>11, <1>12, <1>13

\* An eviction keeps some of the entries, and leaves room for one.
LEMMA KeptTable ==
  ASSUME table \in Seq(Entry), Len(table) <= MaxHostLimiters
  PROVE  /\ Kept \in Seq(Entry) /\ Len(Kept) + 1 <= MaxHostLimiters
         /\ ToSet(Kept) \subseteq ToSet(table)
  <1>1. Len(table) \in Nat /\ DOMAIN table = 1..Len(table)
    BY LenProperties
  <1>2. CASE Crowded
    <2> DEFINE first == Len(table) - KeepLimiters + 1
    <2>1. /\ first \in 1..(Len(table) + 1) /\ Len(table) \in (first - 1)..Len(table)
          /\ Len(table) - first + 1 = KeepLimiters
      BY <1>1, <1>2, LimitersAssumption DEF Crowded
    <2>2. Kept = SubSeq(table, first, Len(table))
      BY <1>2 DEF Kept
    <2> HIDE DEF first
    <2>3. /\ Kept \in Seq(Entry) /\ Len(Kept) = Len(table) - first + 1
          /\ ToSet(Kept) = {table[i] : i \in first..Len(table)}
      BY <2>1, <2>2, SubSeqSet
    <2>4. first..Len(table) \subseteq 1..Len(table)
      BY <1>1, <2>1
    <2>5. ToSet(Kept) \subseteq ToSet(table)
      BY <1>1, <2>3, <2>4 DEF ToSet
    <2>6. Len(Kept) + 1 <= MaxHostLimiters
      BY <2>1, <2>3, LimitersAssumption
    <2> QED
      BY <2>3, <2>5, <2>6
  <1>3. CASE ~Crowded
    BY <1>1, <1>3, LimitersAssumption DEF Crowded, Kept
  <1> QED
    BY <1>2, <1>3

\* A new entry comes after what is kept.
LEMMA CreateTable ==
  ASSUME table \in Seq(Entry), Len(table) <= MaxHostLimiters, NEW host \in Host,
         Entries(host) = {}, NEW limiter \in Limiter,
         table' = Append(Without(Kept, host), [host |-> host, limiter |-> limiter])
  PROVE  /\ table' \in Seq(Entry) /\ Len(table') <= MaxHostLimiters
         /\ ToSet(table') = ToSet(Kept) \union {[host |-> host, limiter |-> limiter]}
  <1>1. Without(Kept, host) = Kept
    <2>1. \A i \in DOMAIN Kept : Kept[i].host # host
      BY KeptTable DEF ToSet, Entries
    <2> QED
      BY <2>1 DEF Without
  <1>2. [host |-> host, limiter |-> limiter] \in Entry
    BY DEF Entry
  <1> QED
    BY <1>1, <1>2, KeptTable, AppendSet

\* A cleanup drops the first entries.
LEMMA CleanTable ==
  ASSUME table \in Seq(Entry), NEW idle \in 1..Len(table)
  PROVE  /\ SubSeq(table, idle + 1, Len(table)) \in Seq(Entry)
         /\ Len(SubSeq(table, idle + 1, Len(table))) <= Len(table)
         /\ ToSet(table) = ToSet(SubSeq(table, idle + 1, Len(table)))
                             \union ToSet(SubSeq(table, 1, idle))
         /\ SubSeq(table, 1, idle) \in Seq(Entry)
  <1> DEFINE before == SubSeq(table, 1, idle)
             after == SubSeq(table, idle + 1, Len(table))
  <1>1. Len(table) \in Nat /\ DOMAIN table = 1..Len(table)
    BY LenProperties
  <1>2. before \in Seq(Entry) /\ ToSet(before) = {table[i] : i \in 1..idle}
    <2>1. 1 \in 1..(Len(table) + 1) /\ idle \in (1 - 1)..Len(table)
      BY <1>1
    <2> QED
      BY <2>1, SubSeqSet
  <1>3. /\ after \in Seq(Entry) /\ Len(after) <= Len(table)
        /\ ToSet(after) = {table[i] : i \in (idle + 1)..Len(table)}
    <2>1. idle + 1 \in 1..(Len(table) + 1) /\ Len(table) \in ((idle + 1) - 1)..Len(table)
      BY <1>1
    <2>2. /\ after \in Seq(Entry) /\ Len(after) = Len(table) - (idle + 1) + 1
          /\ ToSet(after) = {table[i] : i \in (idle + 1)..Len(table)}
      BY <2>1, SubSeqSet
    <2>3. Len(table) - (idle + 1) + 1 <= Len(table)
      BY <1>1
    <2> HIDE DEF after
    <2> QED
      BY <2>2, <2>3
  <1> HIDE DEF before, after
  <1>4. ToSet(table) = {table[i] : i \in (idle + 1)..Len(table)} \union {table[i] : i \in 1..idle}
    <2>1. \A k : k \in 1..Len(table) <=> k \in 1..idle \/ k \in (idle + 1)..Len(table)
      BY <1>1
    <2> QED
      BY <1>1, <2>1 DEF ToSet
  <1> QED
    BY <1>2, <1>3, <1>4 DEF before, after

\* Sets of at most one member, one for each caller, have no more members
\* together than there are callers.
LEMMA SinglesCount ==
  ASSUME NEW D, IsFiniteSet(D), NEW f, \A c \in D : \A x, y \in f[c] : x = y
  PROVE  /\ IsFiniteSet(UNION {f[c] : c \in D})
         /\ Cardinality(UNION {f[c] : c \in D}) <= Cardinality(D)
  <1> DEFINE Some == {c \in D : f[c] # {}}
             All == UNION {f[c] : c \in D}
             pick == [c \in Some |-> CHOOSE x : x \in f[c]]
  <1>1. \A c \in Some : pick[c] \in f[c]
    OBVIOUS
  <1>2. pick \in [Some -> All]
    BY <1>1
  <1>3. \A x \in All : \E c \in Some : pick[c] = x
    BY <1>1
  <1> HIDE DEF pick
  <1>4. pick \in Surjection(Some, All)
    BY <1>2, <1>3 DEF Surjection
  <1>5. IsFiniteSet(Some) /\ Cardinality(Some) <= Cardinality(D)
    BY FS_Subset, Some \in SUBSET D
  <1>6. IsFiniteSet(All) /\ Cardinality(All) <= Cardinality(Some)
    BY <1>4, <1>5, FS_Surjection
  <1>7. Cardinality(Some) \in Nat /\ Cardinality(D) \in Nat /\ Cardinality(All) \in Nat
    BY <1>5, <1>6, FS_CardinalityType
  <1> QED
    BY <1>5, <1>6, <1>7

LEMMA UnionCount ==
  ASSUME NEW S, NEW T, IsFiniteSet(S), IsFiniteSet(T)
  PROVE  IsFiniteSet(S \union T) /\ Cardinality(S \union T) <= Cardinality(S) + Cardinality(T)
  <1>1. IsFiniteSet(S \intersect T)
    BY FS_Subset, S \intersect T \in SUBSET S
  <1>2. /\ Cardinality(S) \in Nat /\ Cardinality(T) \in Nat
        /\ Cardinality(S \intersect T) \in Nat
    BY <1>1, FS_CardinalityType
  <1>3. /\ IsFiniteSet(S \union T)
        /\ Cardinality(S \union T)
              = Cardinality(S) + Cardinality(T) - Cardinality(S \intersect T)
    BY FS_Union
  <1> QED
    BY <1>2, <1>3

Singles(f) == \A c \in Caller : \A x, y \in f[c] : x = y

\* Who looks up a limiter holds none; all others hold one and tighten one at
\* most, and so a new one is found.
LEMMA FreeLimiterFound ==
  ASSUME table \in Seq(Entry), Len(table) <= MaxHostLimiters, Singles(held), Singles(target),
         NEW c \in Caller, held[c] = {}, target[c] = {}
  PROVE  /\ FreeLimiter \in Limiter /\ FreeLimiter \notin LimitersIn(table)
         /\ \A d \in Caller : FreeLimiter \notin held[d] /\ FreeLimiter \notin target[d]
  <1> DEFINE Rest == Caller \ {c}
             Held == UNION {held[d] : d \in Rest}
             Targets == UNION {target[d] : d \in Rest}
             Busy == LimitersIn(table) \union UNION {held[d] \union target[d] : d \in Caller}
  <1>1. /\ IsFiniteSet(Rest) /\ Cardinality(Rest) = Cardinality(Caller) - 1
        /\ Cardinality(Rest) \in Nat /\ Cardinality(Caller) \in Nat
    BY EnoughAssumption, FS_RemoveElement, FS_CardinalityType
  <1>2. IsFiniteSet(Held) /\ Cardinality(Held) <= Cardinality(Rest)
    BY <1>1, SinglesCount DEF Singles
  <1>3. IsFiniteSet(Targets) /\ Cardinality(Targets) <= Cardinality(Rest)
    BY <1>1, SinglesCount DEF Singles
  <1>4. IsFiniteSet(LimitersIn(table)) /\ Cardinality(LimitersIn(table)) <= Len(table)
    <2>1. DOMAIN table = 1..Len(table) /\ Len(table) \in Nat
      BY LenProperties
    <2>2. IsFiniteSet(1..Len(table)) /\ Cardinality(1..Len(table)) = Len(table)
      BY <2>1, FS_Interval
    <2> DEFINE f == [i \in 1..Len(table) |-> table[i].limiter]
    <2>3. f \in Surjection(1..Len(table), LimitersIn(table))
      BY <2>1 DEF Surjection, LimitersIn
    <2> HIDE DEF f
    <2> QED
      BY <2>2, <2>3, FS_Surjection
  <1> HIDE DEF Rest, Held, Targets
  <1>5. IsFiniteSet(Held \union Targets)
        /\ Cardinality(Held \union Targets) <= Cardinality(Held) + Cardinality(Targets)
    BY <1>2, <1>3, UnionCount
  <1>6. /\ IsFiniteSet(LimitersIn(table) \union (Held \union Targets))
        /\ Cardinality(LimitersIn(table) \union (Held \union Targets))
              <= Cardinality(LimitersIn(table)) + Cardinality(Held \union Targets)
    BY <1>4, <1>5, UnionCount
  <1>7. Busy = LimitersIn(table) \union (Held \union Targets)
    BY DEF Held, Targets, Rest
  <1> HIDE DEF Busy
  <1>8. IsFiniteSet(Busy) /\ Cardinality(Busy) <= MaxHostLimiters + 2 * Cardinality(Rest)
    <2>1. Len(table) \in Nat
      BY LenProperties
    <2>2. /\ Cardinality(Held) \in Nat /\ Cardinality(Targets) \in Nat
          /\ Cardinality(LimitersIn(table)) \in Nat
          /\ Cardinality(Held \union Targets) \in Nat
      BY <1>2, <1>3, <1>4, <1>5, FS_CardinalityType
    <2>3. /\ Cardinality(Busy) \in Nat /\ IsFiniteSet(Busy)
          /\ Cardinality(Busy) <= Cardinality(LimitersIn(table)) + Cardinality(Held \union Targets)
      BY <1>6, <1>7, FS_CardinalityType
    <2>4. Cardinality(Held \union Targets) <= 2 * Cardinality(Rest)
      BY <1>1, <1>2, <1>3, <1>5, <2>2
    <2> QED
      BY <1>1, <1>4, <2>1, <2>2, <2>3, <2>4, LimitersAssumption
  <1>9. ~(Limiter \subseteq Busy)
    <2> SUFFICES ASSUME Limiter \subseteq Busy PROVE FALSE
      OBVIOUS
    <2>1. IsFiniteSet(Limiter) /\ Cardinality(Limiter) <= Cardinality(Busy)
      BY <1>8, FS_Subset
    <2>2. Cardinality(Limiter) \in Nat /\ Cardinality(Busy) \in Nat
      BY <1>8, <2>1, FS_CardinalityType
    <2> QED
      BY <1>1, <1>8, <2>1, <2>2, EnoughAssumption, LimitersAssumption
  <1>10. FreeLimiter \in Limiter /\ FreeLimiter \notin Busy
    BY <1>9 DEF FreeLimiter, Busy
  <1> QED
    BY <1>10 DEF Busy

\* The table within its cap, and no caller with two limiters.
TableInv ==
    /\ LimitersTypeOK
    /\ Len(table) <= MaxHostLimiters
    /\ OneEntry
    /\ Singles(held) /\ Singles(target)

LEMMA TableInit == Init => TableInv
  <1> SUFFICES ASSUME Init PROVE TableInv
    OBVIOUS
  <1>1. LimitersTypeOK
    BY LimitersAssumption, EmptySeq DEF Init, LimitersInit, LimitersTypeOK
  <1>2. Len(table) = 0 /\ ToSet(table) = {}
    BY DEF Init, LimitersInit, ToSet
  <1> QED
    BY <1>1, <1>2, LimitersAssumption DEF TableInv, OneEntry, Singles, Init, LimitersInit

\* A caller that holds no limiter either finds that it has to create one, or gets
\* the one of the host: that of the table, or a new one that nobody else has.
LEMMA GetStep ==
  ASSUME TableInv, NEW c \in Caller, NEW host \in Host, GetRateLimiter(c, host),
         held[c] = {}, target[c] = {}
  PROVE  /\ TableInv' /\ UNCHANGED <<tightening, target>>
         /\ \A d \in Caller \ {c} : held'[d] = held[d] /\ taking'[d] = taking[d]
         /\ \/ UNCHANGED <<table, held, interval, evicted>>
            \/ /\ taking'[c] = "no"
               /\ \E entry \in Entries(host) :
                     /\ held'[c] = {entry.limiter} /\ ToSet(table') = ToSet(table)
                     /\ UNCHANGED <<interval, evicted>>
            \/ /\ taking'[c] = "no"
               /\ \E entry \in Entry :
                     /\ entry.host = host /\ held'[c] = {entry.limiter}
                     /\ entry.limiter \notin LimitersIn(table)
                     /\ \A d \in Caller : entry.limiter \notin held[d] \union target[d]
                     /\ ToSet(table') = ToSet(Kept) \union {entry}
                     /\ interval' = [interval EXCEPT ![entry.limiter] = HostInterval]
                     /\ evicted' = Gone(LimitersIn(table) \ LimitersIn(Kept))
  <1>1. /\ table \in Seq(Entry) /\ Len(table) <= MaxHostLimiters /\ OneEntry
        /\ Singles(held) /\ Singles(target)
        /\ held \in [Caller -> SUBSET Limiter] /\ taking \in [Caller -> {"no", "create"}]
    BY DEF TableInv, LimitersTypeOK, Entry
  <1>2. CASE /\ Entries(host) = {} /\ taking' = [taking EXCEPT ![c] = "create"]
             /\ UNCHANGED <<table, interval, burst, held, tightening, target, evicted, cleanups>>
    BY <1>1, <1>2 DEF TableInv, LimitersTypeOK, OneEntry, Singles
  <1>3. CASE Take(c, host) /\ taking' = [taking EXCEPT ![c] = "no"]
    <2>1. PICK entry \in Entries(host) :
             /\ held' = [held EXCEPT ![c] = {entry.limiter}]
             /\ table' = Append(Without(table, host), entry)
      BY <1>3 DEF Take
    <2>2. table' \in Seq(Entry) /\ Len(table') = Len(table) /\ ToSet(table') = ToSet(table)
      BY <1>1, <2>1, TakeTable
    <2>3. entry \in Entry
      BY <1>1, TableSet DEF Entries
    <2>4. UNCHANGED <<interval, burst, tightening, target, evicted, cleanups>>
      BY <1>3 DEF Take
    <2>5. held' \in [Caller -> SUBSET Limiter] /\ Singles(held)'
      BY <1>1, <2>1, <2>3 DEF Entry, Singles
    <2>6. LimitersTypeOK'
      BY <1>3, <2>2, <2>4, <2>5 DEF TableInv, LimitersTypeOK, Entry
    <2>7. OneEntry'
      BY <1>1, <2>2 DEF OneEntry
    <2>8. TableInv'
      BY <1>1, <2>2, <2>4, <2>5, <2>6, <2>7 DEF TableInv, Singles
    <2> QED
      BY <1>1, <1>3, <2>1, <2>2, <2>4, <2>8
  <1>4. ASSUME NEW l, l = FreeLimiter, Entries(host) = {},
               taking' = [taking EXCEPT ![c] = "no"],
               table' = Append(Without(Kept, host), [host |-> host, limiter |-> l]),
               interval' = [interval EXCEPT ![l] = HostInterval],
               burst' = [burst EXCEPT ![l] = HostBurst],
               held' = [held EXCEPT ![c] = {l}],
               evicted' = Gone(LimitersIn(table) \ LimitersIn(Kept)),
               UNCHANGED <<tightening, target, cleanups>>
        PROVE  /\ TableInv' /\ taking'[c] = "no" /\ held'[c] = {l}
               /\ \A d \in Caller \ {c} : held'[d] = held[d] /\ taking'[d] = taking[d]
               /\ l \in Limiter /\ l \notin LimitersIn(table)
               /\ \A d \in Caller : l \notin held[d] \union target[d]
               /\ ToSet(table') = ToSet(Kept) \union {[host |-> host, limiter |-> l]}
    <2>1. /\ l \in Limiter /\ l \notin LimitersIn(table)
          /\ \A d \in Caller : l \notin held[d] \union target[d]
      BY <1>1, <1>4, FreeLimiterFound
    <2> DEFINE entry == [host |-> host, limiter |-> l]
    <2>2. /\ table' \in Seq(Entry) /\ Len(table') <= MaxHostLimiters
          /\ ToSet(table') = ToSet(Kept) \union {entry}
      BY <1>1, <1>4, <2>1, CreateTable
    <2>3. ToSet(Kept) \subseteq ToSet(table)
      BY <1>1, KeptTable
    <2>4. \A other \in ToSet(table) : other.host # host /\ other.limiter # l
      BY <1>1, <1>4, <2>1, TableSet DEF Entries
    <2>5. OneEntry'
      BY <1>1, <2>2, <2>3, <2>4 DEF OneEntry
    <2>6. LimitersTypeOK'
      <3>1. evicted' \subseteq Limiter
        BY <1>1, <1>4 DEF Gone, TableInv, LimitersTypeOK
      <3> QED
        BY <1>1, <1>4, <2>1, <2>2, <3>1, LimitersAssumption DEF TableInv, LimitersTypeOK, Entry
    <2>7. Singles(held)' /\ Singles(target)'
      BY <1>1, <1>4 DEF Singles
    <2> QED
      BY <1>1, <1>4, <2>1, <2>2, <2>5, <2>6, <2>7 DEF TableInv
  <1>5. CASE LookupLimiter(c, host) /\ Entries(host) # {}
    <2>1. taking' = [taking EXCEPT ![c] = "no"] /\ Take(c, host)
      BY <1>1, <1>5 DEF LookupLimiter
    <2> QED
      BY <1>3, <2>1
  <1>6. CASE LookupLimiter(c, host) /\ Entries(host) = {}
    BY <1>2, <1>6 DEF LookupLimiter
  <1>7. CASE CreateLimiter(c, host) /\ AlreadyCreated(host)
    BY <1>3, <1>7 DEF CreateLimiter
  <1>8. CASE CreateLimiter(c, host) /\ ~AlreadyCreated(host)
    <2>1. PICK l : /\ l = FreeLimiter /\ Entries(host) = {}
                   /\ taking' = [taking EXCEPT ![c] = "no"]
                   /\ table' = Append(Without(Kept, host), [host |-> host, limiter |-> l])
                   /\ interval' = [interval EXCEPT ![l] = HostInterval]
                   /\ burst' = [burst EXCEPT ![l] = HostBurst]
                   /\ held' = [held EXCEPT ![c] = {l}]
                   /\ evicted' = Gone(LimitersIn(table) \ LimitersIn(Kept))
                   /\ UNCHANGED <<tightening, target, cleanups>>
      BY <1>8 DEF CreateLimiter, AlreadyCreated
    <2>2. /\ TableInv' /\ taking'[c] = "no" /\ held'[c] = {l}
          /\ \A d \in Caller \ {c} : held'[d] = held[d] /\ taking'[d] = taking[d]
          /\ l \in Limiter /\ l \notin LimitersIn(table)
          /\ \A d \in Caller : l \notin held[d] \union target[d]
          /\ ToSet(table') = ToSet(Kept) \union {[host |-> host, limiter |-> l]}
      BY <1>4, <2>1
    <2>3. [host |-> host, limiter |-> l] \in Entry
      BY <2>2 DEF Entry
    <2> QED
      BY <2>1, <2>2, <2>3
  <1> QED
    BY <1>5, <1>6, <1>7, <1>8 DEF GetRateLimiter

\* A crawl delay: the target is the limiter of the host, no other limiter changes.
LEMMA TightenStep ==
  ASSUME TableInv, NEW c \in Caller, NEW host \in Host, NEW delay \in Nat,
         ApplyCrawlDelay(c, host, delay), tightening[c] = "no" => target[c] = {}
  PROVE  /\ TableInv' /\ UNCHANGED <<table, held, taking, evicted>>
         /\ \A d \in Caller \ {c} : target'[d] = target[d] /\ tightening'[d] = tightening[d]
         /\ tightening'[c] = "no" => target'[c] = {}
         /\ target'[c] \subseteq target[c] \union LimitersOf(host)
  <1>1. /\ table \in Seq(Entry) /\ OneEntry /\ Singles(target)
        /\ target \in [Caller -> SUBSET Limiter] /\ interval \in [Limiter -> Nat]
        /\ burst \in [Limiter -> Nat]
        /\ tightening \in [Caller -> {"no", "compare", "limit", "burst"}]
    BY DEF TableInv, LimitersTypeOK, Entry
  <1>2. UNCHANGED <<table, held, taking, evicted, cleanups>>
    BY DEF ApplyCrawlDelay, FindTarget, NoTarget, CompareLimit, SetLimit, SetBurst, limiterVars
  <1>3. OneEntry' /\ Singles(held)'
    BY <1>2 DEF TableInv, OneEntry, Singles
  <1>4. LimitersOf(host) \subseteq Limiter /\ \A x, y \in LimitersOf(host) : x = y
    <2>1. \A entry \in ToSet(table) : entry \in Entry
      BY <1>1, TableSet
    <2> QED
      BY <1>1, <2>1 DEF LimitersOf, Entries, OneEntry, Entry
  <1>5. ASSUME NEW place \in {"no", "compare", "limit", "burst"},
               tightening' = [tightening EXCEPT ![c] = place],
               NEW new \in SUBSET Limiter, target' = [target EXCEPT ![c] = new],
               \A x, y \in new : x = y, interval' \in [Limiter -> Nat],
               burst' \in [Limiter -> Nat]
        PROVE  TableInv'
    <2>1. Singles(target)'
      BY <1>1, <1>5 DEF Singles
    <2>2. LimitersTypeOK'
      BY <1>1, <1>2, <1>5 DEF TableInv, LimitersTypeOK
    <2> QED
      BY <1>2, <1>3, <2>1, <2>2 DEF TableInv
  <1>6. CASE FindTarget(c, host, delay)
    <2>1. TableInv'
      BY <1>1, <1>4, <1>5, <1>6 DEF FindTarget
    <2> QED
      BY <1>1, <1>2, <1>6, <2>1 DEF FindTarget
  <1>7. CASE NoTarget(c, host, delay)
    BY <1>2, <1>7 DEF NoTarget, limiterVars, TableInv, LimitersTypeOK, OneEntry, Singles
  <1>8. CASE CompareLimit(c, delay)
    <2>1. CASE tightening' = [tightening EXCEPT ![c] = "limit"]
               /\ target' = [target EXCEPT ![c] = target[c]]
      <3>1. TableInv'
        <4>1. target[c] \in SUBSET Limiter /\ \A x, y \in target[c] : x = y
          BY <1>1 DEF Singles
        <4> QED
          BY <1>1, <1>5, <1>8, <2>1, <4>1 DEF CompareLimit
      <3> QED
        BY <1>1, <1>2, <2>1, <3>1
    <2>2. CASE tightening' = [tightening EXCEPT ![c] = "no"]
               /\ target' = [target EXCEPT ![c] = {}]
      <3>1. UNCHANGED <<interval, burst>>
        BY <1>8 DEF CompareLimit
      <3>2. {} \in SUBSET Limiter /\ \A x, y \in {} : x = y
        OBVIOUS
      <3>3. TableInv'
        BY <1>1, <1>5, <2>2, <3>1, <3>2
      <3> QED
        BY <1>1, <1>2, <2>2, <3>3
    <2> QED
      BY <1>1, <1>8, <2>1, <2>2 DEF CompareLimit
  <1>9. CASE SetLimit(c, delay)
    <2>1. target[c] \in SUBSET Limiter /\ \A x, y \in target[c] : x = y
          /\ target' = [target EXCEPT ![c] = target[c]]
      BY <1>1, <1>9 DEF Singles, SetLimit
    <2>2. TableInv'
      BY <1>1, <1>5, <1>9, <2>1 DEF SetLimit
    <2> QED
      BY <1>1, <1>2, <1>9, <2>2 DEF SetLimit
  <1>10. CASE SetBurst(c)
    <2>1. TableInv'
      BY <1>1, <1>5, <1>10 DEF SetBurst
    <2> QED
      BY <1>1, <1>2, <1>10, <2>1 DEF SetBurst
  <1> QED
    BY <1>6, <1>7, <1>8, <1>9, <1>10 DEF ApplyCrawlDelay

LEMMA CleanupStep ==
  ASSUME TableInv, Cleanup
  PROVE  /\ TableInv' /\ UNCHANGED <<interval, held, taking, tightening, target>>
         /\ \E gone \in SUBSET Entry :
               /\ ToSet(table) = ToSet(table') \union gone
               /\ evicted' = Gone({entry.limiter : entry \in gone})
  <1>1. table \in Seq(Entry) /\ OneEntry /\ Len(table) \in Nat
        /\ held \in [Caller -> SUBSET Limiter]
    BY LenProperties DEF TableInv, LimitersTypeOK, Entry
  <1>2. PICK idle \in 1..Len(table) :
           /\ table' = SubSeq(table, idle + 1, Len(table))
           /\ evicted' = Gone(LimitersIn(SubSeq(table, 1, idle)))
    BY DEF Cleanup
  <1> DEFINE before == SubSeq(table, 1, idle)
  <1>3. /\ table' \in Seq(Entry) /\ Len(table') <= Len(table) /\ before \in Seq(Entry)
        /\ ToSet(table) = ToSet(table') \union ToSet(before)
    BY <1>1, <1>2, CleanTable
  <1>4. evicted' = Gone(LimitersIn(before))
    BY <1>2
  <1> HIDE DEF before
  <1>5. DOMAIN before = 1..Len(before) /\ \A i \in 1..Len(before) : before[i] \in Entry
    BY <1>3, LenProperties, ElementOfSeq
  <1>6. /\ LimitersIn(before) = {entry.limiter : entry \in ToSet(before)}
        /\ ToSet(before) \in SUBSET Entry
    BY <1>5 DEF LimitersIn, ToSet
  <1>7. evicted' \subseteq Limiter
    BY <1>1, <1>4 DEF Gone, TableInv, LimitersTypeOK
  <1>8. /\ UNCHANGED <<interval, burst, held, taking, tightening, target>>
        /\ cleanups' \in 0..MaxCleanups
    BY LimitersAssumption DEF Cleanup, TableInv, LimitersTypeOK
  <1>9. LimitersTypeOK'
    BY <1>3, <1>7, <1>8 DEF TableInv, LimitersTypeOK, Entry
  <1>10. OneEntry'
    BY <1>1, <1>3 DEF OneEntry
  <1>11. Len(table') \in Nat
    BY <1>3, LenProperties
  <1>12. Len(table') <= MaxHostLimiters
    BY <1>1, <1>3, <1>11, LimitersAssumption DEF TableInv
  <1>13. TableInv'
    BY <1>8, <1>9, <1>10, <1>12 DEF TableInv, Singles
  <1> QED
    BY <1>3, <1>4, <1>6, <1>8, <1>13

\* Where a caller has limiters.
LimiterPlaces ==
    \A j \in Caller :
        /\ at[j] # "delay" => tightening[j] = "no"
        /\ tightening[j] = "no" => target[j] = {}
        /\ at[j] \in {"limiter", "send"} => held[j] = {}

\* The limiters of a caller are those of the host of its URL.
OneHost ==
    \A j \in Caller : \A l \in held[j] \union target[j] :
        /\ \A entry \in ToSet(table) : entry.limiter = l => entry.host = HostOf[url[j]]
        /\ \A k \in Caller : l \in held[k] \union target[k] => HostOf[url[k]] = HostOf[url[j]]

LimiterInv == TableInv /\ LimiterPlaces /\ HeldIsShared /\ OneHost

\* The step of one caller that changes neither the table nor who else has what,
\* and after which it has what it had, in part, or the limiter of its host.
LEMMA TableStays ==
  ASSUME JobTypes, TableInv, HeldIsShared, OneHost, NEW j \in Caller, UNCHANGED url,
         ToSet(table') = ToSet(table),
         held' \in [Caller -> SUBSET Limiter], target' \in [Caller -> SUBSET Limiter],
         \A k \in Caller \ {j} : held'[k] = held[k] /\ target'[k] = target[k],
         held'[j] \subseteq held[j] \union LimitersOf(HostOf[url[j]]),
         target'[j] \subseteq target[j] \union LimitersOf(HostOf[url[j]]),
         \A k \in Caller : \A l \in held'[k] : l \in evicted => l \in evicted'
  PROVE  HeldIsShared' /\ OneHost'
  <1>1. \A host : LimitersOf(host)' = LimitersOf(host)
    BY DEF LimitersOf, Entries
  <1>2. HeldIsShared'
    BY <1>1 DEF HeldIsShared
  <1>3. \A k \in Caller : \A l \in held'[k] \union target'[k] :
           \/ l \in held[k] \union target[k]
           \/ \E entry \in ToSet(table) : entry.limiter = l /\ entry.host = HostOf[url[k]]
    BY DEF LimitersOf, Entries
  <1>4. \A x, y \in ToSet(table) : x.limiter = y.limiter => x.host = y.host
    BY DEF TableInv, OneEntry
  <1>5. ASSUME NEW k \in Caller, NEW l \in held'[k] \union target'[k],
               NEW entry \in ToSet(table), entry.limiter = l
        PROVE  entry.host = HostOf[url[k]]
    BY <1>3, <1>4, <1>5 DEF OneHost
  <1>6. ASSUME NEW k \in Caller, NEW m \in Caller, NEW l \in held'[k] \union target'[k],
               l \in held'[m] \union target'[m]
        PROVE  HostOf[url[k]] = HostOf[url[m]]
    BY <1>3, <1>5, <1>6 DEF OneHost
  <1> QED
    BY <1>2, <1>5, <1>6 DEF OneHost

\* The step of one caller that gives it a limiter nobody else has.
LEMMA TableGrows ==
  ASSUME JobTypes, TableInv, HeldIsShared, OneHost, NEW j \in Caller, UNCHANGED <<url, target>>,
         held \in [Caller -> SUBSET Limiter], held' \in [Caller -> SUBSET Limiter],
         NEW entry \in Entry, entry.host = HostOf[url[j]], held'[j] = {entry.limiter},
         entry.limiter \notin LimitersIn(table), target[j] = {},
         \A k \in Caller : entry.limiter \notin held[k] \union target[k],
         \A k \in Caller \ {j} : held'[k] = held[k],
         ToSet(table') = ToSet(Kept) \union {entry},
         evicted' = Gone(LimitersIn(table) \ LimitersIn(Kept))
  PROVE  HeldIsShared' /\ OneHost'
  <1>1. /\ table \in Seq(Entry) /\ Len(table) <= MaxHostLimiters
        /\ LimitersIn(table) = {e.limiter : e \in ToSet(table)}
    BY TableSet DEF TableInv, LimitersTypeOK, Entry
  <1>2. Kept \in Seq(Entry) /\ ToSet(Kept) \subseteq ToSet(table)
    BY <1>1, KeptTable
  <1>3. \A e \in ToSet(Kept) : e.limiter \in LimitersIn(Kept)
    BY DEF ToSet, LimitersIn
  <1>4. \A e \in ToSet(Kept) : e.limiter # entry.limiter
    BY <1>1, <1>2
  <1>5. HeldIsShared'
    <2> SUFFICES ASSUME NEW k \in Caller, NEW l \in held'[k], l \notin evicted'
                 PROVE  \E e \in ToSet(table') : e.limiter = l /\ e.host = HostOf[url[k]]
      BY DEF HeldIsShared, LimitersOf, Entries
    <2>1. CASE k = j
      BY <2>1
    <2>2. CASE k # j
      <3>1. l \in held[k] /\ l \notin evicted
        BY <2>2 DEF Gone
      <3>2. PICK e \in ToSet(table) : e.limiter = l /\ e.host = HostOf[url[k]]
        BY <3>1 DEF HeldIsShared, LimitersOf, Entries
      <3>3. l \in LimitersIn(Kept)
        BY <1>1, <3>1, <3>2 DEF Gone
      <3>4. PICK other \in ToSet(Kept) : other.limiter = l
        BY <3>3 DEF LimitersIn, ToSet
      <3>5. other = e
        BY <1>2, <3>2, <3>4 DEF TableInv, OneEntry
      <3> QED
        BY <3>2, <3>4, <3>5
    <2> QED
      BY <2>1, <2>2
  <1>6. OneHost'
    BY <1>2, <1>4 DEF OneHost
  <1> QED
    BY <1>5, <1>6

LEMMA LimiterInit == Init => LimiterInv
  BY TableInit DEF Init, LimitersInit, LimiterInv, LimiterPlaces, HeldIsShared, OneHost

LEMMA GateLimiterStep ==
  ASSUME JobTypes, LimiterInv, NEW j \in Caller, GateLimiter(j)
  PROVE  LimiterInv'
  <1>1. /\ at[j] = "limiter" /\ held[j] = {} /\ target[j] = {} /\ tightening[j] = "no"
        /\ UNCHANGED url /\ HostOf[url[j]] \in Host
        /\ at' = [at EXCEPT ![j] = IF held'[j] = {} THEN "limiter" ELSE "robots"]
    BY KeyType DEF GateLimiter, Goto, LimiterInv, LimiterPlaces, JobTypes
  <1>2. /\ TableInv' /\ UNCHANGED <<tightening, target>>
        /\ \A d \in Caller \ {j} : held'[d] = held[d] /\ taking'[d] = taking[d]
        /\ \/ UNCHANGED <<table, held, interval, evicted>>
           \/ /\ taking'[j] = "no"
              /\ \E entry \in Entries(HostOf[url[j]]) :
                    /\ held'[j] = {entry.limiter} /\ ToSet(table') = ToSet(table)
                    /\ UNCHANGED <<interval, evicted>>
           \/ /\ taking'[j] = "no"
              /\ \E entry \in Entry :
                    /\ entry.host = HostOf[url[j]] /\ held'[j] = {entry.limiter}
                    /\ entry.limiter \notin LimitersIn(table)
                    /\ \A d \in Caller : entry.limiter \notin held[d] \union target[d]
                    /\ ToSet(table') = ToSet(Kept) \union {entry}
                    /\ interval' = [interval EXCEPT ![entry.limiter] = HostInterval]
                    /\ evicted' = Gone(LimitersIn(table) \ LimitersIn(Kept))
    BY <1>1, GetStep DEF GateLimiter, LimiterInv
  <1>3. /\ held \in [Caller -> SUBSET Limiter] /\ target \in [Caller -> SUBSET Limiter]
        /\ held' \in [Caller -> SUBSET Limiter] /\ target' \in [Caller -> SUBSET Limiter]
    BY <1>2 DEF LimiterInv, TableInv, LimitersTypeOK
  <1>4. HeldIsShared' /\ OneHost'
    <2>1. CASE UNCHANGED <<table, held, interval, evicted>>
      BY <1>1, <1>2, <1>3, <2>1, TableStays DEF LimiterInv
    <2>2. ASSUME NEW entry \in Entries(HostOf[url[j]]), held'[j] = {entry.limiter},
                 ToSet(table') = ToSet(table), UNCHANGED evicted
          PROVE  HeldIsShared' /\ OneHost'
      <3>1. held'[j] \subseteq held[j] \union LimitersOf(HostOf[url[j]])
        BY <2>2 DEF LimitersOf
      <3> QED
        BY <1>1, <1>2, <1>3, <2>2, <3>1, TableStays DEF LimiterInv
    <2>3. ASSUME NEW entry \in Entry, entry.host = HostOf[url[j]], held'[j] = {entry.limiter},
                 entry.limiter \notin LimitersIn(table),
                 \A d \in Caller : entry.limiter \notin held[d] \union target[d],
                 ToSet(table') = ToSet(Kept) \union {entry},
                 evicted' = Gone(LimitersIn(table) \ LimitersIn(Kept))
          PROVE  HeldIsShared' /\ OneHost'
      BY <1>1, <1>2, <1>3, <2>3, TableGrows DEF LimiterInv
    <2> QED
      BY <1>2, <2>1, <2>2, <2>3
  <1>5. LimiterPlaces'
    BY <1>1, <1>2 DEF LimiterInv, LimiterPlaces, JobTypes
  <1> QED
    BY <1>2, <1>4, <1>5 DEF LimiterInv

\* Every answer has a delay.
LEMMA DelayType ==
  ASSUME JobTypes, NEW j \in Caller, NEW answer \in permission[j]
  PROVE  answer.delay \in Nat
  BY DEF JobTypes, RobotsTypeOK, Permission

LEMMA GateDelayStep ==
  ASSUME JobTypes, LimiterInv, NEW j \in Caller, GateDelay(j)
  PROVE  LimiterInv'
  <1>1. /\ at[j] = "delay" /\ UNCHANGED url /\ HostOf[url[j]] \in Host
        /\ at' = [at EXCEPT ![j] = IF tightening'[j] = "no" THEN "wait" ELSE "delay"]
        /\ tightening[j] = "no" => target[j] = {}
    BY KeyType DEF GateDelay, Goto, LimiterInv, LimiterPlaces, JobTypes
  <1>2. PICK answer \in permission[j] : ApplyCrawlDelay(j, HostOf[url[j]], answer.delay)
    BY DEF GateDelay
  <1>3. answer.delay \in Nat
    BY DelayType
  <1>4. /\ TableInv' /\ UNCHANGED <<table, held, taking, evicted>>
        /\ \A d \in Caller \ {j} : target'[d] = target[d] /\ tightening'[d] = tightening[d]
        /\ tightening'[j] = "no" => target'[j] = {}
        /\ target'[j] \subseteq target[j] \union LimitersOf(HostOf[url[j]])
    BY <1>1, <1>2, <1>3, TightenStep DEF LimiterInv
  <1>5. held' \in [Caller -> SUBSET Limiter] /\ target' \in [Caller -> SUBSET Limiter]
    BY <1>4 DEF TableInv, LimitersTypeOK
  <1>6. HeldIsShared' /\ OneHost'
    BY <1>1, <1>4, <1>5, TableStays DEF LimiterInv
  <1>7. LimiterPlaces'
    BY <1>1, <1>4 DEF LimiterInv, LimiterPlaces, JobTypes
  <1> QED
    BY <1>4, <1>6, <1>7 DEF LimiterInv

LEMMA LeaveGateStep ==
  ASSUME JobTypes, LimiterInv, NEW j \in Caller, at[j] = "wait", LeaveGate(j), UNCHANGED url,
         NEW place, place # "delay", at' = [at EXCEPT ![j] = place]
  PROVE  LimiterInv'
  <1>1. /\ held' = [held EXCEPT ![j] = {}]
        /\ evicted' = evicted \intersect UNION {held[k] : k \in Caller \ {j}}
        /\ UNCHANGED <<table, interval, burst, taking, tightening, target, cleanups>>
    BY DEF LeaveGate
  <1>2. held \in [Caller -> SUBSET Limiter]
    BY DEF LimiterInv, TableInv, LimitersTypeOK
  <1>3. TableInv'
    <2>1. LimitersTypeOK'
      BY <1>1 DEF LimiterInv, TableInv, LimitersTypeOK
    <2> QED
      BY <1>1, <1>2, <2>1 DEF LimiterInv, TableInv, OneEntry, Singles
  <1>4. held' \in [Caller -> SUBSET Limiter] /\ target' \in [Caller -> SUBSET Limiter]
    BY <1>3 DEF TableInv, LimitersTypeOK
  <1>5. \A k \in Caller : \A l \in held'[k] : l \in evicted => l \in evicted'
    BY <1>1, <1>2
  <1>6. HeldIsShared' /\ OneHost'
    BY <1>1, <1>2, <1>4, <1>5, TableStays DEF LimiterInv
  <1>7. LimiterPlaces'
    BY <1>1, <1>2 DEF LimiterInv, LimiterPlaces, JobTypes
  <1> QED
    BY <1>3, <1>6, <1>7 DEF LimiterInv

LEMMA LimiterStep == JobTypes /\ LimiterInv /\ [Next]_vars => LimiterInv'
  <1> SUFFICES ASSUME JobTypes, LimiterInv, [Next]_vars PROVE LimiterInv'
    OBVIOUS
  <1>1. ASSUME UNCHANGED limiterVars, LimiterPlaces', HeldIsShared', OneHost' PROVE LimiterInv'
    BY <1>1 DEF limiterVars, LimiterInv, TableInv, LimitersTypeOK, OneEntry, Singles
  <1>2. ASSUME NEW j \in Caller, GateRobots(j) PROVE LimiterInv'
    <2>1. /\ at[j] = "robots" /\ UNCHANGED <<limiterVars, url>>
          /\ \E place \in {"robots", "done", "wait", "delay"} : at' = [at EXCEPT ![j] = place]
      BY <1>2 DEF GateRobots, Verdict, Goto, End, JobTypes
    <2>2. LimiterPlaces'
      BY <2>1 DEF LimiterInv, LimiterPlaces, limiterVars, JobTypes
    <2> QED
      BY <1>1, <2>1, <2>2
         DEF LimiterInv, HeldIsShared, OneHost, LimitersOf, Entries, limiterVars
  <1>3. ASSUME NEW j \in Caller, GateWait(j) PROVE LimiterInv'
    <2>1. /\ at[j] = "wait" /\ LeaveGate(j) /\ UNCHANGED url
          /\ \E place \in {"limiter", "send", "done"} : at' = [at EXCEPT ![j] = place]
      BY <1>3 DEF GateWait, Goto, End
    <2> QED
      BY <2>1, LeaveGateStep
  <1>4. ASSUME NEW j \in Caller, Send(j) PROVE LimiterInv'
    <2>1. at[j] = "send" /\ UNCHANGED limiterVars
      BY <1>4 DEF Send
    <2>2. \/ UNCHANGED <<at, url>>
          \/ /\ \E place \in {"limiter", "done"} : at' = [at EXCEPT ![j] = place]
             /\ UNCHANGED url \/ \E next \in URL : url' = [url EXCEPT ![j] = next]
      BY <1>4, FetcherAssumption
         DEF Send, Retry, Follow, Conclude, Goto, End, HopPlace, JobTypes
    <2>3. LimiterPlaces'
      BY <2>1, <2>2 DEF LimiterInv, LimiterPlaces, limiterVars, JobTypes
    <2>4. held[j] = {} /\ target[j] = {}
      BY <2>1 DEF LimiterInv, LimiterPlaces
    <2>5. \A k \in Caller \ {j} : url'[k] = url[k]
      BY <2>2 DEF JobTypes
    <2>6. HeldIsShared'
      BY <2>1, <2>4, <2>5 DEF LimiterInv, HeldIsShared, LimitersOf, Entries, limiterVars
    <2>7. OneHost'
      BY <2>1, <2>4, <2>5 DEF LimiterInv, OneHost, limiterVars
    <2> QED
      BY <1>1, <2>1, <2>3, <2>6, <2>7
  <1>5. CASE CleanupTick
    <2>1. UNCHANGED <<at, url>> /\ Cleanup
      BY <1>5 DEF CleanupTick, fetchVars
    <2>2. /\ TableInv' /\ UNCHANGED <<interval, held, taking, tightening, target>>
          /\ \E gone \in SUBSET Entry :
                /\ ToSet(table) = ToSet(table') \union gone
                /\ evicted' = Gone({entry.limiter : entry \in gone})
      BY <2>1, CleanupStep DEF LimiterInv
    <2>3. HeldIsShared'
      BY <2>1, <2>2 DEF LimiterInv, HeldIsShared, LimitersOf, Entries, Gone
    <2>4. OneHost' /\ LimiterPlaces'
      BY <2>1, <2>2 DEF LimiterInv, OneHost, LimiterPlaces
    <2> QED
      BY <2>2, <2>3, <2>4 DEF LimiterInv
  <1>6. CASE UNCHANGED <<limiterVars, at, url>>
    BY <1>1, <1>6 DEF LimiterInv, LimiterPlaces, HeldIsShared, OneHost, LimitersOf, Entries,
       limiterVars
  <1> QED
    BY GateLimiterStep, GateDelayStep, <1>2, <1>3, <1>4, <1>5, <1>6
       DEF Next, Job, AllDone, CancelAll, ExpireEntry, fetchVars, vars

LEMMA LimiterInvariant == Spec => [](JobTypes /\ CacheServed /\ Stations /\ LimiterInv)
  BY LimiterInit, LimiterStep, GateInvariant, PTL DEF Spec

\* The variables keep their types, those of the table of limiters among them.
THEOREM FetchTypeCorrect == Spec => []FTypeOK
  <1>1. JobTypes /\ LimiterInv => FTypeOK
    BY DEF JobTypes, LimiterInv, TableInv, FTypeOK
  <1> QED
    BY <1>1, LimiterInvariant, PTL

\* The table of limiters stays within its cap, however many hosts are looked up
\* and whoever inserts between another's two looks.
THEOREM TableBoundHolds == Spec => []TableBound
  <1>1. LimiterInv => TableBound
    BY DEF LimiterInv, TableInv, TableBound
  <1> QED
    BY <1>1, LimiterInvariant, PTL

\* The limiter somebody holds is the one the table has for that host, which all
\* others get, unless it was evicted or cleaned up while it was held.
THEOREM HeldIsSharedHolds == Spec => []HeldIsShared
  <1>1. LimiterInv => HeldIsShared
    BY DEF LimiterInv
  <1> QED
    BY <1>1, LimiterInvariant, PTL

-----------------------------------------------------------------------------
(* Crawl delays *)

\* All copies of the robots.txt of a name ask for the same delay.
SameDelay ==
    \A g, h \in Host : NameOf[g] = NameOf[h] =>
        \A rules \in Served[g], others \in Served[h] : rules.delay = others.delay

\* A caller has answers about its own URL, all of them rules or none.
Answered ==
    \A j \in Caller : Uniform(permission[j])
                      /\ \A answer \in permission[j] : Judged(url[j], answer)

\* How far a caller is with the delays it was told: what it holds is the limiter
\* that it tightens, or evicted.
Tight(j, answer) ==
    /\ tightening[j] # "no" => answer.delay > 0 /\ held[j] \subseteq target[j] \union evicted
    /\ tightening[j] = "burst" => \A l \in target[j] : interval[l] >= answer.delay
    /\ at[j] = "wait" => \A l \in held[j] : l \in evicted \/ interval[l] >= answer.delay
Tightened == \A j \in Caller : \A answer \in permission[j] : Tight(j, answer)

\* Two answers about URLs of one host differ at most in that there are no rules.
LEMMA OneDelay ==
  ASSUME SameDelay, NEW u \in URL, NEW v \in URL, HostOf[u] = HostOf[v],
         NEW answer, Judged(u, answer), NEW other, Judged(v, other),
         answer.delay > 0
  PROVE  other.delay <= answer.delay
  <1>1. PICK host \in Host : \E rules \in Served[host] :
           NameOf[host] = KeyOf(u) /\ answer.delay = rules.delay
    <2>1. answer # Unavailable
      BY DEF Unavailable
    <2> QED
      BY <2>1 DEF Judged, Judge
  <1>2. answer.delay \in Nat /\ other.delay \in Nat
    BY JudgeType DEF Permission
  <1>3. CASE other = Unavailable
    BY <1>2, <1>3 DEF Unavailable
  <1>4. ASSUME NEW h \in Host, NEW rules \in Served[h], NameOf[h] = KeyOf(v),
               other = Judge(rules, v)
        PROVE  other.delay = answer.delay
    BY <1>1, <1>4 DEF SameDelay, KeyOf, Judge
  <1> QED
    BY <1>2, <1>3, <1>4 DEF Judged

\* Answers that come together agree.
LEMMA AnswersAgree ==
  ASSUME SameDelay, JobTypes, Answered, NEW j \in Caller,
         NEW answer \in permission[j], NEW other \in permission[j]
  PROVE  answer.delay \in Nat /\ answer.delay = other.delay
  <1>1. /\ url[j] \in URL /\ Judged(url[j], answer) /\ Judged(url[j], other)
        /\ answer.delay \in Nat /\ other.delay \in Nat
    BY DelayType DEF JobTypes, Answered
  <1>2. CASE answer = Unavailable \/ other = Unavailable
    BY <1>1, <1>2 DEF Answered, Uniform
  <1>3. CASE answer # Unavailable /\ other # Unavailable
    <2>1. PICK g \in Host : \E rules \in Served[g] :
             NameOf[g] = KeyOf(url[j]) /\ answer.delay = rules.delay
      BY <1>1, <1>3 DEF Judged, Judge
    <2>2. PICK h \in Host : \E rules \in Served[h] :
             NameOf[h] = KeyOf(url[j]) /\ other.delay = rules.delay
      BY <1>1, <1>3 DEF Judged, Judge
    <2> QED
      BY <1>1, <2>1, <2>2 DEF SameDelay
  <1> QED
    BY <1>2, <1>3

LEMMA AnsweredStep ==
  JobTypes /\ CacheServed /\ Stations /\ Answered /\ [Next]_vars => Answered'
  <1> SUFFICES ASSUME JobTypes, CacheServed, Stations, Answered, [Next]_vars PROVE Answered'
    OBVIOUS
  <1> USE DEF Answered
  <1>1. ASSUME NEW j \in Caller, GateRobots(j) PROVE Answered'
    <2>1. \/ UNCHANGED permission
          \/ \E answers \in SUBSET Permission :
                /\ permission' = [permission EXCEPT ![j] = answers]
                /\ Uniform(answers) /\ \A answer \in answers : Judged(url[j], answer)
      BY <1>1, IsAllowedStep DEF GateRobots, JobTypes
    <2> QED
      BY <1>1, <2>1 DEF GateRobots, JobTypes, RobotsTypeOK
  <1>2. ASSUME NEW j \in Caller, GateWait(j) PROVE Answered'
    BY <1>2 DEF GateWait, LeaveGate, Uniform, JobTypes, RobotsTypeOK
  <1>3. ASSUME NEW j \in Caller, Send(j) PROVE Answered'
    <2>1. permission[j] = {} /\ UNCHANGED permission
      BY <1>3 DEF Send, Stations, robotsVars
    <2>2. UNCHANGED url \/ \E next : url' = [url EXCEPT ![j] = next]
      BY <1>3 DEF Send, Retry, Follow, Conclude
    <2> QED
      BY <2>1, <2>2 DEF JobTypes
  <1>4. CASE UNCHANGED <<permission, url>>
    BY <1>4
  <1> QED
    BY <1>1, <1>2, <1>3, <1>4
       DEF Next, Job, AllDone, GateLimiter, GateDelay, CancelAll, ExpireEntry, Expire,
       CleanupTick, robotsVars, fetchVars, vars

\* A caller stays where it is with its delays while the others act, unless
\* a limiter of its own gets faster.
LEMMA TightStays ==
  ASSUME NEW k \in Caller, \A answer \in permission[k] : Tight(k, answer),
         UNCHANGED <<permission[k], held[k], target[k], tightening[k], at[k]>>,
         \A l \in held[k] : l \in evicted => l \in evicted',
         \A l \in held[k] \union target[k] :
            \/ interval'[l] = interval[l]
            \/ \A answer \in permission[k] : interval'[l] >= answer.delay
  PROVE  \A answer \in permission'[k] : Tight(k, answer)'
  BY DEF Tight

LEMMA TightInit == Init => Answered /\ Tightened
  BY DEF Init, RobotsInit, Answered, Tightened, Uniform

LEMMA TightGateDelay ==
  ASSUME SameDelay, JobTypes, LimiterInv, Answered, Tightened, NEW j \in Caller, GateDelay(j)
  PROVE  Tightened'
  <1>1. /\ at[j] = "delay" /\ UNCHANGED <<permission, url>> /\ url[j] \in URL
        /\ at' = [at EXCEPT ![j] = IF tightening'[j] = "no" THEN "wait" ELSE "delay"]
    BY DEF GateDelay, Goto, robotsVars, JobTypes
  <1>2. PICK answer \in permission[j] : ApplyCrawlDelay(j, HostOf[url[j]], answer.delay)
    BY DEF GateDelay
  <1>3. /\ interval \in [Limiter -> Nat] /\ held \in [Caller -> SUBSET Limiter]
        /\ target \in [Caller -> SUBSET Limiter] /\ Singles(target)
        /\ tightening \in [Caller -> {"no", "compare", "limit", "burst"}]
    BY DEF LimiterInv, TableInv, LimitersTypeOK
  <1>4. answer.delay \in Nat /\ \A other \in permission[j] : other.delay = answer.delay
    BY AnswersAgree
  <1>5. UNCHANGED <<held, evicted>>
    BY <1>2 DEF ApplyCrawlDelay, FindTarget, NoTarget, CompareLimit, SetLimit, SetBurst, limiterVars
  <1>6. ASSUME NEW k \in Caller \ {j} PROVE \A other \in permission'[k] : Tight(k, other)'
    <2>1. UNCHANGED <<permission[k], held[k], target[k], tightening[k], at[k]>>
      <3>1. target'[k] = target[k] /\ tightening'[k] = tightening[k]
        BY <1>2, <1>3
           DEF ApplyCrawlDelay, FindTarget, NoTarget, CompareLimit, SetLimit, SetBurst, limiterVars
      <3> QED
        BY <1>1, <1>5, <3>1 DEF JobTypes
    <2>2. ASSUME NEW l \in held[k] \union target[k]
          PROVE  \/ interval'[l] = interval[l]
                 \/ \A other \in permission[k] : interval'[l] >= other.delay
      <3>1. CASE UNCHANGED interval
        BY <3>1
      <3>2. CASE SetLimit(j, answer.delay) /\ l \notin target[j]
        BY <1>3, <3>2 DEF SetLimit
      <3>3. CASE SetLimit(j, answer.delay) /\ l \in target[j]
        <4>1. HostOf[url[k]] = HostOf[url[j]] /\ url[k] \in URL
          BY <3>3 DEF LimiterInv, OneHost, JobTypes
        <4>2. answer.delay > 0
          BY <3>3 DEF SetLimit, Tightened, Tight
        <4>3. interval'[l] = answer.delay
          BY <1>3, <3>3 DEF SetLimit
        <4>4. ASSUME NEW other \in permission[k] PROVE other.delay <= answer.delay
          <5>1. Judged(url[j], answer) /\ Judged(url[k], other)
            BY DEF Answered
          <5> QED
            BY <1>1, <4>1, <4>2, <5>1, OneDelay
        <4>5. \A other \in permission[k] : other.delay \in Nat
          BY DelayType
        <4> QED
          BY <1>4, <4>3, <4>4, <4>5
      <3> QED
        BY <1>2, <3>1, <3>2, <3>3
           DEF ApplyCrawlDelay, FindTarget, NoTarget, CompareLimit, SetBurst, limiterVars
    <2> QED
      BY <1>5, <2>1, <2>2, TightStays DEF Tightened
  <1>7. Tight(j, answer)
    BY DEF Tightened
  <1>8. held[j] \subseteq LimitersOf(HostOf[url[j]]) \union evicted
    BY DEF LimiterInv, HeldIsShared
  <1>9. \A l \in held[j] \union target[j] : l \in Limiter /\ interval[l] \in Nat
    BY <1>3
  <1>10. Tight(j, answer)'
    <2>1. CASE FindTarget(j, HostOf[url[j]], answer.delay)
      <3>1. target'[j] = LimitersOf(HostOf[url[j]]) /\ tightening'[j] = "compare" /\ answer.delay > 0
        BY <1>3, <2>1 DEF FindTarget
      <3> QED
        BY <1>1, <1>5, <1>8, <3>1 DEF Tight, JobTypes
    <2>2. CASE NoTarget(j, HostOf[url[j]], answer.delay)
      <3>1. tightening'[j] = "no" /\ UNCHANGED interval
        BY <2>2 DEF NoTarget, limiterVars
      <3>2. answer.delay <= 0 \/ held[j] \subseteq evicted
        BY <1>8, <2>2 DEF NoTarget, LimitersOf
      <3> QED
        BY <1>4, <1>5, <1>9, <3>1, <3>2 DEF Tight
    <2>3. CASE CompareLimit(j, answer.delay)
      <3>1. UNCHANGED interval /\ tightening[j] = "compare"
        BY <2>3 DEF CompareLimit
      <3>2. PICK l \in target[j] :
               \/ tightening' = [tightening EXCEPT ![j] = "limit"] /\ UNCHANGED target
               \/ /\ ~FasterThan(l, answer.delay)
                  /\ tightening' = [tightening EXCEPT ![j] = "no"]
        BY <2>3 DEF CompareLimit
      <3>3. held[j] \subseteq {l} \union evicted
        BY <1>3, <1>7, <3>1, <3>2 DEF Tight, Singles
      <3>4. CASE tightening' = [tightening EXCEPT ![j] = "limit"] /\ UNCHANGED target
        BY <1>1, <1>3, <1>5, <1>7, <3>1, <3>4 DEF Tight, JobTypes
      <3>5. CASE ~FasterThan(l, answer.delay) /\ tightening' = [tightening EXCEPT ![j] = "no"]
        <4>1. interval[l] >= answer.delay
          BY <1>4, <1>9, <3>5 DEF FasterThan
        <4> QED
          BY <1>3, <1>5, <3>1, <3>3, <3>5, <4>1 DEF Tight
      <3> QED
        BY <3>2, <3>4, <3>5
    <2>4. CASE SetLimit(j, answer.delay)
      <3>1. /\ tightening'[j] = "burst" /\ tightening[j] = "limit" /\ UNCHANGED target
            /\ \A l \in target[j] : interval'[l] = answer.delay
        BY <1>3, <2>4 DEF SetLimit
      <3> QED
        BY <1>1, <1>4, <1>5, <1>7, <3>1 DEF Tight, JobTypes
    <2>5. CASE SetBurst(j)
      <3>1. tightening'[j] = "no" /\ tightening[j] = "burst" /\ UNCHANGED interval
        BY <1>3, <2>5 DEF SetBurst
      <3> QED
        BY <1>5, <1>7, <3>1 DEF Tight
    <2> QED
      BY <1>2, <2>1, <2>2, <2>3, <2>4, <2>5 DEF ApplyCrawlDelay
  <1>11. ASSUME NEW other \in permission'[j] PROVE Tight(j, other)'
    <2>1. other.delay = answer.delay
      BY <1>1, <1>4
    <2> QED
      BY <1>10, <2>1 DEF Tight
  <1> QED
    BY <1>6, <1>11 DEF Tightened

LEMMA TightGateLimiter ==
  ASSUME JobTypes, LimiterInv, Stations, Tightened, NEW j \in Caller, GateLimiter(j)
  PROVE  Tightened'
  <1>1. /\ at[j] = "limiter" /\ held[j] = {} /\ target[j] = {} /\ tightening[j] = "no"
        /\ permission[j] = {} /\ UNCHANGED permission /\ HostOf[url[j]] \in Host
        /\ at' = [at EXCEPT ![j] = IF held'[j] = {} THEN "limiter" ELSE "robots"]
    BY KeyType DEF GateLimiter, Goto, LimiterInv, LimiterPlaces, JobTypes, Stations, robotsVars
  <1>2. /\ TableInv' /\ UNCHANGED <<tightening, target>>
        /\ \A d \in Caller \ {j} : held'[d] = held[d] /\ taking'[d] = taking[d]
        /\ \/ UNCHANGED <<table, held, interval, evicted>>
           \/ /\ taking'[j] = "no"
              /\ \E entry \in Entries(HostOf[url[j]]) :
                    /\ held'[j] = {entry.limiter} /\ ToSet(table') = ToSet(table)
                    /\ UNCHANGED <<interval, evicted>>
           \/ /\ taking'[j] = "no"
              /\ \E entry \in Entry :
                    /\ entry.host = HostOf[url[j]] /\ held'[j] = {entry.limiter}
                    /\ entry.limiter \notin LimitersIn(table)
                    /\ \A d \in Caller : entry.limiter \notin held[d] \union target[d]
                    /\ ToSet(table') = ToSet(Kept) \union {entry}
                    /\ interval' = [interval EXCEPT ![entry.limiter] = HostInterval]
                    /\ evicted' = Gone(LimitersIn(table) \ LimitersIn(Kept))
    BY <1>1, GetStep DEF GateLimiter, LimiterInv
  <1>3. evicted \subseteq evicted'
    BY <1>2 DEF Gone
  <1>4. interval \in [Limiter -> Nat] /\ held \in [Caller -> SUBSET Limiter]
        /\ target \in [Caller -> SUBSET Limiter]
    BY DEF LimiterInv, TableInv, LimitersTypeOK
  <1>5. \A k \in Caller : \A l \in held[k] \union target[k] : interval'[l] = interval[l]
    BY <1>2, <1>4
  <1>6. ASSUME NEW k \in Caller \ {j} PROVE \A answer \in permission'[k] : Tight(k, answer)'
    <2>1. UNCHANGED <<permission[k], held[k], target[k], tightening[k], at[k]>>
      BY <1>1, <1>2 DEF JobTypes
    <2> QED
      BY <1>3, <1>5, <2>1, TightStays DEF Tightened
  <1> QED
    BY <1>1, <1>6 DEF Tightened

LEMMA TightGateRobots ==
  ASSUME JobTypes, CacheServed, Stations, LimiterInv, Tightened, Answered', NEW j \in Caller,
         GateRobots(j)
  PROVE  Tightened'
  <1>1. /\ at[j] = "robots" /\ permission[j] = {} /\ tightening[j] = "no" /\ url[j] \in URL
        /\ UNCHANGED limiterVars /\ Verdict(j, permission'[j]) /\ UNCHANGED url
    BY DEF GateRobots, Stations, LimiterInv, LimiterPlaces, JobTypes
  <1>2. \A k \in Caller \ {j} : at'[k] = at[k] /\ permission'[k] = permission[k]
    BY <1>1, GateRobotsStep DEF JobTypes
  <1>3. ASSUME NEW k \in Caller \ {j} PROVE \A answer \in permission'[k] : Tight(k, answer)'
    <2>1. UNCHANGED <<permission[k], held[k], target[k], tightening[k], at[k]>>
          /\ UNCHANGED <<evicted, interval>>
      BY <1>1, <1>2 DEF limiterVars
    <2> QED
      BY <2>1, TightStays DEF Tightened
  <1>4. ASSUME NEW answer \in permission'[j], at'[j] = "wait" PROVE answer.delay = 0
    <2>1. PICK other \in permission'[j] : other.verdict = "error"
      BY <1>1, <1>4 DEF Verdict, End, Goto, JobTypes
    <2>2. Uniform(permission'[j]) /\ Judged(url[j], other)
      BY <1>1, <2>1 DEF Answered
    <2>3. other = Unavailable
      BY <2>1, <2>2 DEF Judged, Judge
    <2>4. answer = Unavailable
      BY <1>4, <2>1, <2>2, <2>3 DEF Uniform
    <2> QED
      BY <2>4 DEF Unavailable
  <1>5. ASSUME NEW answer \in permission'[j] PROVE Tight(j, answer)'
    <2>1. \A l \in held[j] : interval[l] >= 0
      BY DEF LimiterInv, TableInv, LimitersTypeOK
    <2> QED
      BY <1>1, <1>4, <2>1 DEF Tight, limiterVars
  <1> QED
    BY <1>3, <1>5 DEF Tightened

LEMMA TightenedStep ==
  ASSUME SameDelay
  PROVE  JobTypes /\ CacheServed /\ Stations /\ LimiterInv /\ Answered /\ Tightened
            /\ [Next]_vars => (Answered /\ Tightened)'
  <1> SUFFICES ASSUME JobTypes, CacheServed, Stations, LimiterInv, Answered, Tightened,
                      [Next]_vars
               PROVE  (Answered /\ Tightened)'
    OBVIOUS
  <1>1. Answered'
    BY AnsweredStep
  <1>2. ASSUME NEW j \in Caller, GateWait(j) PROVE Tightened'
    <2>1. /\ at[j] = "wait" /\ LeaveGate(j)
          /\ \E place : at' = [at EXCEPT ![j] = place]
      BY <1>2 DEF GateWait, Goto, End
    <2>2. permission \in [Caller -> SUBSET Permission] /\ held \in [Caller -> SUBSET Limiter]
      BY DEF JobTypes, RobotsTypeOK, LimiterInv, TableInv, LimitersTypeOK
    <2>3. permission'[j] = {}
      BY <2>1, <2>2 DEF LeaveGate
    <2>4. ASSUME NEW k \in Caller \ {j} PROVE \A answer \in permission'[k] : Tight(k, answer)'
      <3>1. UNCHANGED <<permission[k], held[k], target[k], tightening[k], at[k]>>
            /\ UNCHANGED interval /\ \A l \in held[k] : l \in evicted => l \in evicted'
        BY <2>1, <2>2 DEF LeaveGate, JobTypes
      <3> QED
        BY <3>1, TightStays DEF Tightened
    <2> QED
      BY <2>3, <2>4 DEF Tightened
  <1>3. ASSUME NEW j \in Caller, Send(j) PROVE Tightened'
    <2>1. /\ at[j] = "send" /\ permission[j] = {} /\ UNCHANGED <<robotsVars, limiterVars>>
          /\ UNCHANGED at \/ \E place : at' = [at EXCEPT ![j] = place]
      BY <1>3 DEF Send, Retry, Follow, Conclude, Goto, End, Stations
    <2> QED
      BY <2>1 DEF Tightened, Tight, JobTypes, robotsVars, limiterVars
  <1>4. ASSUME CleanupTick PROVE Tightened'
    <2>1. UNCHANGED <<at, permission>> /\ Cleanup
      BY <1>4 DEF CleanupTick, fetchVars, robotsVars
    <2>2. UNCHANGED <<interval, held, taking, tightening, target>> /\ evicted \subseteq evicted'
      BY <2>1 DEF Cleanup, Gone
    <2> QED
      BY <2>1, <2>2 DEF Tightened, Tight
  <1>5. ASSUME UNCHANGED <<at, permission, limiterVars>> PROVE Tightened'
    BY <1>5 DEF Tightened, Tight, limiterVars
  <1> QED
    BY TightGateLimiter, TightGateRobots, TightGateDelay, <1>1, <1>2, <1>3, <1>4, <1>5
       DEF Next, Job, AllDone, CancelAll, ExpireEntry, Expire, robotsVars, fetchVars, vars

\* Where all copies of the robots.txt of a name ask for the same delay, whoever
\* waits for its limiter after applying that delay waits on one as slow, unless it
\* was evicted, although others look up, create, evict and tighten between the
\* comparison, SetLimit and SetBurst.
THEOREM DelayHonouredHolds ==
  ASSUME SameDelay PROVE Spec => []DelayHonoured
  <1>1. Tightened => DelayHonoured
    BY DEF Tightened, Tight, DelayHonoured
  <1> QED
    BY <1>1, TightInit, TightenedStep, LimiterInvariant, PTL DEF Spec

-----------------------------------------------------------------------------
(* Headless *)

-----------------------------------------------------------------------------
(* Types, as far as they are needed *)

Governing == {"limiter", "robots", "delay", "wait"}

HTypes ==
    /\ RobotsTypeOK /\ CacheServed
    /\ page \in Pages /\ page \in [Request -> PageRequest]
    /\ page[Nav].type = "document" /\ page[Nav].url = Start[Top]
    /\ url \in [Caller -> URL]
    /\ DOMAIN at = Caller /\ DOMAIN outcome = Caller /\ DOMAIN last = Caller
    /\ unchecked \in [Caller -> BOOLEAN]
    /\ firstDoc \in BOOLEAN
    /\ subCount \in Nat
    /\ tab \in {"unopened", "open", "closed"}
    \* A request keeps its URL.
    /\ \A c \in Request : url[c] = page[c].url
    \* Nobody has an answer before it has asked.
    /\ \A c \in Caller : permission[c] = {} \/ at[c] \in {"delay", "wait", "done"}

LEMMA Callers ==
  /\ Request \subseteq Caller /\ Top \in Caller /\ Top \notin Request /\ Nav \in Request
  /\ Nav \in Caller /\ Caller = Request \union {Top} /\ Start[Top] \in URL
  BY HeadlessAssumption, FetcherAssumption

LEMMA HTypesInit == HInit => HTypes
  <1> SUFFICES ASSUME HInit PROVE HTypes
    OBVIOUS
  <1>1. RobotsTypeOK /\ CacheServed
    <2>1. \A name \in Name : cache[name] = {} /\ Cardinality(cache[name]) = 0
      BY FS_EmptySet DEF HInit, RobotsInit
    <2> QED
      BY <2>1, RobotsAssumption DEF HInit, RobotsInit, RobotsTypeOK, CacheServed
  <1>2. /\ page \in Pages /\ page \in [Request -> PageRequest]
        /\ page[Nav].type = "document" /\ page[Nav].url = Start[Top]
    BY HeadlessAssumption DEF HInit
  <1>3. \A c \in Request : page[c].url \in URL
    BY <1>2 DEF PageRequest
  <1>4. url \in [Caller -> URL] /\ \A c \in Request : url[c] = page[c].url
    BY <1>3, Callers DEF HInit
  <1> QED
    BY <1>1, <1>2, <1>4 DEF HInit, RobotsInit, HTypes

\* What a gate does to its caller, the worker or the handler of a request.
LEMMA GateSteps ==
  ASSUME HTypes, NEW c \in Caller,
         GateLimiter(c) \/ GateRobots(c) \/ GateDelay(c)
  PROVE  /\ RobotsTypeOK' /\ CacheServed'
         /\ at[c] \in {"limiter", "robots", "delay"}
         /\ UNCHANGED <<url, last>>
         /\ DOMAIN at' = Caller /\ DOMAIN outcome' = Caller
         /\ unchecked' \in [Caller -> BOOLEAN]
         /\ \A d \in Caller \ {c} :
               /\ at'[d] = at[d] /\ outcome'[d] = outcome[d]
               /\ unchecked'[d] = unchecked[d] /\ permission'[d] = permission[d]
         /\ at'[c] \in Governing \union {"done"}
         /\ permission'[c] = {} \/ at'[c] \in {"delay", "wait", "done"}
         /\ outcome'[c] = outcome[c] \/ outcome'[c] \in {"failed", "refused"}
         /\ at'[c] \in {"delay", "wait"} /\ Alone(HostOf[url[c]]) /\ Forbidden(url[c]) =>
               (at[c] = "delay" /\ unchecked'[c] = unchecked[c]) \/ unchecked'[c]
  <1>1. CASE GateLimiter(c)
    <2>1. UNCHANGED <<robotsVars, url, outcome, unchecked, last>>
          /\ \E place \in {"limiter", "robots"} : at' = [at EXCEPT ![c] = place]
          /\ at[c] = "limiter"
      BY <1>1 DEF GateLimiter, Goto
    <2> QED
      BY <2>1 DEF HTypes, RobotsTypeOK, CacheServed, robotsVars, Governing
  <1>2. CASE GateDelay(c)
    <2>1. UNCHANGED <<robotsVars, url, outcome, unchecked, last>>
          /\ \E place \in {"delay", "wait"} : at' = [at EXCEPT ![c] = place]
          /\ at[c] = "delay"
      BY <1>2 DEF GateDelay, Goto
    <2> QED
      BY <2>1 DEF HTypes, RobotsTypeOK, CacheServed, robotsVars, Governing
  <1>3. CASE GateRobots(c)
    <2>1. /\ at[c] = "robots" /\ permission[c] = {} /\ url[c] \in URL
          /\ IsAllowed(c, url[c]) /\ Verdict(c, permission'[c]) /\ UNCHANGED <<url, last>>
      BY <1>3 DEF GateRobots, HTypes
    <2>2. RobotsTypeOK' /\ CacheServed'
      BY <2>1, IsAllowedStep DEF HTypes
    <2>3. /\ \A k \in Caller \ {c} : /\ at'[k] = at[k] /\ unchecked'[k] = unchecked[k]
                                     /\ permission'[k] = permission[k]
          /\ \/ at'[c] = "robots" /\ permission'[c] = {}
             \/ at'[c] = "done"
             \/ /\ at'[c] \in {"delay", "wait"}
                /\ Alone(HostOf[url[c]]) /\ Forbidden(url[c]) => unchecked'[c]
      BY <1>3, <2>1, GateRobotsStep DEF HTypes
    <2>4. /\ DOMAIN at' = Caller /\ DOMAIN outcome' = Caller
          /\ unchecked' \in [Caller -> BOOLEAN]
          /\ UNCHANGED outcome
             \/ \E result \in {"failed", "refused"} : outcome' = [outcome EXCEPT ![c] = result]
      BY <2>1 DEF Verdict, Goto, End, HTypes
    <2> QED
      BY <2>1, <2>2, <2>3, <2>4 DEF HTypes, Governing
  <1> QED
    BY <1>1, <1>2, <1>3

-----------------------------------------------------------------------------
(* The tab and its requests *)

\* A tab that is not open yet makes no requests, and until a first document has
\* passed the navigation is the only one it makes.
FirstOnly ==
    \A c \in Request :
        /\ tab = "unopened" => at[c] = "idle"
        /\ ~firstDoc => /\ last[c] = "none"
                        /\ at[c] = "idle" \/ (c = Nav /\ at[c] = "paused")

\* What is known of a request, not the navigation, that is let through.
LetThrough ==
    \A c \in Request \ {Nav} :
        /\ outcome[c] = "ok" => at[c] = "done"
        /\ page[c].network /\ Continued(c) => c \in governed
        /\ /\ at[c] \in {"delay", "wait", "send"} \/ outcome[c] = "ok"
           /\ page[c].network /\ Alone(HostOf[url[c]]) /\ Forbidden(url[c])
           => FirstParty(c) \/ unchecked[c]

\* The worker renders only while its tab is open, and what passed the gate.
TabOfTop ==
    LET safe(u) == Alone(HostOf[u]) /\ Forbidden(u) => unchecked[Top]
    IN  /\ tab = "open" => at[Top] = "render" /\ safe(Start[Top])
        /\ tab = "unopened" => url[Top] = Start[Top]
        /\ at[Top] \in {"delay", "wait", "send"} => safe(url[Top])

HInv == HTypes /\ FirstOnly /\ LetThrough /\ TabOfTop

LEMMA HInvInit == HInit => HInv
  BY HTypesInit, Callers DEF HInit, FirstOnly, LetThrough, TabOfTop, HInv, Continued

\* The gate of the worker.
LEMMA TopGateStep ==
  ASSUME HInv, GateLimiter(Top) \/ GateRobots(Top) \/ GateDelay(Top), UNCHANGED <<page, tabVars>>
  PROVE  HInv'
  <1>1. /\ RobotsTypeOK' /\ CacheServed'
        /\ at[Top] \in {"limiter", "robots", "delay"}
        /\ UNCHANGED <<url, last>>
        /\ DOMAIN at' = Caller /\ DOMAIN outcome' = Caller
        /\ unchecked' \in [Caller -> BOOLEAN]
        /\ \A d \in Caller \ {Top} :
              /\ at'[d] = at[d] /\ outcome'[d] = outcome[d]
              /\ unchecked'[d] = unchecked[d] /\ permission'[d] = permission[d]
        /\ at'[Top] \in Governing \union {"done"}
        /\ permission'[Top] = {} \/ at'[Top] \in {"delay", "wait", "done"}
        /\ at'[Top] \in {"delay", "wait"} /\ Alone(HostOf[url[Top]]) /\ Forbidden(url[Top]) =>
              (at[Top] = "delay" /\ unchecked'[Top] = unchecked[Top]) \/ unchecked'[Top]
    BY GateSteps, Callers DEF HInv
  <1>2. HTypes'
    BY <1>1, Callers DEF HInv, HTypes, tabVars
  <1>3. FirstOnly' /\ LetThrough'
    BY <1>1, Callers DEF HInv, FirstOnly, LetThrough, Continued, FirstParty, tabVars
  <1>4. TabOfTop'
    BY <1>1, Callers DEF HInv, TabOfTop, tabVars, Governing
  <1> QED
    BY <1>2, <1>3, <1>4 DEF HInv

\* The end of a wait, for whomever: only the answer goes.
LEMMA WaitEnds ==
  ASSUME HTypes, NEW c \in Caller, LeaveGate(c)
  PROVE  /\ RobotsTypeOK' /\ CacheServed' /\ permission'[c] = {}
         /\ \A d \in Caller \ {c} : permission'[d] = permission[d]
  BY DEF LeaveGate, HTypes, RobotsTypeOK, CacheServed

LEMMA TopWaitStep ==
  ASSUME HInv, GateWait(Top), UNCHANGED <<page, tabVars>>
  PROVE  HInv'
  <1>1. /\ at[Top] = "wait" /\ LeaveGate(Top) /\ UNCHANGED <<url, unchecked, last>>
        /\ \E place \in {"limiter", "send", "done"} : at' = [at EXCEPT ![Top] = place]
        /\ UNCHANGED outcome \/ \E result : outcome' = [outcome EXCEPT ![Top] = result]
    BY DEF GateWait, Goto, End
  <1>2. /\ RobotsTypeOK' /\ CacheServed' /\ permission'[Top] = {}
        /\ \A d \in Caller \ {Top} : permission'[d] = permission[d]
    BY <1>1, WaitEnds, Callers DEF HInv
  <1>3. HTypes'
    BY <1>1, <1>2, Callers DEF HInv, HTypes, tabVars
  <1>4. FirstOnly' /\ LetThrough'
    BY <1>1, Callers DEF HInv, HTypes, FirstOnly, LetThrough, Continued, FirstParty, tabVars
  <1>5. TabOfTop'
    BY <1>1, Callers DEF HInv, HTypes, TabOfTop, tabVars
  <1> QED
    BY <1>3, <1>4, <1>5 DEF HInv

LEMMA NavigateStep ==
  ASSUME HInv, Navigate
  PROVE  HInv'
  <1>1. /\ at[Top] = "send" /\ tab = "unopened" /\ tab' = "open"
        /\ at' = [at EXCEPT ![Top] = "render", ![Nav] = "paused"]
        /\ UNCHANGED <<robotsVars, url, outcome, unchecked, last, page, firstDoc, subCount, governed>>
    BY DEF Navigate, gateVars
  <1>2. DOMAIN at' = Caller /\ at'[Top] = "render" /\ at'[Nav] = "paused"
        /\ \A c \in Request \ {Nav} : at'[c] = at[c]
    BY <1>1, Callers DEF HInv, HTypes
  <1>3. HTypes'
    BY <1>1, <1>2, Callers DEF HInv, HTypes, FirstOnly, RobotsTypeOK, CacheServed, robotsVars
  <1>4. FirstOnly' /\ LetThrough' /\ TabOfTop'
    BY <1>1, <1>2, Callers DEF HInv, FirstOnly, LetThrough, TabOfTop, Continued, FirstParty
  <1> QED
    BY <1>3, <1>4 DEF HInv

\* The worker renders no more.
LEMMA CloseStep ==
  ASSUME HInv, at[Top] = "render", CloseTab, NEW place \in {"limiter", "done"},
         at' = [at EXCEPT ![Top] = place],
         UNCHANGED outcome \/ \E result : outcome' = [outcome EXCEPT ![Top] = result]
  PROVE  HInv'
  <1>1. /\ tab' = "closed"
        /\ UNCHANGED <<robotsVars, url, unchecked, last, page, firstDoc, subCount, governed>>
    BY DEF CloseTab, gateVars
  <1>2. HTypes'
    BY <1>1, Callers DEF HInv, HTypes, RobotsTypeOK, CacheServed, robotsVars
  <1>3. FirstOnly' /\ LetThrough' /\ TabOfTop'
    BY <1>1, Callers DEF HInv, HTypes, FirstOnly, LetThrough, TabOfTop, Continued, FirstParty
  <1> QED
    BY <1>2, <1>3 DEF HInv

LEMMA FallBackStep ==
  ASSUME HInv, FallBack
  PROVE  HInv'
  <1>1. tab = "closed" /\ Send(Top) /\ UNCHANGED <<page, tabVars>> /\ at[Top] = "send"
        /\ UNCHANGED <<robotsVars, unchecked>> /\ url[Top] \in URL
    BY Callers DEF FallBack, Send, HInv, HTypes
  <1>2. /\ UNCHANGED at \/ \E place \in {"limiter", "done"} : at' = [at EXCEPT ![Top] = place]
        /\ \/ UNCHANGED url
           \/ /\ \E next \in URL : url' = [url EXCEPT ![Top] = next]
              /\ at' = [at EXCEPT ![Top] = "limiter"]
        /\ UNCHANGED outcome \/ \E result : outcome' = [outcome EXCEPT ![Top] = result]
        /\ \E result : last' = [last EXCEPT ![Top] = result]
    BY <1>1, FetcherAssumption DEF Send, Retry, Follow, Conclude, Goto, End, HopPlace
  <1>3. \A c \in Request : url'[c] = url[c] /\ at'[c] = at[c] /\ outcome'[c] = outcome[c]
                           /\ last'[c] = last[c]
    BY <1>2, Callers DEF HInv, HTypes
  <1>4. HTypes'
    BY <1>1, <1>2, <1>3, Callers DEF HInv, HTypes, RobotsTypeOK, CacheServed, robotsVars, tabVars
  <1>5. FirstOnly' /\ LetThrough'
    BY <1>1, <1>3, Callers DEF HInv, FirstOnly, LetThrough, Continued, FirstParty, tabVars
  <1>6. TabOfTop'
    BY <1>1, <1>2, Callers DEF HInv, HTypes, TabOfTop, tabVars
  <1> QED
    BY <1>4, <1>5, <1>6 DEF HInv

\* A step of the browser or of a handler changes nothing of the worker, nor
\* anything of another request.
Apart(c) ==
    /\ \A d \in Caller \ {c} : /\ at'[d] = at[d] /\ outcome'[d] = outcome[d]
                               /\ unchecked'[d] = unchecked[d]
    /\ DOMAIN at' = Caller /\ DOMAIN outcome' = Caller
    /\ UNCHANGED <<url, page, tab>>

LEMMA ApartTop ==
  ASSUME HInv, NEW c \in Request, Apart(c)
  PROVE  TabOfTop'
  BY Callers DEF HInv, TabOfTop, Apart

LEMMA IssueStep ==
  ASSUME HInv, NEW c \in Request, Issue(c)
  PROVE  HInv'
  <1>1. /\ tab = "open" /\ at[c] = "idle" /\ c # Nav
        /\ last[page[c].after] # "none"
        /\ at' = [at EXCEPT ![c] = "paused"]
        /\ UNCHANGED <<robotsVars, url, outcome, unchecked, last, page, tabVars>>
    BY DEF Issue, Goto, gateVars
  <1>2. firstDoc
    <2>1. page[c].after \in Request
      BY DEF HInv, HTypes, PageRequest
    <2> QED
      BY <1>1, <2>1 DEF HInv, FirstOnly, HTypes
  <1>3. HTypes'
    BY <1>1, Callers DEF HInv, HTypes, RobotsTypeOK, CacheServed, robotsVars, tabVars
  <1>4. FirstOnly' /\ LetThrough'
    BY <1>1, <1>2, Callers DEF HInv, HTypes, FirstOnly, LetThrough, Continued, FirstParty, tabVars
  <1>5. Apart(c)
    BY <1>1, Callers DEF Apart, HInv, HTypes, tabVars
  <1> QED
    BY <1>3, <1>4, <1>5, ApartTop DEF HInv

LEMMA RespondStep ==
  ASSUME HInv, NEW c \in Request, Respond(c)
  PROVE  HInv'
  <1>1. /\ tab = "open" /\ at[c] = "send"
        /\ at' = [at EXCEPT ![c] = "done"] /\ outcome' = [outcome EXCEPT ![c] = "ok"]
        /\ \E reply : last' = [last EXCEPT ![c] = reply]
        /\ UNCHANGED <<robotsVars, url, unchecked, page, tab, firstDoc, subCount, governed>>
    BY DEF Respond, End, Goto, gateVars
  <1>2. firstDoc
    BY <1>1 DEF HInv, FirstOnly, HTypes
  <1>3. HTypes'
    BY <1>1, Callers DEF HInv, HTypes, RobotsTypeOK, CacheServed, robotsVars
  <1>4. FirstOnly' /\ LetThrough'
    BY <1>1, <1>2, Callers DEF HInv, HTypes, FirstOnly, LetThrough, Continued, FirstParty
  <1>5. Apart(c)
    BY <1>1, Callers DEF Apart, HInv, HTypes
  <1> QED
    BY <1>3, <1>4, <1>5, ApartTop DEF HInv

LEMMA InterceptStep ==
  ASSUME HInv, NEW c \in Request, Intercept(c)
  PROVE  HInv'
  <1>1. /\ at[c] = "paused"
        /\ UNCHANGED <<robotsVars, url, unchecked, last, page, tab, governed>>
    BY DEF Intercept, gateVars
  <1>2. \/ /\ ~firstDoc /\ firstDoc' = TRUE /\ at' = [at EXCEPT ![c] = "send"]
           /\ UNCHANGED <<outcome, subCount>>
        \/ /\ ~FirstDocument(c) /\ at' = [at EXCEPT ![c] = "done"]
           /\ outcome' = [outcome EXCEPT ![c] = "failed"] /\ UNCHANGED firstDoc
           /\ subCount' \in {subCount, subCount + 1}
        \/ /\ ~FirstDocument(c) /\ UNCHANGED <<outcome, firstDoc>>
           /\ at' = [at EXCEPT ![c] = IF page[c].network THEN "limiter" ELSE "send"]
           /\ subCount' \in {subCount, subCount + 1}
    BY DEF Intercept, FirstDocument, Goto, Deny, Denied
  <1>3. firstDoc \/ c = Nav
    BY <1>1 DEF HInv, FirstOnly
  <1>4. firstDoc \/ FirstDocument(c)
    BY <1>3 DEF HInv, HTypes, FirstDocument
  <1>5. /\ DOMAIN at' = Caller /\ DOMAIN outcome' = Caller
        /\ \A d \in Caller \ {c} : at'[d] = at[d] /\ outcome'[d] = outcome[d]
    BY <1>2 DEF HInv, HTypes
  <1>6. subCount' \in Nat /\ firstDoc' = TRUE
    BY <1>2, <1>4 DEF HInv, HTypes
  <1>7. HTypes'
    BY <1>1, <1>2, <1>5, <1>6, Callers DEF HInv, HTypes, RobotsTypeOK, CacheServed, robotsVars
  <1>8. FirstOnly'
    BY <1>1, <1>6 DEF HInv, FirstOnly
  <1>9. LetThrough'
    BY <1>1, <1>2, <1>3, <1>5, Callers DEF HInv, HTypes, LetThrough, Continued, FirstParty
  <1>10. Apart(c)
    BY <1>1, <1>5, Callers DEF Apart
  <1> QED
    BY <1>7, <1>8, <1>9, <1>10, ApartTop DEF HInv

LEMMA SubGateStep ==
  ASSUME HInv, NEW c \in Request, SubLimiter(c) \/ SubRobots(c) \/ SubDelay(c)
  PROVE  HInv'
  <1>1. CASE /\ at[c] = "robots" /\ FirstParty(c) /\ at' = [at EXCEPT ![c] = "wait"]
             /\ UNCHANGED <<robotsVars, url, outcome, unchecked, last, page, tabVars>>
    <2>1. HTypes'
      BY <1>1, Callers DEF HInv, HTypes, RobotsTypeOK, CacheServed, robotsVars, tabVars
    <2>2. FirstOnly' /\ LetThrough'
      BY <1>1, Callers DEF HInv, HTypes, FirstOnly, LetThrough, Continued, FirstParty, tabVars
    <2>3. Apart(c)
      BY <1>1, Callers DEF Apart, HInv, HTypes, tabVars
    <2> QED
      BY <2>1, <2>2, <2>3, ApartTop DEF HInv
  <1>2. CASE (GateLimiter(c) \/ GateRobots(c) \/ GateDelay(c)) /\ UNCHANGED <<page, tabVars>>
    <2>1. /\ RobotsTypeOK' /\ CacheServed'
          /\ at[c] \in {"limiter", "robots", "delay"}
          /\ UNCHANGED <<url, last>>
          /\ DOMAIN at' = Caller /\ DOMAIN outcome' = Caller
          /\ unchecked' \in [Caller -> BOOLEAN]
          /\ \A d \in Caller \ {c} :
                /\ at'[d] = at[d] /\ outcome'[d] = outcome[d]
                /\ unchecked'[d] = unchecked[d] /\ permission'[d] = permission[d]
          /\ at'[c] \in Governing \union {"done"}
          /\ permission'[c] = {} \/ at'[c] \in {"delay", "wait", "done"}
          /\ outcome'[c] = outcome[c] \/ outcome'[c] \in {"failed", "refused"}
          /\ at'[c] \in {"delay", "wait"} /\ Alone(HostOf[url[c]]) /\ Forbidden(url[c]) =>
                (at[c] = "delay" /\ unchecked'[c] = unchecked[c]) \/ unchecked'[c]
      BY <1>2, GateSteps, Callers DEF HInv
    <2>2. HTypes'
      BY <1>2, <2>1, Callers DEF HInv, HTypes, tabVars
    <2>3. FirstOnly'
      BY <1>2, <2>1, Callers DEF HInv, FirstOnly, tabVars
    <2>4. LetThrough'
      BY <1>2, <2>1, Callers DEF HInv, LetThrough, Continued, FirstParty, tabVars, Governing
    <2>5. Apart(c)
      BY <1>2, <2>1, Callers DEF Apart, tabVars
    <2> QED
      BY <2>2, <2>3, <2>4, <2>5, ApartTop DEF HInv
  <1> QED
    BY <1>1, <1>2 DEF SubLimiter, SubRobots, SubDelay, gateVars, Goto

LEMMA SubWaitStep ==
  ASSUME HInv, NEW c \in Request, SubWait(c)
  PROVE  HInv'
  <1>1. /\ at[c] = "wait" /\ LeaveGate(c)
        /\ UNCHANGED <<url, unchecked, last, page, tab, firstDoc, subCount>>
        /\ \/ /\ at' = [at EXCEPT ![c] = "send"] /\ UNCHANGED outcome
              /\ governed' = governed \union {c}
           \/ /\ at' = [at EXCEPT ![c] = "done"]
              /\ outcome' = [outcome EXCEPT ![c] = "failed"] /\ UNCHANGED governed
    BY DEF SubWait, Goto, Deny, Denied
  <1>2. /\ RobotsTypeOK' /\ CacheServed' /\ permission'[c] = {}
        /\ \A d \in Caller \ {c} : permission'[d] = permission[d]
    BY <1>1, WaitEnds, Callers DEF HInv
  <1>3. /\ DOMAIN at' = Caller /\ DOMAIN outcome' = Caller
        /\ \A d \in Caller \ {c} : at'[d] = at[d] /\ outcome'[d] = outcome[d]
    BY <1>1 DEF HInv, HTypes
  <1>4. HTypes'
    BY <1>1, <1>2, <1>3, Callers DEF HInv, HTypes
  <1>5. FirstOnly'
    BY <1>1, <1>3, Callers DEF HInv, FirstOnly
  <1>6. LetThrough'
    BY <1>1, <1>3, Callers DEF HInv, HTypes, LetThrough, Continued, FirstParty
  <1>7. Apart(c)
    BY <1>1, <1>3, Callers DEF Apart
  <1> QED
    BY <1>4, <1>5, <1>6, <1>7, ApartTop DEF HInv

LEMMA HInvStep == HInv /\ [HNext]_hvars => HInv'
  <1> SUFFICES ASSUME HInv, [HNext]_hvars PROVE HInv'
    OBVIOUS
  <1>1. CASE TopGate
    BY <1>1, TopGateStep, TopWaitStep DEF TopGate
  <1>2. CASE RenderEnds \/ RenderFails
    <2>1. /\ at[Top] = "render" /\ CloseTab
          /\ \E place \in {"limiter", "done"} : at' = [at EXCEPT ![Top] = place]
          /\ UNCHANGED outcome \/ \E result : outcome' = [outcome EXCEPT ![Top] = result]
      BY <1>2 DEF RenderEnds, RenderFails, End, Goto
    <2> QED
      BY <2>1, CloseStep
  <1>3. CASE HCancel
    BY <1>3 DEF HCancel, CancelAll, HInv, HTypes, RobotsTypeOK, CacheServed, FirstOnly,
       LetThrough, TabOfTop, Continued, FirstParty, robotsVars, fetchVars, tabVars
  <1>4. CASE UNCHANGED hvars
    BY <1>4 DEF HInv, HTypes, RobotsTypeOK, CacheServed, FirstOnly, LetThrough, TabOfTop,
       Continued, FirstParty, robotsVars, fetchVars, tabVars, vars, hvars
  <1> QED
    BY NavigateStep, FallBackStep, IssueStep, RespondStep, InterceptStep, SubGateStep,
       SubWaitStep, <1>1, <1>2, <1>3, <1>4
       DEF HNext, TopNext, RenderBreaks, Handle, HDone

LEMMA HInvariant == HSpec => []HInv
  BY HInvInit, HInvStep, PTL DEF HSpec

\* The only request of a tab that reaches the network without the governor is
\* the navigation, in whatever order the browser and the handlers act.
THEOREM OnlyNavigationUngovernedHolds == HSpec => []OnlyNavigationUngoverned
  <1>1. HInv => OnlyNavigationUngoverned
    BY DEF HInv, LetThrough, OnlyNavigationUngoverned, Continued
  <1> QED
    BY <1>1, HInvariant, PTL

\* No third-party request of a tab is made for a URL that its robots.txt
\* disallows, unless that could not be had, and no disallowed page is rendered.
THEOREM TabObeysRobotsHolds == HSpec => []TabObeysRobots
  <1>1. HInv => TabObeysRobots
    <2> SUFFICES ASSUME HInv, NEW c \in Request, Continued(c), page[c].network,
                        Alone(HostOf[url[c]]), Forbidden(url[c])
                 PROVE  IF c = Nav THEN tab # "open" \/ unchecked[Top]
                        ELSE HostOf[url[c]] = HostOf[page[Nav].url] \/ unchecked[c]
      BY DEF TabObeysRobots
    <2>1. CASE c = Nav
      BY <2>1 DEF HInv, HTypes, TabOfTop
    <2>2. CASE c # Nav
      BY <2>2 DEF HInv, HTypes, LetThrough, Continued, FirstParty
    <2> QED
      BY <2>1, <2>2
  <1> QED
    BY <1>1, HInvariant, PTL

-----------------------------------------------------------------------------
(* The ceiling *)

\* The requests, not the navigation, that passed the ceiling.
Past == {c \in Request \ {Nav} : at[c] \in Governing \union {"send"} \/ outcome[c] = "ok"}

\* Each of them was counted, and none past the ceiling.
Counted ==
    MaxSubresources > 0 =>
        Cardinality(Past) <= subCount /\ Cardinality(Past) <= MaxSubresources

LEMMA PastFinite == IsFiniteSet(Past) /\ Cardinality(Past) \in Nat
  <1>1. Past \in SUBSET Caller /\ IsFiniteSet(Caller)
    BY Callers, EnoughAssumption DEF Past
  <1> QED
    BY <1>1, FS_Subset, FS_CardinalityType

\* Only a request that is counted gets past the ceiling.
LEMMA PastStep ==
  ASSUME HInv, [HNext]_hvars
  PROVE  \/ Past' \subseteq Past /\ subCount' \in {subCount, subCount + 1}
         \/ /\ \E c \in Request : Past' \subseteq Past \union {c}
            /\ MaxSubresources > 0 => subCount' = subCount + 1 /\ ~BeyondCeiling
  <1>1. ASSUME UNCHANGED subCount,
               \A c \in Request \ {Nav} :
                  \/ at'[c] = at[c] /\ outcome'[c] = outcome[c]
                  \/ at'[c] \notin Governing \union {"send"} /\ outcome'[c] # "ok"
                  \/ at[c] \in Governing \union {"send"}
        PROVE  Past' \subseteq Past /\ subCount' \in {subCount, subCount + 1}
    BY <1>1 DEF Past
  <1>2. CASE TopNext \/ RenderFails
    <2>1. UNCHANGED subCount
      BY <1>2 DEF TopNext, RenderFails, TopGate, Navigate, RenderEnds, RenderBreaks, FallBack,
         CloseTab, tabVars
    <2>2. \A c \in Request \ {Nav} : at'[c] = at[c] /\ outcome'[c] = outcome[c]
      <3>1. CASE TopGate
        <4>1. CASE GateWait(Top)
          BY <4>1, Callers DEF GateWait, Goto, End, HInv, HTypes
        <4>2. CASE GateLimiter(Top) \/ GateRobots(Top) \/ GateDelay(Top)
          BY <4>2, GateSteps, Callers DEF HInv
        <4> QED
          BY <3>1, <4>1, <4>2 DEF TopGate
      <3>2. CASE Navigate
        BY <3>2, Callers DEF Navigate, HInv, HTypes
      <3>3. CASE RenderEnds \/ RenderFails
        BY <3>3, Callers DEF RenderEnds, RenderFails, CloseTab, Goto, End, HInv, HTypes
      <3>4. CASE FallBack
        <4>1. /\ UNCHANGED at \/ \E place : at' = [at EXCEPT ![Top] = place]
              /\ UNCHANGED outcome \/ \E result : outcome' = [outcome EXCEPT ![Top] = result]
          BY <3>4 DEF FallBack, Send, Retry, Follow, Conclude, Goto, End, HopPlace
        <4> QED
          BY <4>1, Callers DEF HInv, HTypes
      <3> QED
        BY <1>2, <3>1, <3>2, <3>3, <3>4 DEF TopNext, RenderBreaks
    <2> QED
      BY <1>1, <2>1, <2>2
  <1>3. ASSUME NEW c \in Request, Issue(c)
        PROVE  Past' \subseteq Past /\ subCount' \in {subCount, subCount + 1}
    <2>1. UNCHANGED <<subCount, outcome>> /\ at' = [at EXCEPT ![c] = "paused"]
      BY <1>3 DEF Issue, Goto, tabVars
    <2> QED
      BY <2>1, Callers DEF HInv, HTypes, Past, Governing
  <1>4. ASSUME NEW c \in Request, Respond(c)
        PROVE  Past' \subseteq Past /\ subCount' \in {subCount, subCount + 1}
    <2>1. /\ UNCHANGED subCount /\ at[c] = "send" /\ at' = [at EXCEPT ![c] = "done"]
          /\ outcome' = [outcome EXCEPT ![c] = "ok"]
      BY <1>4 DEF Respond, Goto, End
    <2> QED
      BY <2>1, Callers DEF HInv, HTypes, Past
  <1>5. ASSUME NEW c \in Request, Intercept(c)
        PROVE  \/ Past' \subseteq Past /\ subCount' \in {subCount, subCount + 1}
               \/ /\ Past' \subseteq Past \union {c}
                  /\ MaxSubresources > 0 => subCount' = subCount + 1 /\ ~BeyondCeiling
    <2>1. CASE FirstDocument(c) /\ at' = [at EXCEPT ![c] = "send"] /\ UNCHANGED <<outcome, subCount>>
      <3>1. c = Nav
        BY <1>5, <2>1 DEF Intercept, FirstDocument, HInv, FirstOnly
      <3> QED
        BY <2>1, <3>1, Callers DEF HInv, HTypes, Past
    <2>2. CASE Deny(c) /\ subCount' \in {subCount, subCount + 1}
      BY <2>2, Callers DEF Deny, Denied, HInv, HTypes, Past, Governing
    <2>3. CASE /\ subCount' = IF MaxSubresources > 0 THEN subCount + 1 ELSE subCount
               /\ ~BeyondCeiling /\ UNCHANGED outcome
               /\ \E place : at' = [at EXCEPT ![c] = place]
      BY <2>3, Callers DEF HInv, HTypes, Past
    <2> QED
      BY <1>5, <2>1, <2>2, <2>3 DEF Intercept, Goto
  <1>6. ASSUME NEW c \in Request, SubLimiter(c) \/ SubRobots(c) \/ SubDelay(c)
        PROVE  Past' \subseteq Past /\ subCount' \in {subCount, subCount + 1}
    <2>1. UNCHANGED subCount /\ at[c] \in Governing
      BY <1>6 DEF SubLimiter, SubRobots, SubDelay, GateLimiter, GateDelay, tabVars, Governing
    <2>2. \A d \in Request \ {c} : at'[d] = at[d] /\ outcome'[d] = outcome[d]
      <3>1. CASE GateLimiter(c) \/ GateRobots(c) \/ GateDelay(c)
        BY <3>1, GateSteps, Callers DEF HInv
      <3>2. CASE at' = [at EXCEPT ![c] = "wait"] /\ UNCHANGED outcome
        BY <3>2, Callers DEF HInv, HTypes
      <3> QED
        BY <1>6, <3>1, <3>2 DEF SubLimiter, SubRobots, SubDelay, Goto
    <2> QED
      BY <1>1, <2>1, <2>2
  <1>7. ASSUME NEW c \in Request, SubWait(c)
        PROVE  Past' \subseteq Past /\ subCount' \in {subCount, subCount + 1}
    <2>1. /\ UNCHANGED subCount /\ at[c] = "wait"
          /\ \E place \in {"send", "done"} : at' = [at EXCEPT ![c] = place]
          /\ UNCHANGED outcome \/ outcome' = [outcome EXCEPT ![c] = "failed"]
      BY <1>7 DEF SubWait, Deny, Denied, Goto
    <2>2. \A d \in Request \ {c} : at'[d] = at[d] /\ outcome'[d] = outcome[d]
      BY <2>1, Callers DEF HInv, HTypes
    <2> QED
      BY <1>1, <2>1, <2>2 DEF Governing
  <1>8. CASE HCancel \/ HDone \/ UNCHANGED hvars
    BY <1>8 DEF HCancel, CancelAll, HDone, Past, fetchVars, tabVars, vars, hvars
  <1> QED
    BY <1>2, <1>3, <1>4, <1>5, <1>6, <1>7, <1>8 DEF HNext, Handle

LEMMA CountedStep == HInv /\ Counted /\ [HNext]_hvars => Counted'
  <1> SUFFICES ASSUME HInv, Counted, [HNext]_hvars, MaxSubresources > 0
               PROVE  Cardinality(Past') <= subCount' /\ Cardinality(Past') <= MaxSubresources
    BY DEF Counted
  <1>1. /\ IsFiniteSet(Past) /\ Cardinality(Past) \in Nat /\ subCount \in Nat
        /\ Cardinality(Past) <= subCount /\ Cardinality(Past) <= MaxSubresources
        /\ MaxSubresources \in Nat
    BY PastFinite, HeadlessAssumption DEF Counted, HInv, HTypes
  <1>2. CASE Past' \subseteq Past /\ subCount' \in {subCount, subCount + 1}
    <2>1. IsFiniteSet(Past') /\ Cardinality(Past') <= Cardinality(Past)
      BY <1>1, <1>2, FS_Subset
    <2>2. Cardinality(Past') \in Nat
      BY <2>1, FS_CardinalityType
    <2> QED
      BY <1>1, <1>2, <2>1, <2>2
  <1>3. ASSUME NEW c \in Request, Past' \subseteq Past \union {c}, subCount' = subCount + 1,
               ~BeyondCeiling
        PROVE  Cardinality(Past') <= subCount' /\ Cardinality(Past') <= MaxSubresources
    <2>1. IsFiniteSet(Past \union {c}) /\ Cardinality(Past \union {c}) <= Cardinality(Past) + 1
      BY <1>1, FS_AddElement
    <2>2. IsFiniteSet(Past') /\ Cardinality(Past') <= Cardinality(Past \union {c})
      BY <1>3, <2>1, FS_Subset
    <2>3. Cardinality(Past') \in Nat /\ Cardinality(Past \union {c}) \in Nat
      BY <2>1, <2>2, FS_CardinalityType
    <2>4. subCount + 1 <= MaxSubresources
      BY <1>1, <1>3 DEF BeyondCeiling
    <2> QED
      BY <1>1, <1>3, <2>1, <2>2, <2>3, <2>4
  <1> QED
    BY <1>2, <1>3, PastStep

\* However many handlers count requests at once, no more of them than the ceiling
\* are let through.
THEOREM CeilingHoldsAlways == HSpec => []CeilingHolds
  <1>1. HInit => Counted
    <2> SUFFICES ASSUME HInit PROVE Counted
      OBVIOUS
    <2>1. Past = {}
      BY Callers DEF HInit, Past, Governing
    <2> QED
      BY <2>1, FS_EmptySet, HeadlessAssumption DEF HInit, Counted
  <1>2. HInv /\ Counted => CeilingHolds
    <2> SUFFICES ASSUME HInv, Counted, MaxSubresources > 0
                 PROVE  Cardinality({c \in Request \ {Nav} : Continued(c)}) <= MaxSubresources
      BY DEF CeilingHolds
    <2> DEFINE Through == {c \in Request \ {Nav} : Continued(c)}
    <2>1. Through \in SUBSET Past
      BY DEF Continued, Past
    <2>2. IsFiniteSet(Through) /\ Cardinality(Through) <= Cardinality(Past)
      BY <2>1, PastFinite, FS_Subset
    <2>3. Cardinality(Through) \in Nat /\ Cardinality(Past) \in Nat
      BY <2>2, PastFinite, FS_CardinalityType
    <2> QED
      BY <2>2, <2>3, HeadlessAssumption DEF Counted
  <1> QED
    BY <1>1, <1>2, CountedStep, HInvariant, PTL DEF HSpec

-----------------------------------------------------------------------------
(* The status of a page *)

\* How a request moves: it leaves "idle" as the navigation or as issued, never
\* leaves "done", and has its answer from Respond.
LEMMA RequestMoves ==
  ASSUME HInv, [HNext]_hvars, NEW c \in Request
  PROVE  /\ at[c] = "done" => at'[c] = "done"
         /\ at[c] # "idle" => at'[c] # "idle"
         /\ at'[c] # "idle" => at[c] # "idle" \/ c = Nav \/ Issue(c)
         /\ last'[c] = last[c] \/ Respond(c)
         /\ UNCHANGED page
  <1>1. CASE TopGate
    <2>1. CASE GateWait(Top)
      BY <1>1, <2>1, Callers DEF TopGate, GateWait, Goto, End, HInv, HTypes
    <2>2. CASE GateLimiter(Top) \/ GateRobots(Top) \/ GateDelay(Top)
      BY <1>1, <2>2, GateSteps, Callers DEF TopGate, HInv
    <2> QED
      BY <1>1, <2>1, <2>2 DEF TopGate
  <1>2. CASE Navigate
    <2>1. UNCHANGED <<last, page>> /\ at' = [at EXCEPT ![Top] = "render", ![Nav] = "paused"]
          /\ at[Nav] = "idle"
      BY <1>2, Callers DEF Navigate, HInv, FirstOnly
    <2> QED
      BY <2>1, Callers DEF HInv, HTypes
  <1>3. CASE RenderEnds \/ RenderFails
    BY <1>3, Callers DEF RenderEnds, RenderFails, CloseTab, Goto, End, HInv, HTypes
  <1>4. CASE FallBack
    <2>1. /\ UNCHANGED at \/ \E place : at' = [at EXCEPT ![Top] = place]
          /\ \E result : last' = [last EXCEPT ![Top] = result]
          /\ UNCHANGED page
      BY <1>4 DEF FallBack, Send, Retry, Follow, Conclude, Goto, End, HopPlace
    <2> QED
      BY <2>1, Callers DEF HInv, HTypes
  <1>5. ASSUME NEW d \in Request, Issue(d) PROVE at'[d] # "idle" /\ at[d] = "idle"
           /\ UNCHANGED <<last, page>> /\ \A e \in Request \ {d} : at'[e] = at[e]
    BY <1>5, Callers DEF Issue, Goto, HInv, HTypes
  <1>6. ASSUME NEW d \in Request, Respond(d)
        PROVE  /\ at'[d] = "done" /\ at[d] = "send" /\ UNCHANGED page
               /\ \A e \in Request \ {d} : at'[e] = at[e] /\ last'[e] = last[e]
    <2>1. /\ at[d] = "send" /\ at' = [at EXCEPT ![d] = "done"]
          /\ \E reply : last' = [last EXCEPT ![d] = reply]
          /\ UNCHANGED page
      BY <1>6 DEF Respond, End, Goto
    <2> QED
      BY <2>1, Callers DEF HInv, HTypes
  <1>7. ASSUME NEW d \in Request, Handle(d)
        PROVE  /\ at[d] \notin {"idle", "done"} /\ at'[d] # "idle" /\ UNCHANGED <<last, page>>
               /\ \A e \in Request \ {d} : at'[e] = at[e]
    <2>1. CASE Intercept(d)
      <3>1. /\ at[d] = "paused" /\ UNCHANGED <<last, page>>
            /\ \E place \in {"send", "done", "limiter"} : at' = [at EXCEPT ![d] = place]
        BY <2>1 DEF Intercept, Goto, Deny, Denied
      <3> QED
        BY <3>1, Callers DEF HInv, HTypes
    <2>2. CASE SubWait(d)
      <3>1. /\ at[d] = "wait" /\ UNCHANGED <<last, page>>
            /\ \E place \in {"send", "done"} : at' = [at EXCEPT ![d] = place]
        BY <2>2 DEF SubWait, Goto, Deny, Denied
      <3> QED
        BY <3>1, Callers DEF HInv, HTypes
    <2>3. CASE (GateLimiter(d) \/ GateRobots(d) \/ GateDelay(d)) /\ UNCHANGED page
      <3>1. /\ at[d] \in {"limiter", "robots", "delay"} /\ UNCHANGED last
            /\ \A e \in Caller \ {d} : at'[e] = at[e]
            /\ at'[d] \in Governing \union {"done"}
        BY <2>3, GateSteps, Callers DEF HInv
      <3> QED
        BY <2>3, <3>1, Callers DEF Governing
    <2>4. CASE /\ at[d] = "robots" /\ at' = [at EXCEPT ![d] = "wait"] /\ UNCHANGED <<last, page>>
      BY <2>4, Callers DEF HInv, HTypes
    <2> QED
      BY <1>7, <2>1, <2>2, <2>3, <2>4 DEF Handle, SubLimiter, SubRobots, SubDelay, Goto
  <1>8. CASE HCancel \/ HDone \/ UNCHANGED hvars
    BY <1>8 DEF HCancel, CancelAll, HDone, fetchVars, vars, hvars
  <1> QED
    BY <1>1, <1>2, <1>3, <1>4, <1>5, <1>6, <1>7, <1>8 DEF HNext, TopNext, RenderBreaks

\* Until a document is answered for good, only the navigation and its redirects
\* are on their way; from then on the status is that of a document of the page's
\* own frame.
StatusOfMain ==
    /\ mainFrame \in {"none", "main"}
    /\ \A c \in Request : last[c] # "none" => at[c] # "idle"
    /\ mainFrame = "none" =>
          \A c \in Request :
              /\ last[c] \in {"none", "redirect"}
              /\ at[c] # "idle" => page[c].type = "document" /\ page[c].frame = "main"
    /\ mainFrame = "main" =>
          \E c \in MainRequests :
              at[c] = "done" /\ last[c] = status /\ status \notin {"none", "redirect"}

\* The answer to a document becomes the status if its frame is that of the page.
LEMMA RespondStatus ==
  ASSUME HInv, StatusOfMain, NEW c \in Request, Respond(c)
  PROVE  StatusOfMain'
  <1>1. PICK reply \in Answers(c) :
           /\ last' = [last EXCEPT ![c] = reply]
           /\ \/ /\ page[c].type = "document" /\ reply # "redirect"
                 /\ mainFrame' = IF mainFrame = "none" THEN page[c].frame ELSE mainFrame
                 /\ status' = IF InFrame(c, mainFrame') THEN reply ELSE status
              \/ /\ page[c].type # "document" \/ reply = "redirect"
                 /\ UNCHANGED <<mainFrame, status>>
    BY DEF Respond
  <1>2. /\ at[c] = "send" /\ at' = [at EXCEPT ![c] = "done"] /\ UNCHANGED page
        /\ DOMAIN at = Caller /\ DOMAIN last = Caller /\ c \in Caller
    BY Callers DEF Respond, End, Goto, HInv, HTypes
  <1>3. reply # "none"
    BY <1>1 DEF Answers
  <1>4. /\ at'[c] = "done" /\ last'[c] = reply
        /\ \A d \in Request \ {c} : at'[d] = at[d] /\ last'[d] = last[d]
    BY <1>1, <1>2, Callers
  <1>5. CASE mainFrame = "none" /\ reply # "redirect"
    <2>1. page[c].type = "document" /\ page[c].frame = "main"
      BY <1>2, <1>5 DEF StatusOfMain
    <2>2. mainFrame' = "main" /\ status' = reply
      BY <1>1, <1>5, <2>1 DEF InFrame
    <2> QED
      BY <1>2, <1>3, <1>4, <1>5, <2>1, <2>2 DEF StatusOfMain, MainRequests
  <1>6. CASE mainFrame = "none" /\ reply = "redirect"
    <2>1. UNCHANGED <<mainFrame, status>>
      BY <1>1, <1>6
    <2> QED
      BY <1>2, <1>4, <1>6, <2>1 DEF StatusOfMain
  <1>7. CASE mainFrame = "main"
    <2>1. PICK m \in MainRequests :
             at[m] = "done" /\ last[m] = status /\ status \notin {"none", "redirect"}
      BY <1>7 DEF StatusOfMain
    <2>2. m # c /\ m \in Request /\ m \in MainRequests'
      BY <1>2, <2>1 DEF MainRequests
    <2>3. mainFrame' = "main"
      BY <1>1, <1>7
    <2>4. CASE UNCHANGED status
      BY <1>2, <1>4, <2>1, <2>2, <2>3, <2>4 DEF StatusOfMain
    <2>5. CASE page[c].type = "document" /\ page[c].frame = "main" /\ reply # "redirect"
               /\ status' = reply
      <3>1. c \in MainRequests'
        BY <1>2, <2>5 DEF MainRequests
      <3> QED
        BY <1>3, <1>4, <2>3, <2>5, <3>1, <1>7 DEF StatusOfMain
    <2> QED
      BY <1>1, <1>7, <2>4, <2>5 DEF InFrame
  <1> QED
    BY <1>5, <1>6, <1>7 DEF StatusOfMain

LEMMA StatusStep == HInv /\ StatusOfMain /\ [HNext]_hvars => StatusOfMain'
  <1> SUFFICES ASSUME HInv, StatusOfMain, [HNext]_hvars, \A c \in Request : ~Respond(c)
               PROVE  StatusOfMain'
    BY RespondStatus
  <1>1. UNCHANGED <<mainFrame, status>>
    BY DEF HNext, TopNext, TopGate, Navigate, RenderEnds, RenderFails, RenderBreaks, CloseTab,
       FallBack, Issue, Handle, Intercept, SubLimiter, SubRobots, SubDelay, SubWait, HCancel,
       HDone, hvars, tabVars
  <1>2. \A c \in Request :
           /\ at[c] = "done" => at'[c] = "done"
           /\ at[c] # "idle" => at'[c] # "idle"
           /\ at'[c] # "idle" => at[c] # "idle" \/ c = Nav \/ Issue(c)
           /\ last'[c] = last[c]
    BY RequestMoves
  <1>3. UNCHANGED page
    BY RequestMoves, Callers
  <1>4. CASE mainFrame = "main"
    BY <1>1, <1>2, <1>3, <1>4 DEF StatusOfMain, MainRequests
  <1>5. CASE mainFrame = "none"
    <2>1. ASSUME NEW c \in Request, at'[c] # "idle"
          PROVE  page[c].type = "document" /\ page[c].frame = "main"
      <3>1. CASE at[c] # "idle"
        BY <1>5, <3>1 DEF StatusOfMain
      <3>2. CASE c = Nav
        BY <3>2, HeadlessAssumption DEF HInv, HTypes
      <3>3. CASE Issue(c)
        <4>1. page[c].after \in Request
          BY DEF HInv, HTypes, PageRequest
        <4>2. last[page[c].after] \in {"none", "redirect"}
          BY <1>5, <4>1 DEF StatusOfMain
        <4>3. page[c].redirected /\ last[page[c].after] = "redirect"
          BY <3>3, <4>2 DEF Issue
        <4>4. page[page[c].after].type = "document" /\ page[page[c].after].frame = "main"
          BY <1>5, <4>1, <4>3 DEF StatusOfMain
        <4> QED
          BY <4>3, <4>4, HeadlessAssumption DEF HInv, HTypes
      <3> QED
        BY <1>2, <2>1, <3>1, <3>2, <3>3
    <2> QED
      BY <1>1, <1>2, <1>3, <1>5, <2>1 DEF StatusOfMain
  <1> QED
    BY <1>4, <1>5 DEF StatusOfMain

\* A rendered page ends as an answer to a document of its own main frame says,
\* though the documents of frames inside it are answered in between.
THEOREM StatusIsThePagesHolds == HSpec => StatusIsThePages
  <1> DEFINE Theirs == RenderEnds =>
                \E c \in MainRequests : /\ last[c] \notin {"none", "redirect"}
                                        /\ outcome'[Top] = Verdicts[last[c]]
  <1>1. HInv /\ StatusOfMain /\ [HNext]_hvars => [Theirs]_hvars
    <2> SUFFICES ASSUME HInv, StatusOfMain, RenderEnds PROVE Theirs
      OBVIOUS
    <2>1. Loaded /\ outcome' = [outcome EXCEPT ![Top] = Verdicts[status]]
      BY DEF RenderEnds, End
    <2>2. outcome'[Top] = Verdicts[status]
      BY <2>1, Callers DEF HInv, HTypes
    <2>3. mainFrame = "main"
      BY <2>1 DEF Loaded, StatusOfMain, MainRequests
    <2> QED
      BY <2>2, <2>3 DEF StatusOfMain
  <1>2. HInit => StatusOfMain
    BY Callers DEF HInit, StatusOfMain
  <1> QED
    BY <1>1, <1>2, StatusStep, HInvariant, PTL DEF HSpec, StatusIsThePages
=============================================================================
