SPECIFICATION Spec
CONSTANTS
    j1 = j1
    j2 = j2
    u1 = u1
    u2 = u2
    u3 = u3
    h1 = h1
    h1port = h1port
    h2 = h2
    n1 = n1
    n2 = n2
    s1 = s1
    l1 = l1
    l2 = l2
    l3 = l3
    l4 = l4
    l5 = l5
    Caller <- MCCaller
    URL <- MCURL
    Host <- MCHost
    HostOf <- MCHostOf
    Name <- MCName
    NameOf <- MCNameOf
    Shard <- MCShard
    ShardOf <- MCShardOf
    Served <- MCServed
    RobotsErrors = FALSE
    MaxExpiries = 0
    Limiter <- MCLimiter
    MaxHostLimiters = 2
    KeepLimiters = 1
    HostInterval = 1
    HostBurst = 2
    MaxCleanups = 0
    Start <- SameStart
    Redirects <- MCRedirects
    MaxRedirectHops = 1
    MaxClientRetries = 1
    Replies <- BusyOnly
INVARIANT BusyIsRetryable
