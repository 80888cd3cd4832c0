SPECIFICATION HFairSpec
CONSTANTS
    top = top
    nav = nav
    r1 = r1
    r2 = r2
    r3 = r3
    own = own
    ownScript = ownScript
    open = open
    closed = closed
    h1 = h1
    h2 = h2
    s1 = s1
    l1 = l1
    l2 = l2
    l3 = l3
    l4 = l4
    l5 = l5
    l6 = l6
    l7 = l7
    l8 = l8
    l9 = l9
    l10 = l10
    Caller <- MCCaller
    URL <- MCURL
    Host <- MCHost
    HostOf <- MCHostOf
    Name <- MCHost
    NameOf <- MCNameOf
    Shard = {s1}
    ShardOf <- MCShardOf
    Served <- MCServed
    RobotsErrors = TRUE
    MaxExpiries = 0
    Limiter <- MCLimiter
    MaxHostLimiters = 1
    KeepLimiters = 0
    HostInterval = 1
    HostBurst = 2
    MaxCleanups = 0
    Start <- MCStart
    Redirects <- MCRedirects
    MaxRedirectHops = 1
    MaxClientRetries = 1
    Replies <- MCReplies
    Top = top
    Request <- MCRequest
    Nav = nav
    Pages <- MCPages
    Blocked <- Images
    MaxSubresources = 2
INVARIANTS OnlyNavigationUngoverned CeilingHolds TabObeysRobots
PROPERTIES StatusIsThePages PageEnds
