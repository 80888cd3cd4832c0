SPECIFICATION FairSpec
CONSTANTS
    a = a
    b = b
    c = c
    aAlias = aAlias
    outOfScope = outOfScope
    t1 = t1
    t2 = t2
    t3 = t3
    en = en
    de = de
    none = none
    URL <- MCURL
    Raw <- MCRaw
    Normalize <- MCNormalize
    Text <- MCText
    NoText = none
    Lang <- MCLang
    NoLang = none
    Near <- MCNear
    Web <- LinkedWeb
    Failures <- BothFailures
    Seeds <- OneSeed
    Saved <- NoCheckpoint
    OldSeen <- FreshStore
    StoreErrors = FALSE
    MaxPages = 0
    MaxDepth = 2
    MaxQueue = 0
    MaxRetries = 1
    MaxSimhashes = 1
    DedupContent = TRUE
    DedupNear = FALSE
    AllowedLangs <- AllLangs
INVARIANTS TypeOK InFlightAccounts CompleteEnd NoLostWakeup SettledOnce LinksFollowed EmittedDistinct
PROPERTIES SunkOnce Terminates
