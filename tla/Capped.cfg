SPECIFICATION Spec
CONSTANTS
    a = a
    b = b
    c = c
    aAlias = aAlias
    outOfScope = outOfScope
    t1 = t1
    t2 = t2
    t3 = t3
    en = en
    de = de
    none = none
    URL <- MCURL
    Raw <- MCRaw
    Normalize <- MCNormalize
    Text <- MCText
    NoText = none
    Lang <- MCLang
    NoLang = none
    Near <- MCNear
    Web <- TextWeb
    Failures <- OnlyRetryable
    Seeds <- SeedAndSitemap
    Saved <- SavedRetry
    OldSeen <- SomeStores
    StoreErrors = TRUE
    MaxPages = 2
    MaxDepth = 2
    MaxQueue = 2
    MaxRetries = 2
    MaxSimhashes = 3
    DedupContent = TRUE
    DedupNear = TRUE
    AllowedLangs <- KeepEnglish
INVARIANTS PageCap FrontierBound EmittedNotNear
