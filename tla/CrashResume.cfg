SPECIFICATION CSpec
CONSTANTS
    a = a
    b = b
    c = c
    aAlias = aAlias
    outOfScope = outOfScope
    t1 = t1
    t2 = t2
    t3 = t3
    en = en
    de = de
    none = none
    URL <- TwoURL
    Raw <- MCRaw
    Normalize <- MCNormalize
    Text <- MCText
    NoText = none
    Lang <- MCLang
    NoLang = none
    Near <- MCNear
    Web <- ChainWeb
    Failures <- NoFailures
    Seeds <- OneSeed
    Saved <- NoCheckpoint
    OldSeen <- FreshStore
    StoreErrors = FALSE
    MaxPages = 0
    MaxDepth = 0
    MaxQueue = 0
    MaxRetries = 0
    MaxSimhashes = 1
    DedupContent = TRUE
    DedupNear = FALSE
    AllowedLangs <- AllLangs
    Inode = {1, 2, 3, 4}
    MaxTicks = 1
    MaxRuns = 2
INVARIANTS OnePlace LoneSaveIsAtomic OnlyMidAirLost FileAgreesWithStore
PROPERTY NoPageTwice
