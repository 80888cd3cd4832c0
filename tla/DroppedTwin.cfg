SPECIFICATION Spec
CONSTANTS
    a = a
    b = b
    c = c
    aAlias = aAlias
    outOfScope = outOfScope
    t1 = t1
    t2 = t2
    t3 = t3
    en = en
    de = de
    none = none
    URL <- MCURL
    Raw <- MCRaw
    Normalize <- MCNormalize
    Text <- MCText
    NoText = none
    Lang <- MCLang
    NoLang = none
    Near <- MCNear
    Web <- TextWeb
    Failures <- NoFailures
    Seeds <- AllSeeds
    Saved <- NoCheckpoint
    OldSeen <- FreshStore
    StoreErrors = FALSE
    MaxPages = 0
    MaxDepth = 0
    MaxQueue = 0
    MaxRetries = 0
    MaxSimhashes = 3
    DedupContent = TRUE
    DedupNear = FALSE
    AllowedLangs <- KeepEnglish
PROPERTY DuplicatesHaveTwin
