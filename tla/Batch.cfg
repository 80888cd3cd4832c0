SPECIFICATION Spec
CONSTANTS
    malformed = malformed
    w1 = w1
    w2 = w2
    Decode <- MCDecode
    Extension <- MCExtension
    BlockedKeys <- Tracking
    AllowedKeys <- Nothing
    AllowedDomains <- Sites
    BlockedDomains <- NotSub
    AllowedExtensions <- Html
    BlockedExtensions <- Pdf
    ExcludeNames <- Nothing
    IncludeNames <- Nothing
    MaxPathDepth = 3
    Worker = {w1, w2}
    Batches <- MCBatches
    Malformed = malformed
    OldUrls <- MCOldUrls
    StoreErrors = TRUE
INVARIANTS OneOfEachResource AcceptedIsStable BatchAnswered
