SPECIFICATION Spec
CONSTANTS
    malformed = malformed
    blank = blank
    s1 = s1
    s2 = s2
    s3 = s3
    s4 = s4
    conventional = conventional
    Decode <- MCDecode
    Extension <- MCExtension
    BlockedKeys <- NoStrings
    AllowedKeys <- NoStrings
    AllowedDomains <- Sites
    BlockedDomains <- NoStrings
    AllowedExtensions <- NoStrings
    BlockedExtensions <- NoStrings
    ExcludeNames <- NoStrings
    IncludeNames <- NoStrings
    MaxPathDepth = 0
    Location <- MCLocation
    Blank = blank
    Documents <- MCDocuments
    Listings <- MCListings
    Conventional = conventional
    MaxSitemapsFetched = 4
    MaxSitemapURLs = 4
    Seed <- Root
    Pages <- MCPages
    Malformed = malformed
INVARIANTS SitemapsComplete LinksAreTheirTargets
