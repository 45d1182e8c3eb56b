SPECIFICATION Spec
CONSTANTS
    BlockedDomains <- MCBlockedDomains
    SafeDomains <- MCSafeDomains
    BlockedURLPatterns <- MCBlockedURLPatterns
    LongWords <- MCLongWords
    URLs <- MCURLs
    Requests <- MCRequests
    Docs <- MCDocs
    contentMaxResults = 2
INVARIANTS
    OneVariantEach
    NothingUsableLost
    OwnImages
    SlugFirst
