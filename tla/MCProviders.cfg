SPECIFICATION FairSpec
CONSTANTS
    BlockedDomains <- MCBlockedDomains
    SafeDomains <- MCSafeDomains
    BlockedURLPatterns <- MCBlockedURLPatterns
    Raws <- MCRaws
    Chains <- MCChains
    Replies <- MCReplies
INVARIANTS
    FirstFoundWins
    FilterExact
    RequestProtocol
PROPERTY
    DeadlineEnds
