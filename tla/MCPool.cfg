SPECIFICATION FairSpec
CONSTANTS
    BlockedDomains = {"shutterstock"}
    SafeDomains = {"unsplash"}
    BlockedURLPatterns = {}
    Hashes = {0, 9, 10}
    NoImage = NoImage
    Distance <- MCDistance
    URLs <- MCURLs
    Configs <- MCConfigs
    Calls <- PoolCalls
    Replies <- PoolReplies
    Labels = {"PHOTO"}
    CachedBefore = {"not cached"}
    validationSemaphore = 2
INVARIANTS
    TypeOK
    ResultBound
    BoundedParallelism
    NothingLost
PROPERTIES
    ResultFrozen
    ImplementsSelection
    EventuallyReturns
