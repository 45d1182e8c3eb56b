SPECIFICATION Spec
CONSTANTS
    BlockedDomains = {"shutterstock"}
    SafeDomains = {"unsplash"}
    BlockedURLPatterns = {}
    Hashes = {0, 9, 10}
    NoImage = NoImage
    Distance <- MCDistance
    URLs <- MCURLs
    Configs <- MCConfigs
    Calls <- SortedCalls
    Replies <- PoolReplies
    Labels = {"PHOTO", "MAP", "NSFW"}
    CachedBefore = {"not cached"}
    validationSemaphore = 3
INVARIANT SafeFirst
