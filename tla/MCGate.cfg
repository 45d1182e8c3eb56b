SPECIFICATION Spec
CONSTANTS
    BlockedDomains = {"shutterstock"}
    SafeDomains = {"unsplash"}
    BlockedURLPatterns = {}
    Hashes = {0, 9, 10}
    NoImage = NoImage
    Distance <- MCDistance
    URLs <- GateURLs
    Configs <- MCConfigs
    Calls <- GateCalls
    Replies <- GateReplies
    Labels = {"PHOTO", "MAP", "NSFW"}
    CachedBefore = {"not cached", "STOCK"}
    validationSemaphore = 2
INVARIANTS
    OnlyCleared
    AuditAgrees
    NoVisualDuplicates
    DuplicateHasTwin
