SPECIFICATION FairSpec
CONSTANTS
    Names = {"a", "b", "searxng", "og", "content", "slow"}
    Candidates <- MCCandidates
    BlockedDomains = {"shutterstock"}
    SafeDomains = {"unsplash"}
    BlockedURLPatterns = {}
    Hashes = {0}
    NoImage = NoImage
    Distance <- MCDistance
    Answers <- MCAnswers
    Pages <- MCPages
    Hanging = {"slow"}
    Requests <- MCRequests
INVARIANTS
    TypeOK
    OfferedIsValidated
    RankKept
    PageFetchedOnce
    ResultsSound
PROPERTIES
    MergeFrozen
    DeadlineReturns
