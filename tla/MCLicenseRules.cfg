SPECIFICATION Spec
CONSTANTS
    BlockedDomains = {"shutterstock"}
    SafeDomains = {"unsplash"}
    BlockedURLPatterns = {"/stock-photo"}
    ExtraKeywords = {"", "partner"}
    URLs <- MCURLs
    Metadata <- MCMetadataAllFields
INVARIANTS
    TypeOK
    VerdictFollowsEvidence
    PreCheckAgrees
    BlockedIsFinal
    OnlyHitsDecide
\* A run ends with the verdict.
CHECK_DEADLOCK FALSE
