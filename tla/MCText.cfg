CONSTANTS
    a = a
    b = b
    dash = dash
    maxLen = 6
    Chars <- MCChars
    WordChars = {a, b}
    Texts <- MCTexts
    Keywords <- MCKeywords
    empty = empty
    jane = jane
    agency = agency
    cc = cc
    true = true
    Values <- MCValues
    NoText = empty
    StockValues = {agency}
    CCValues = {cc}
    TrueText = true
    Files <- MCFiles
    Pages <- MCPages
    BlockedDomains = {"stock"}
    SafeDomains = {"free"}
    BlockedURLPatterns = {"/stock-photo"}
SPECIFICATION MCSpec
INVARIANTS ContainsWordExact LastTextDecides NilMeansNothingKept LicenceFound
CHECK_DEADLOCK FALSE
