------------------------------- MODULE MCSearch ------------------------------
EXTENDS Search

MCDistance(h, k) == IF h > k THEN h - k ELSE k - h

Picture(name, license, logo) ==
    LET u == [text |-> name, host |-> {""}, path |-> {}, logo |-> logo]
    IN [ImgURL |-> u, Source |-> u, License |-> license]

A1 == Picture("a1", LicenseUnknown, FALSE)
A2 == Picture("a2", LicenseSafe, FALSE)
A3 == Picture("a3", LicenseUnknown, FALSE)
B1 == Picture("b1", LicenseUnknown, FALSE)
P1 == Picture("p1", LicenseUnknown, FALSE)
P2 == Picture("p2", LicenseUnknown, TRUE)
X1 == Picture("x1", LicenseBlocked, FALSE)
X2 == Picture("x2", LicenseSafe, FALSE)
MCCandidates == {A1, A2, A3, B1, P1, P2, X1, X2}

\* Two providers that rank, one that is wired to the page, one that hangs.
MCAnswers(name) ==
    CASE name = "a"       -> {<<A1, A2, A3>>, <<>>}
      [] name = "b"       -> {<<B1>>}
      [] name = "searxng" -> {<<B1>>, <<>>}
      [] name = "og"      -> {<<P1>>, <<>>}
      [] name = "content" -> {<<P1, P2>>}
      [] name = "slow"    -> {}
MCPages == {<<P1, P2>>}

Config(names, searx) ==
    [ExtraBlockedDomains |-> {}, ExtraSafeDomains |-> {}, StealthClient |-> FALSE,
     Classifier |-> FALSE, Cache |-> FALSE, OxBrowserURL |-> FALSE,
     Providers |-> names, SearxngURL |-> searx]

Request(entry, query, max, pageURL, optsPageURL, external, deadline, cfg) ==
    [entry |-> entry, Query |-> query, maxResults |-> max, Timeout |-> TRUE,
     PageURL |-> pageURL, optsPageURL |-> optsPageURL, External |-> external,
     deadline |-> deadline, cfg |-> cfg]

SearchRequests ==
    {Request("SearchImagesWithOpts", q, 2, "", "", <<>>, d, c) :
        q, d \in BOOLEAN,
        c \in {Config(<<"a", "b", "searxng">>, FALSE), Config(<<"a", "slow">>, TRUE), Config(<<>>, TRUE),
               Config(<<>>, FALSE)}}
FindRequests ==
    {Request("FindImages", q, m, u, o, x, d, c) :
        q, d \in BOOLEAN, m \in {0, 1}, u \in {"", "page"}, o \in {"", "elsewhere"},
        x \in {<<>>, <<X1, X2>>},
        c \in {Config(<<"b", "og">>, FALSE), Config(<<"content", "slow">>, FALSE),
               Config(<<>>, TRUE)}}
ValidateRequests ==
    {Request("ValidateCandidates", FALSE, m, "", "", x, FALSE, Config(<<>>, FALSE)) :
        m \in {0, 2}, x \in {<<>>, <<X1, X2>>}}

MCRequests == SearchRequests \cup FindRequests \cup ValidateRequests

\* A call for what a comment says: a provider that never answers.
SlowFind == {Request("FindImages", TRUE, 2, "", "", <<>>, FALSE, Config(<<"b", "slow">>, FALSE))}
==============================================================================
