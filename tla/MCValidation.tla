----------------------------- MODULE MCValidation ----------------------------
EXTENDS Validation

MCDistance(h, k) == IF h > k THEN h - k ELSE k - h

MCURL(text, host, logo) == [text |-> text, host |-> host, path |-> {}, logo |-> logo]
Plain   == MCURL("plain", {""}, FALSE)
Other   == MCURL("other", {""}, FALSE)
Stock   == MCURL("stock", {"", "shutterstock"}, FALSE)
Partner == MCURL("partner", {"", "partner"}, FALSE)
Logo    == MCURL("logo", {""}, TRUE)
Busy    == MCURL("busy", {""}, FALSE)
MCURLs  == {Plain, Other, Stock, Partner, Logo, Busy}
GateURLs == {Plain, Partner, Logo}

Cand(u, license) == [ImgURL |-> u, Source |-> u, License |-> license]

Reply(width, size, look, meta) ==
    [status |-> StatusOK, image |-> TRUE, width |-> width, size |-> size,
     look |-> look, meta |-> meta]
Marks(stock, cc) == [stockIn |-> stock, ccIn |-> cc]

Config(classifier, hasCache, ox, blocked) ==
    [ExtraBlockedDomains |-> blocked, ExtraSafeDomains |-> {}, StealthClient |-> TRUE,
     Classifier |-> classifier, Cache |-> hasCache, OxBrowserURL |-> ox]
MCConfigs == {Config(c, k, o, b) : c, k, o \in BOOLEAN, b \in {{}, {"partner"}}}

MCCall(toValidate, maxResults, cfg) ==
    [toValidate |-> toValidate, maxResults |-> maxResults, cfg |-> cfg]

-----------------------------------------------------------------------------
(* Pool: more candidates than slots and more than are asked for; and images *)
(* that may look alike, of which one or none may be chosen whatever the     *)
(* servers say, with lists that fill.                                       *)

PoolCalls ==
    {MCCall([i \in 1..3 |-> Cand(Busy, LicenseSafe)], m, Config(FALSE, FALSE, FALSE, {})) :
        m \in {0, 1, 2}}
    \cup {MCCall(<<c, Cand(Plain, LicenseSafe)>>, m, Config(FALSE, FALSE, FALSE, {"partner"})) :
            c \in {Cand(Plain, LicenseSafe), Cand(Partner, LicenseSafe),
                   Cand(Logo, LicenseSafe), Cand(Other, LicenseBlocked)},
            m \in {1, 2}}
PoolReplies(u) ==
    IF u = Busy THEN {Reply(880, 100, NoImage, NoMetadata)}
    ELSE {Reply(880, 100, 0, NoMetadata), Reply(880, 100, 9, NoMetadata),
          Reply(880, 201, 0, NoMetadata), Reply(880, 100, 10, NoMetadata)}

(* Gates: two candidates of every kind through every stage, one under every   *)
(* configuration, and three images of which the second looks like both        *)
(* others, while the first and the third are exactly dedupThreshold apart.    *)
GateCalls ==
    {MCCall(<<c, Cand(Plain, LicenseUnknown)>>, 2, Config(TRUE, TRUE, TRUE, {"partner"})) :
        c \in {Cand(Plain, LicenseSafe), Cand(Plain, LicenseUnknown),
               Cand(Partner, LicenseSafe), Cand(Logo, LicenseUnknown)}}
    \cup {MCCall(<<Cand(Plain, LicenseUnknown)>>, 1, c) : c \in MCConfigs}
    \cup {MCCall([i \in 1..3 |-> Cand(Partner, LicenseSafe)], 3, Config(FALSE, FALSE, FALSE, {}))}
GateReplies(u) ==
    IF u = Partner THEN {Reply(880, 100, h, NoMetadata) : h \in {0, 9, 10}}
    ELSE {Reply(879, 100, 0, NoMetadata), Reply(0, 100, 0, NoMetadata),
          Reply(880, 200, 0, NoMetadata),
          Reply(880, 201, 9, Marks({}, {"XMPLicense"})),
          Reply(880, 100, 10, Marks({"DCRights"}, {"DCRights"}))}

-----------------------------------------------------------------------------
(* Calls for the statements of documents and tests. *)

\* Sorted input, as SearchImages and FindImages pass it on.
SortedCalls == {MCCall(<<Cand(Plain, LicenseSafe), Cand(Other, LicenseUnknown)>>, 2,
                       Config(FALSE, FALSE, FALSE, {}))}

\* The candidate of TestValidateCandidates_FiltersBlocked, its License unset.
UnsetCalls == {MCCall(<<Cand(Stock, LicenseSafe)>>, 5, Config(FALSE, FALSE, FALSE, {}))}
==============================================================================
