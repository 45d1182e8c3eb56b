------------------------------- MODULE License -------------------------------
(***************************************************************************)
(* The licence rules: license.go (domain lists), metadata.go (stock and    *)
(* Creative Commons marks), assessment.go (the combined verdict) and the   *)
(* extra-domain pre-check of validate_pipeline.go.                         *)
(*                                                                         *)
(* Text is abstracted to what the rules ask of it.  A URL is a record:     *)
(*   text  the URL itself, "" for the empty string (it is a cache key too) *)
(*   host  the keywords its lower-cased host contains; a URL that does not *)
(*         parse, or has no host, has host = {}; every other host contains *)
(*         the empty keyword "", as strings.Contains says it does          *)
(*   path  the stock-page patterns its lower-cased path contains           *)
(*   logo  whether the URL contains one of LogoBannerPatterns              *)
(* Metadata is the set of fields in which a stock keyword occurs as a word *)
(* and the set of fields that hold a Creative Commons URL.                 *)
(***************************************************************************)
EXTENDS Integers

CONSTANTS
    BlockedDomains,      \* keywords of stock hosts
    SafeDomains,         \* keywords of free hosts
    BlockedURLPatterns   \* patterns of stock pages

\* "" is never a built-in keyword: it would match every host.
ASSUME DomainAssumption == "" \notin BlockedDomains \cup SafeDomains

\* ImageLicense is an iota: the order is the sort order, and the zero value,
\* which a caller that never sets the field gets, is LicenseSafe.
LicenseSafe    == 0
LicenseUnknown == 1
LicenseBlocked == 2
ImageLicense   == {LicenseSafe, LicenseUnknown, LicenseBlocked}

-----------------------------------------------------------------------------
(* Domain classification *)

isBlockedWith(u, extra) ==
    /\ u.text # ""
    /\ \/ (BlockedDomains \cup (extra \ {""})) \cap u.host # {}
       \/ BlockedURLPatterns \cap u.path # {}

\* Mutation: an empty string in a caller's safe list matches every host.
isSafeWithEmptyKeyword(u, extra) == (SafeDomains \cup extra) \cap u.host # {}

isSafeWith(u, extra) == (SafeDomains \cup (extra \ {""})) \cap u.host # {}

\* Mutation: the safe lists are consulted before the blocked ones.
SafeListsFirst(img, src, extraBlocked, extraSafe) ==
    IF \E u \in {img, src} : isSafeWith(u, extraSafe) THEN LicenseSafe
    ELSE IF \E u \in {img, src} : isBlockedWith(u, extraBlocked)
         THEN LicenseBlocked ELSE LicenseUnknown

CheckLicenseWith(img, src, extraBlocked, extraSafe) ==
    IF \E u \in {img, src} : isBlockedWith(u, extraBlocked) THEN LicenseBlocked
    ELSE IF \E u \in {img, src} : isSafeWith(u, extraSafe)
         THEN LicenseSafe ELSE LicenseUnknown

CheckLicense(img, src) == CheckLicenseWith(img, src, {}, {})

-----------------------------------------------------------------------------
(* Metadata marks.  A nil *ImageMetadata answers like one without marks.   *)

StockFields == {"EXIFCopyright", "EXIFArtist", "IPTCCopyright", "IPTCCredit",
                "IPTCSource", "IPTCByline", "DCRights", "DCCreator"}
CCFields    == {"XMPLicense", "XMPWebStatement", "XMPUsageTerms", "DCRights"}
MetaFields  == StockFields \cup CCFields
ImageMetadata == [stockIn : SUBSET MetaFields, ccIn : SUBSET MetaFields]
NoMetadata  == [stockIn |-> {}, ccIn |-> {}]

IsStockByMetadata(meta) == meta.stockIn \cap StockFields # {}
IsCCByMetadata(meta)    == meta.ccIn \cap CCFields # {}

-----------------------------------------------------------------------------
(* The combined verdict *)

hasExtraLists(cfg) == cfg.ExtraBlockedDomains # {} \/ cfg.ExtraSafeDomains # {}
hasURL(cand) == cand.ImgURL.text # "" \/ cand.Source.text # ""
extLicense(cfg, cand) == CheckLicenseWith(cand.ImgURL, cand.Source,
                             cfg.ExtraBlockedDomains, cfg.ExtraSafeDomains)

\* A signal is added only if the extended check changes the classification.
reclassifies(cfg, cand) ==
    hasExtraLists(cfg) /\ extLicense(cfg, cand) \notin {cand.License, LicenseUnknown}

\* The signals AssessLicense collects, as <<source, licence>> pairs.
Signals(cfg, cand, meta) ==
    {s \in {"domain", "extra_domain", "metadata_stock", "metadata_cc"} \X ImageLicense :
        \/ s = <<"domain", cand.License>> /\ hasURL(cand) /\ cand.License # LicenseUnknown
        \/ s = <<"extra_domain", extLicense(cfg, cand)>> /\ reclassifies(cfg, cand)
        \/ s = <<"metadata_stock", LicenseBlocked>> /\ IsStockByMetadata(meta)
        \/ s = <<"metadata_cc", LicenseSafe>> /\ IsCCByMetadata(meta)}

Says(signals, license) == \E s \in signals : s[2] = license

\* Mutation: the verdict starts unset instead of Unknown.
ResolveUnset(signals) ==
    IF Says(signals, LicenseBlocked) THEN LicenseBlocked
    ELSE IF Says(signals, LicenseSafe) THEN LicenseSafe ELSE -1

\* Mutation: the loop stops at the first safe signal.
ResolveSafeFirst(signals) ==
    IF Says(signals, LicenseSafe) THEN LicenseSafe
    ELSE IF Says(signals, LicenseBlocked) THEN LicenseBlocked ELSE LicenseUnknown

Resolve(signals) ==
    IF Says(signals, LicenseBlocked) THEN LicenseBlocked
    ELSE IF Says(signals, LicenseSafe) THEN LicenseSafe ELSE LicenseUnknown

AssessLicense(cfg, cand, meta) == Resolve(Signals(cfg, cand, meta))

\* Mutation: the pre-check runs without extra domains too.
isBlockedUnguarded(cfg, cand) ==
    CheckLicenseWith(cand.ImgURL, cand.Source, cfg.ExtraBlockedDomains, {}) = LicenseBlocked

\* The check made before the download (validate_pipeline.go).
isBlockedByExtraDomains(cfg, cand) ==
    /\ cfg.ExtraBlockedDomains # {}
    /\ CheckLicenseWith(cand.ImgURL, cand.Source, cfg.ExtraBlockedDomains, {}) = LicenseBlocked
==============================================================================
