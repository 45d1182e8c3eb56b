---------------------------- MODULE LicenseRules -----------------------------
(***************************************************************************)
(* One candidate on its way through the licence rules, in the order of     *)
(* validateOne: the extra-domain pre-check, then, with the metadata of the *)
(* downloaded bytes, AssessLicense.  Every configuration, candidate and    *)
(* metadata of the instance is an initial state.                           *)
(***************************************************************************)
EXTENDS License

CONSTANTS URLs, ExtraKeywords, Metadata

\* The empty string has no host.
ASSUME URLAssumption == \A u \in URLs : u.text = "" => u.host = {}

VARIABLES cfg, cand, meta, verdict
vars == <<cfg, cand, meta, verdict>>

Configs    == [ExtraBlockedDomains : SUBSET ExtraKeywords,
               ExtraSafeDomains    : SUBSET ExtraKeywords]
Candidates == [ImgURL : URLs, Source : URLs, License : ImageLicense]

Pending == -1

Init ==
    /\ cfg \in Configs
    /\ cand \in Candidates
    /\ meta \in Metadata
    /\ verdict = [stage |-> "new", license |-> Pending]

PreCheck ==
    /\ verdict.stage = "new"
    /\ verdict' = IF isBlockedByExtraDomains(cfg, cand)
                  THEN [stage |-> "prechecked", license |-> LicenseBlocked]
                  ELSE [stage |-> "downloaded", license |-> Pending]
    /\ UNCHANGED <<cfg, cand, meta>>

Assess ==
    /\ verdict.stage = "downloaded"
    /\ verdict' = [stage |-> "assessed", license |-> AssessLicense(cfg, cand, meta)]
    /\ UNCHANGED <<cfg, cand, meta>>

Next == PreCheck \/ Assess

Spec == Init /\ [][Next]_vars

-----------------------------------------------------------------------------

\* Types; the licence is set exactly once a rule of the pipeline has decided.
TypeOK ==
    /\ cfg \in Configs /\ cand \in Candidates /\ meta \in Metadata
    /\ verdict \in [stage : {"new", "prechecked", "downloaded", "assessed"},
                    license : ImageLicense \cup {Pending}]
    /\ verdict.license = Pending <=> verdict.stage \in {"new", "downloaded"}

\* The evidence a verdict may rest on, source by source, without the rule that
\* drops an extended-domain signal equal to the search-time licence.
Evidence(c, x, m, license) ==
    \/ hasURL(x) /\ x.License = license
    \/ hasExtraLists(c) /\ extLicense(c, x) = license
    \/ license = LicenseBlocked /\ IsStockByMetadata(m)
    \/ license = LicenseSafe /\ IsCCByMetadata(m)

\* AssessLicense: the verdict is Blocked exactly when some evidence says so,
\* and Safe exactly when some says so and none says Blocked; leaving out an
\* extra_domain signal that repeats the search-time licence loses nothing.
VerdictFollowsEvidence ==
    verdict.stage = "assessed" =>
        /\ verdict.license = LicenseBlocked <=> Evidence(cfg, cand, meta, LicenseBlocked)
        /\ verdict.license = LicenseSafe <=> /\ Evidence(cfg, cand, meta, LicenseSafe)
                                             /\ ~Evidence(cfg, cand, meta, LicenseBlocked)

\* isBlockedByExtraDomains only saves a download: whatever the metadata would
\* have been, AssessLicense would have blocked the candidate too, and so would
\* it under any list of extra safe domains.
PreCheckAgrees ==
    verdict.stage = "prechecked" =>
        \A m \in Metadata, safe \in SUBSET ExtraKeywords :
            AssessLicense([cfg EXCEPT !.ExtraSafeDomains = safe], cand, m) = LicenseBlocked

\* "Blocked always takes precedence": a blocked candidate stays blocked when a
\* caller adds domains to either extra list, or the image carries more marks.
BlockedIsFinal ==
    verdict.license = LicenseBlocked =>
        \A c \in Configs, m \in Metadata :
            /\ cfg.ExtraBlockedDomains \subseteq c.ExtraBlockedDomains
            /\ cfg.ExtraSafeDomains \subseteq c.ExtraSafeDomains
            /\ meta.stockIn \subseteq m.stockIn
            => \/ isBlockedByExtraDomains(c, cand)
               \/ AssessLicense(c, cand, m) = LicenseBlocked

\* The entries of a caller's list that occur in one of the candidate's hosts; the
\* empty string is in every host and never counts.
hits(list, x) == (list \ {""}) \cap (x.ImgURL.host \cup x.Source.host)

\* What validateOne decides about the licence under configuration c.
decision(c, x, m) ==
    IF isBlockedByExtraDomains(c, x) THEN LicenseBlocked ELSE AssessLicense(c, x, m)

\* The pre-check and AssessLicense read the same lists in different combinations.
\* Whichever of them decides, two callers whose extra lists have the same entries
\* in the candidate's hosts get the same decision: the entries that match neither
\* host (a stray empty string, another partner) count for nothing in either list.
\* Only having lists at all counts: the first entry, matching or not, makes
\* AssessLicense look at the built-in lists again.
OnlyHitsDecide ==
    verdict.license # Pending =>
        \A c \in Configs :
            /\ hasExtraLists(c) <=> hasExtraLists(cfg)
            /\ hits(c.ExtraBlockedDomains, cand) = hits(cfg.ExtraBlockedDomains, cand)
            /\ hits(c.ExtraSafeDomains, cand) = hits(cfg.ExtraSafeDomains, cand)
            => decision(c, cand, meta) = verdict.license

\* The comment on stockMetadataKeywords (metadata.go): a stock keyword marks the
\* image "when found in any metadata field".
AnyStockFieldBlocks ==
    verdict.stage = "assessed" /\ meta.stockIn # {} => verdict.license = LicenseBlocked
==============================================================================
