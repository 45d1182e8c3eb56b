---------------------------- MODULE LicenseProofs ----------------------------
(***************************************************************************)
(* The licence rules for every domain list, configuration, URL and         *)
(* metadata.  The operators are not recursive: each theorem is a case      *)
(* analysis over the signals.                                              *)
(***************************************************************************)
EXTENDS LicenseRules, TLAPS

\* The three licences are different.
LEMMA LicensesDiffer ==
    /\ LicenseBlocked # LicenseUnknown /\ LicenseSafe # LicenseUnknown
    /\ LicenseBlocked # LicenseSafe
BY DEF LicenseBlocked, LicenseSafe, LicenseUnknown

\* CheckLicenseWith answers with one of the three licences.
LEMMA CheckLicenseType ==
    ASSUME NEW img, NEW src, NEW eb, NEW es
    PROVE  CheckLicenseWith(img, src, eb, es) \in ImageLicense
BY DEF CheckLicenseWith, ImageLicense

\* What the set of signals says about a licence other than Unknown is what the
\* evidence says: a dropped extra_domain signal repeats the search-time licence,
\* and then the domain signal is there, since a URL was needed to reach a verdict.
LEMMA SignalsAreEvidence ==
    ASSUME NEW c, NEW x, NEW m, NEW l \in {LicenseBlocked, LicenseSafe},
           x.License \in ImageLicense,
           \A u \in {x.ImgURL, x.Source} : u.text = "" => u.host = {}
    PROVE  Says(Signals(c, x, m), l) <=> Evidence(c, x, m, l)
<1> DEFINE S == Signals(c, x, m)
<1>0. extLicense(c, x) \in ImageLicense
  BY CheckLicenseType DEF extLicense
<1>1. l \in ImageLicense /\ l # LicenseUnknown
  BY LicensesDiffer, Zenon DEF ImageLicense
<1>2. ASSUME Says(S, l) PROVE Evidence(c, x, m, l)
  <2>1. PICK s \in S : s[2] = l
    BY <1>2 DEF Says
  <2>2. CASE s = <<"domain", x.License>> /\ hasURL(x) /\ x.License # LicenseUnknown
    BY <2>1, <2>2 DEF Evidence
  <2>3. CASE s = <<"extra_domain", extLicense(c, x)>> /\ reclassifies(c, x)
    BY <2>1, <2>3 DEF Evidence, reclassifies
  <2>4. CASE s = <<"metadata_stock", LicenseBlocked>> /\ IsStockByMetadata(m)
    BY <2>1, <2>4 DEF Evidence
  <2>5. CASE s = <<"metadata_cc", LicenseSafe>> /\ IsCCByMetadata(m)
    BY <2>1, <2>5 DEF Evidence
  <2> QED BY <2>1, <2>2, <2>3, <2>4, <2>5 DEF Signals
<1>3. ASSUME Evidence(c, x, m, l) PROVE Says(S, l)
  <2>1. CASE hasURL(x) /\ x.License = l
    <3>1. <<"domain", l>> \in S
      BY <1>1, <2>1 DEF Signals
    <3> QED BY <3>1 DEF Says
  <2>2. CASE hasExtraLists(c) /\ extLicense(c, x) = l
    <3>1. CASE x.License = l
      <4>1. hasURL(x)
        BY <1>1, <2>2 DEF extLicense, CheckLicenseWith, isBlockedWith, isSafeWith, hasURL,
           LicenseBlocked, LicenseSafe, LicenseUnknown
      <4> QED BY <4>1, <3>1, <2>1
    <3>2. CASE x.License # l
      <4>1. <<"extra_domain", l>> \in S
        BY <1>1, <2>2, <3>2 DEF Signals, reclassifies
      <4> QED BY <4>1 DEF Says
    <3> QED BY <3>1, <3>2
  <2>3. CASE l = LicenseBlocked /\ IsStockByMetadata(m)
    <3>1. <<"metadata_stock", l>> \in S
      BY <1>1, <2>3 DEF Signals
    <3> QED BY <3>1 DEF Says
  <2>4. CASE l = LicenseSafe /\ IsCCByMetadata(m)
    <3>1. <<"metadata_cc", l>> \in S
      BY <1>1, <2>4 DEF Signals
    <3> QED BY <3>1 DEF Says
  <2> QED BY <1>3, <2>1, <2>2, <2>3, <2>4 DEF Evidence
<1> QED BY <1>2, <1>3

\* The records of an instance: an empty URL has no host.
WellFormed(x) ==
    /\ x.License \in ImageLicense
    /\ \A u \in {x.ImgURL, x.Source} : u.text = "" => u.host = {}

\* AssessLicense resolves Blocked > Safe > Unknown over all evidence there is.
THEOREM AssessmentFollowsEvidence ==
    ASSUME NEW c, NEW x, NEW m, WellFormed(x)
    PROVE  /\ AssessLicense(c, x, m) = LicenseBlocked <=> Evidence(c, x, m, LicenseBlocked)
           /\ AssessLicense(c, x, m) = LicenseSafe <=> /\ Evidence(c, x, m, LicenseSafe)
                                                       /\ ~Evidence(c, x, m, LicenseBlocked)
<1>1. Says(Signals(c, x, m), LicenseBlocked) <=> Evidence(c, x, m, LicenseBlocked)
  BY SignalsAreEvidence DEF WellFormed
<1>2. Says(Signals(c, x, m), LicenseSafe) <=> Evidence(c, x, m, LicenseSafe)
  BY SignalsAreEvidence DEF WellFormed
<1> QED BY <1>1, <1>2, LicensesDiffer, Zenon DEF AssessLicense, Resolve

\* A list of extra blocked domains only blocks more, and safe ones never unblock.
LEMMA BlockedMonotone ==
    ASSUME NEW img, NEW src, NEW eb, NEW es, NEW eb2, NEW es2, eb \subseteq eb2,
           CheckLicenseWith(img, src, eb, es) = LicenseBlocked
    PROVE  CheckLicenseWith(img, src, eb2, es2) = LicenseBlocked
<1>1. PICK u \in {img, src} : isBlockedWith(u, eb)
  BY LicensesDiffer, Zenon DEF CheckLicenseWith
<1>2. isBlockedWith(u, eb2)
  BY <1>1 DEF isBlockedWith
<1> QED BY <1>2, Zenon DEF CheckLicenseWith

\* The pre-check only saves a download: AssessLicense agrees, whatever the metadata
\* and the extra safe domains.
THEOREM PreCheckIsSound ==
    ASSUME NEW c, NEW x, NEW m, WellFormed(x), isBlockedByExtraDomains(c, x)
    PROVE  AssessLicense(c, x, m) = LicenseBlocked
<1>1. hasExtraLists(c)
  BY DEF isBlockedByExtraDomains, hasExtraLists
<1>2. extLicense(c, x) = LicenseBlocked
  BY BlockedMonotone, Zenon DEF isBlockedByExtraDomains, extLicense
<1>3. Evidence(c, x, m, LicenseBlocked)
  BY <1>1, <1>2, Zenon DEF Evidence
<1> QED BY <1>3, AssessmentFollowsEvidence
\* Evidence against an image is not undone by longer lists or more marks.
LEMMA EvidenceMonotone ==
    ASSUME NEW c, NEW c2, NEW x, NEW m, NEW m2,
           c.ExtraBlockedDomains \subseteq c2.ExtraBlockedDomains,
           c.ExtraSafeDomains \subseteq c2.ExtraSafeDomains,
           m.stockIn \subseteq m2.stockIn,
           Evidence(c, x, m, LicenseBlocked)
    PROVE  Evidence(c2, x, m2, LicenseBlocked)
<1>1. CASE hasURL(x) /\ x.License = LicenseBlocked
  BY <1>1 DEF Evidence
<1>2. CASE hasExtraLists(c) /\ extLicense(c, x) = LicenseBlocked
  <2>1. hasExtraLists(c2)
    BY <1>2 DEF hasExtraLists
  <2>2. extLicense(c2, x) = LicenseBlocked
    BY <1>2, BlockedMonotone, Zenon DEF extLicense
  <2> QED BY <2>1, <2>2, Zenon DEF Evidence
<1>3. CASE IsStockByMetadata(m)
  <2>1. IsStockByMetadata(m2)
    BY <1>3 DEF IsStockByMetadata
  <2> QED BY <2>1, Zenon DEF Evidence
<1> QED BY <1>1, <1>2, <1>3, LicensesDiffer, Zenon DEF Evidence

-----------------------------------------------------------------------------
(* The invariant: which rule decided, and from what. *)

RulesInv ==
    /\ cand \in Candidates
    /\ verdict.stage \in {"new", "prechecked", "downloaded", "assessed"}
    /\ verdict.stage \in {"new", "downloaded"} => verdict.license = Pending
    /\ verdict.stage = "prechecked" => /\ isBlockedByExtraDomains(cfg, cand)
                                       /\ verdict.license = LicenseBlocked
    /\ verdict.stage = "assessed" => verdict.license = AssessLicense(cfg, cand, meta)

\* The candidates of the instance satisfy URLAssumption.
LEMMA CandidatesWellFormed == \A x \in Candidates : WellFormed(x)
BY URLAssumption DEF Candidates, WellFormed

\* The decision recorded so far is the one the rules make.
LEMMA RulesInvariant == Spec => []RulesInv
<1>1. Init => RulesInv
  BY DEF Init, RulesInv
<1>2. RulesInv /\ [Next]_vars => RulesInv'
  <2> SUFFICES ASSUME RulesInv, [Next]_vars PROVE RulesInv'
    OBVIOUS
  <2>1. CASE PreCheck
    BY <2>1 DEF RulesInv, PreCheck
  <2>2. CASE Assess
    BY <2>2 DEF RulesInv, Assess
  <2>3. CASE UNCHANGED vars
    BY <2>3 DEF RulesInv, vars
  <2> QED BY <2>1, <2>2, <2>3 DEF Next
<1> QED BY <1>1, <1>2, PTL DEF Spec

\* For every instance, the verdict is the one the evidence demands.
THEOREM VerdictCorrect == Spec => []VerdictFollowsEvidence
<1>1. RulesInv => VerdictFollowsEvidence
  BY AssessmentFollowsEvidence, CandidatesWellFormed, Zenon DEF RulesInv, VerdictFollowsEvidence
<1> QED BY <1>1, RulesInvariant, PTL

\* For every instance, the pre-check never rejects what the assessment would keep.
THEOREM PreCheckCorrect == Spec => []PreCheckAgrees
<1>1. RulesInv => PreCheckAgrees
  <2> SUFFICES ASSUME RulesInv, verdict.stage = "prechecked",
                      NEW m \in Metadata, NEW safe \in SUBSET ExtraKeywords
               PROVE  AssessLicense([cfg EXCEPT !.ExtraSafeDomains = safe], cand, m) = LicenseBlocked
    BY Zenon DEF PreCheckAgrees
  <2> DEFINE c == [cfg EXCEPT !.ExtraSafeDomains = safe]
  <2>1. isBlockedByExtraDomains(c, cand)
    <3>1. isBlockedByExtraDomains(cfg, cand)
      BY DEF RulesInv
    <3>2. c.ExtraBlockedDomains = cfg.ExtraBlockedDomains
      OBVIOUS
    <3> QED BY <3>1, <3>2, Zenon DEF isBlockedByExtraDomains
  <2>2. WellFormed(cand)
    BY CandidatesWellFormed DEF RulesInv
  <2> QED BY <2>1, <2>2, PreCheckIsSound
<1> QED BY <1>1, RulesInvariant, PTL

\* For every instance, nothing a caller adds to its lists lifts a block.
THEOREM BlockedStaysBlocked == Spec => []BlockedIsFinal
<1>1. RulesInv => BlockedIsFinal
  <2> SUFFICES ASSUME RulesInv, verdict.license = LicenseBlocked,
                      NEW c \in Configs, NEW m \in Metadata,
                      cfg.ExtraBlockedDomains \subseteq c.ExtraBlockedDomains,
                      cfg.ExtraSafeDomains \subseteq c.ExtraSafeDomains,
                      meta.stockIn \subseteq m.stockIn
               PROVE  AssessLicense(c, cand, m) = LicenseBlocked
    BY Zenon DEF BlockedIsFinal
  <2>1. WellFormed(cand)
    BY CandidatesWellFormed DEF RulesInv
  <2>2. AssessLicense(cfg, cand, meta) = LicenseBlocked
    <3>1. verdict.stage \in {"prechecked", "assessed"}
      BY DEF RulesInv, Pending, LicenseBlocked
    <3> QED BY <3>1, <2>1, PreCheckIsSound DEF RulesInv
  <2>3. Evidence(cfg, cand, meta, LicenseBlocked)
    BY <2>1, <2>2, AssessmentFollowsEvidence
  <2>4. Evidence(c, cand, m, LicenseBlocked)
    BY <2>3, EvidenceMonotone
  <2> QED BY <2>1, <2>4, AssessmentFollowsEvidence
<1> QED BY <1>1, RulesInvariant, PTL

\* AssessLicense answers with one of the three licences.
LEMMA AssessType ==
    ASSUME NEW c, NEW x, NEW m
    PROVE  AssessLicense(c, x, m) \in ImageLicense
BY DEF AssessLicense, Resolve, ImageLicense

\* For every instance, a licence is recorded exactly when a rule has decided.
THEOREM RulesTypeCorrect == Spec => []TypeOK
<1> USE DEF TypeOK, Pending, ImageLicense, LicenseSafe, LicenseUnknown, LicenseBlocked
<1>1. Init => TypeOK
  BY DEF Init
<1>2. TypeOK /\ [Next]_vars => TypeOK'
  <2> SUFFICES ASSUME TypeOK, [Next]_vars PROVE TypeOK'
    OBVIOUS
  <2>1. CASE PreCheck
    BY <2>1 DEF PreCheck
  <2>2. CASE Assess
    BY <2>2, AssessType DEF Assess
  <2>3. CASE UNCHANGED vars
    BY <2>3 DEF vars
  <2> QED BY <2>1, <2>2, <2>3 DEF Next
<1> QED BY <1>1, <1>2, PTL DEF Spec

\* The decision is the assessment's, whether or not the pre-check came first.
LEMMA DecisionIsAssessment ==
    ASSUME NEW c, NEW x, NEW m, WellFormed(x)
    PROVE  decision(c, x, m) = AssessLicense(c, x, m)
BY PreCheckIsSound, Zenon DEF decision

\* CheckLicenseWith reads of a list only the entries in one of the two hosts.
LEMMA ExtendedCheckReadsHits ==
    ASSUME NEW c, NEW d, NEW x,
           hits(c.ExtraBlockedDomains, x) = hits(d.ExtraBlockedDomains, x),
           hits(c.ExtraSafeDomains, x) = hits(d.ExtraSafeDomains, x)
    PROVE  extLicense(c, x) = extLicense(d, x)
<1>1. ASSUME NEW u \in {x.ImgURL, x.Source}
      PROVE  /\ (c.ExtraBlockedDomains \ {""}) \cap u.host = (d.ExtraBlockedDomains \ {""}) \cap u.host
             /\ (c.ExtraSafeDomains \ {""}) \cap u.host = (d.ExtraSafeDomains \ {""}) \cap u.host
  BY DEF hits
<1>2. \A u \in {x.ImgURL, x.Source} :
        isBlockedWith(u, c.ExtraBlockedDomains) <=> isBlockedWith(u, d.ExtraBlockedDomains)
  BY <1>1 DEF isBlockedWith
<1>3. \A u \in {x.ImgURL, x.Source} :
        isSafeWith(u, c.ExtraSafeDomains) <=> isSafeWith(u, d.ExtraSafeDomains)
  BY <1>1 DEF isSafeWith
<1> QED BY <1>2, <1>3, Zenon DEF extLicense, CheckLicenseWith

\* For every instance, two callers whose lists have the same entries in the
\* candidate's hosts get the same decision.
THEOREM DecisionReadsHits == Spec => []OnlyHitsDecide
<1>1. RulesInv => OnlyHitsDecide
  <2> SUFFICES ASSUME RulesInv, verdict.license # Pending, NEW c \in Configs,
                      hasExtraLists(c) <=> hasExtraLists(cfg),
                      hits(c.ExtraBlockedDomains, cand) = hits(cfg.ExtraBlockedDomains, cand),
                      hits(c.ExtraSafeDomains, cand) = hits(cfg.ExtraSafeDomains, cand)
               PROVE  decision(c, cand, meta) = verdict.license
    BY Zenon DEF OnlyHitsDecide
  <2>1. WellFormed(cand)
    BY CandidatesWellFormed DEF RulesInv
  <2>2. verdict.license = AssessLicense(cfg, cand, meta)
    BY <2>1, PreCheckIsSound DEF RulesInv
  <2>3. extLicense(c, cand) = extLicense(cfg, cand)
    BY ExtendedCheckReadsHits, Zenon
  <2>4. Signals(c, cand, meta) = Signals(cfg, cand, meta)
    BY <2>3 DEF Signals, reclassifies
  <2>5. AssessLicense(c, cand, meta) = AssessLicense(cfg, cand, meta)
    BY <2>4 DEF AssessLicense
  <2> QED BY <2>1, <2>2, <2>5, DecisionIsAssessment
<1> QED BY <1>1, RulesInvariant, PTL
==============================================================================
