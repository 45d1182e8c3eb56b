------------------------------ MODULE CCLicense -------------------------------
(***************************************************************************)
(* ExtractCCLicense (cclicense.go): the licence a page declares.  A page   *)
(* is the sequence of its tags with a URL:                                 *)
(*   attr  "href" or "content"                                             *)
(*   rel   where rel="license" stands: "before" the URL, "after" it, "no"  *)
(*   url   what the URL is: "cc", a Creative Commons licence on            *)
(*         creativecommons.org; "www", one on another host name that ends  *)
(*         in it; "other"                                                  *)
(* Four regular expressions are tried in turn, and of each only the first  *)
(* match in the page is looked at.                                         *)
(***************************************************************************)
EXTENDS Naturals, Sequences

CONSTANTS Pages

VARIABLES page, pattern, found      \* found is a position in the page, 0 for none

vars == <<page, pattern, found>>

Patterns == <<"rel href", "href rel", "bare href", "meta content">>

\* The text contains a licence path of creativecommons.org, whatever precedes it.
IsCCLicenseURL(u) == u \in {"cc", "www"}

\* The regular expressions.  The last two have the host in them.
matches(p, t) ==
    CASE p = "rel href"     -> t.attr = "href" /\ t.rel = "before"
      [] p = "href rel"     -> t.attr = "href" /\ t.rel = "after"
      [] p = "bare href"    -> t.attr = "href" /\ t.url = "cc"
      [] p = "meta content" -> t.attr = "content" /\ t.url = "cc"

\* FindStringSubmatch.
firstMatch(p, i) ==
    /\ i \in DOMAIN page /\ matches(p, page[i])
    /\ \A j \in 1..(i - 1) : ~matches(p, page[j])

Init == page \in Pages /\ pattern = 1 /\ found = 0

searching == found = 0 /\ pattern <= Len(Patterns)

\* matchCCFromRel checks the URL; the other two expressions have done so.
Take(i) ==
    /\ searching /\ firstMatch(Patterns[pattern], i)
    /\ IsCCLicenseURL(page[i].url)
    /\ found' = i
    /\ UNCHANGED <<page, pattern>>

\* Mutation: a rel="license" tag that is not Creative Commons ends the search.
PassUnlessRel ==
    /\ searching
    /\ ~\E i \in DOMAIN page : firstMatch(Patterns[pattern], i) /\ IsCCLicenseURL(page[i].url)
    /\ pattern' = IF \E i \in DOMAIN page : firstMatch(Patterns[pattern], i)
                  THEN Len(Patterns) + 1 ELSE pattern + 1
    /\ UNCHANGED <<page, found>>

Pass ==
    /\ searching
    /\ ~\E i \in DOMAIN page : firstMatch(Patterns[pattern], i) /\ IsCCLicenseURL(page[i].url)
    /\ pattern' = pattern + 1
    /\ UNCHANGED <<page, found>>

Next == Pass \/ \E i \in DOMAIN page : Take(i)

Spec == Init /\ [][Next]_vars

returned == ~searching

-----------------------------------------------------------------------------

\* What is returned is a Creative Commons licence, and one on creativecommons.org whose
\* URL is written literally is never missed: though matchCCFromRel looks at one
\* rel="license" tag only, the expressions after it catch what it hides.  (They match
\* the text of the page: a URL that is a licence only once its entities are decoded is
\* found by matchCCFromRel alone, like one on a www host, and may be hidden.)
LicenceFound ==
    returned => IF found # 0 THEN IsCCLicenseURL(page[found].url)
                ELSE \A i \in DOMAIN page : page[i].url # "cc"

\* cclicense.go:56, "Returns the first CC license URL found, or empty string if
\* none": the empty string means that no tag with rel="license" has a URL that
\* IsCCLicenseURL accepts.
EmptyMeansNone ==
    returned => (found = 0 => ~\E i \in DOMAIN page :
                     page[i].attr = "href" /\ page[i].rel # "no" /\ IsCCLicenseURL(page[i].url))
==============================================================================
