---------------------------- MODULE ContentProofs -----------------------------
(***************************************************************************)
(* The images of a page, for every document.  Core says of the buckets     *)
(* what is wanted of the result, and that seen hides no usable image;      *)
(* Reached says that a pass leaves no image unseen behind it.              *)
(* Filed says what the images of each bucket have in common.               *)
(***************************************************************************)
EXTENDS Content, SequenceTheorems, TLAPS

Entry  == [ImgURL : URLs, License : ImageLicense]
own(u) == \/ u \in fromHead
          \/ /\ registrableDomain(u) = registrableDomain(req.PageURL)
             /\ \E t \in Range(doc.imgs) : u = normalizeImgURL(t.src)
held(u) == \E b \in Buckets : \E i \in 1..Len(buckets[b]) :
               normalizeImgURL(buckets[b][i].ImgURL) = normalizeImgURL(u)
good(e) == /\ e \in Entry /\ usable(e.ImgURL) /\ own(e.ImgURL)
           /\ e.License = CheckLicense(e.ImgURL, req.PageURL)
met(u)  == u.http => normalizeImgURL(u) \in seen

Core ==
    /\ \A b \in Buckets : \A i \in 1..Len(buckets[b]) :
          good(buckets[b][i]) /\ normalizeImgURL(buckets[b][i].ImgURL) \in seen
    /\ \A b, c \in Buckets : \A i \in 1..Len(buckets[b]), j \in 1..Len(buckets[c]) :
          normalizeImgURL(buckets[b][i].ImgURL) = normalizeImgURL(buckets[c][j].ImgURL)
              => b = c /\ i = j
    /\ \A u \in URLs : usable(u) /\ normalizeImgURL(u) \in seen => held(u)

Reached ==
    /\ pc \in {"twitter", "jsonld", "img"} => met(doc.og)
    /\ pc \in {"jsonld", "img"} => met(doc.twitter)
    /\ pc \in {"fetch", "og", "twitter"} => k = 1
    /\ k >= 1
    /\ pc = "fetch" => doc = NoDoc /\ seen = {} /\ \A b \in Buckets : buckets[b] = <<>>
    /\ pc = "jsonld" => \A i \in 1..Len(doc.jsonld) : i < k => met(extractJSONLDImage(doc.jsonld[i]))
    /\ pc = "img" => /\ \A i \in 1..Len(doc.jsonld) : met(extractJSONLDImage(doc.jsonld[i]))
                     /\ \A i \in 1..Len(doc.imgs) :
                           i < k /\ isContent(doc.imgs[i]) => met(normalizeImgURL(doc.imgs[i].src))

Result ==
    /\ pc # "returned" => out = <<>>
    /\ OneVariantEach /\ NothingUsableLost /\ OwnImages

Inv == TypeOK /\ Core /\ Reached /\ Result

-----------------------------------------------------------------------------
(* Facts about URLs and documents *)

\* Normalising changes nothing the filters look at.
LEMMA NormalKeeps ==
    ASSUME NEW u \in URLs
    PROVE  LET n == normalizeImgURL(u)
           IN /\ n \in URLs /\ n.http = u.http /\ n.logo = u.logo /\ n.text = u.text
              /\ n.host = u.host /\ n.path = u.path /\ n.labels = u.labels
<1>1. u \in URL
  BY ContentAssumption
<1> QED BY <1>1, ContentAssumption, Zenon DEF URL, normalizeImgURL

\* Of a name with at most one size suffix, what is left is the picture.
LEMMA KeyIsPicture ==
    ASSUME NEW u \in URLs, ~(Len(u.sizes) >= 2)
    PROVE  normalizeImgURL(u) = picture(u)
<1>1. u \in URL /\ u.sizes \in Seq(Nat \X Nat) /\ Len(u.sizes) \in Nat
  BY ContentAssumption DEF URL
<1>2. CASE u.sizes = <<>>
  BY <1>1, <1>2, Zenon DEF normalizeImgURL, picture
<1>3. CASE u.sizes # <<>>
  <2>1. Len(u.sizes) = 1
    <3>1. Len(u.sizes) \in Nat \ {0}
      BY <1>1, <1>3, EmptySeq
    <3>2. PICK n \in Nat \ {0} : n = Len(u.sizes)
      BY <3>1
    <3>3. ~(n >= 2)
      BY <3>2, Zenon
    <3>4. n = 1
      BY <3>3
    <3> QED BY <3>2, <3>4, Zenon
  <2>2. SubSeq(u.sizes, 1, Len(u.sizes) - 1) = <<>>
    <3>1. PICK s \in Seq(Nat \X Nat) : s = u.sizes
      BY <1>1
    <3>2. SubSeq(s, 1, 0) \in Seq(Nat \X Nat) /\ Len(SubSeq(s, 1, 0)) = 0
      OBVIOUS
    <3>3. SubSeq(s, 1, 0) = <<>>
      BY <3>2, EmptySeq
    <3>4. Len(u.sizes) - 1 = 0
      BY <2>1
    <3> QED BY <3>1, <3>3, <3>4
  <2> QED BY <1>1, <1>3, <2>2, Zenon DEF normalizeImgURL, picture
<1> QED BY <1>2, <1>3

\* Results under different keys satisfy OneVariantEach.
LEMMA KeysSuffice ==
    ASSUME NEW u \in URLs, NEW v \in URLs, normalizeImgURL(u) # normalizeImgURL(v),
           picture(u) = picture(v)
    PROVE  u # v /\ \E w \in {u, v} : Len(w.sizes) >= 2
BY KeyIsPicture

\* Two sizes of one image are both usable or both not.
LEMMA VariantsAlike ==
    ASSUME NEW u \in URLs, NEW v \in URLs, normalizeImgURL(u) = normalizeImgURL(v)
    PROVE  usable(u) = usable(v)
<1>1. /\ u.http = v.http /\ u.logo = v.logo /\ u.text = v.text
      /\ u.host = v.host /\ u.path = v.path
  BY NormalKeeps
<1>2. isBlockedWith(u, {}) = isBlockedWith(v, {}) /\ isSafeWith(u, {}) = isSafeWith(v, {})
  BY <1>1 DEF isBlockedWith, isSafeWith
<1>3. CheckLicense(u, req.PageURL) = CheckLicense(v, req.PageURL)
  BY <1>2 DEF CheckLicense, CheckLicenseWith
<1>4. u.http \in BOOLEAN /\ v.http \in BOOLEAN /\ u.logo \in BOOLEAN /\ v.logo \in BOOLEAN
  BY ContentAssumption DEF URL
<1> QED BY <1>1, <1>3, <1>4 DEF usable

\* What a document holds.
LEMMA DocFacts ==
    ASSUME doc \in Docs \cup {NoDoc}
    PROVE  /\ doc.og \in URLs /\ doc.twitter \in URLs
           /\ Len(doc.jsonld) \in Nat /\ DOMAIN doc.jsonld = 1..Len(doc.jsonld)
           /\ \A i \in 1..Len(doc.jsonld) : extractJSONLDImage(doc.jsonld[i]) \in URLs
           /\ Len(doc.imgs) \in Nat /\ DOMAIN doc.imgs = 1..Len(doc.imgs)
           /\ \A i \in 1..Len(doc.imgs) : doc.imgs[i].src \in URLs
<1>1. CASE doc \in Docs
  BY <1>1, ContentAssumption
<1>2. CASE doc = NoDoc
  <2>1. doc.og = NoURL /\ doc.twitter = NoURL /\ doc.jsonld = <<>> /\ doc.imgs = <<>>
    BY <1>2 DEF NoDoc
  <2> QED BY <2>1, ContentAssumption
<1> QED BY <1>1, <1>2

\* The licence of any URL is a licence.
LEMMA LicenseType == \A u, v : CheckLicense(u, v) \in ImageLicense
BY DEF CheckLicense, CheckLicenseWith, ImageLicense, LicenseBlocked, LicenseSafe, LicenseUnknown

\* The filters read only the call and the document.
LEMMA FiltersSame ==
    ASSUME UNCHANGED <<req, doc>>
    PROVE  /\ \A u : usable(u)' = usable(u)
           /\ \A u : own(u)' = own(u)
           /\ \A e : good(e)' = good(e)
<1>1. \A u : usable(u)' = usable(u)
  BY DEF usable
<1>2. fromHead' = fromHead
  BY DEF fromHead
<1>3. \A u : own(u)' = own(u)
  BY <1>2 DEF own
<1> QED BY <1>1, <1>3 DEF good

-----------------------------------------------------------------------------
(* One call of addIfNew *)

\* addIfNew keeps Core, forgets nothing, and leaves its image behind it.
LEMMA AddKeepsCore ==
    ASSUME TypeOK, Core, UNCHANGED <<req, doc>>, NEW u \in URLs, NEW b \in Buckets,
           own(u), addIfNew(u, b)
    PROVE  /\ Core' /\ met(u)' /\ seen \subseteq seen' /\ seen' \subseteq URLs
           /\ buckets' \in [Buckets -> Seq(Entry)]
<1> DEFINE n == normalizeImgURL(u)
           e == [ImgURL |-> u, License |-> CheckLicense(u, req.PageURL)]
<1>0. /\ buckets \in [Buckets -> Seq(Entry)] /\ seen \subseteq URLs
      /\ u.http \in BOOLEAN /\ n \in URLs
  BY ContentAssumption, Zenon DEF TypeOK, Entry, URL
<1>1. e \in Entry /\ (usable(u) => good(e))
  BY LicenseType DEF Entry, good
<1>2. CASE usable(u) /\ n \notin seen
  <2>1. seen' = seen \cup {n} /\ buckets' = [buckets EXCEPT ![b] = Append(buckets[b], e)]
    BY <1>2 DEF addIfNew, usable
  <2> HIDE DEF n, e
  <2>2. /\ buckets[b] \in Seq(Entry) /\ Len(buckets[b]) \in Nat
        /\ Append(buckets[b], e) \in Seq(Entry)
        /\ Len(Append(buckets[b], e)) = Len(buckets[b]) + 1
        /\ \A i \in 1..Len(buckets[b]) : Append(buckets[b], e)[i] = buckets[b][i]
        /\ Append(buckets[b], e)[Len(buckets[b]) + 1] = e
    BY <1>0, <1>1, AppendProperties
  <2>3. buckets' \in [Buckets -> Seq(Entry)]
    BY <1>0, <2>1, <2>2
  <2>4. /\ buckets'[b] = Append(buckets[b], e)
        /\ \A c \in Buckets \ {b} : buckets'[c] = buckets[c]
    BY <1>0, <2>1
  <2>5. e.ImgURL = u
    BY DEF e
  \* an element of a bucket is an old one, or the new one at the end of b
  <2>6. ASSUME NEW c \in Buckets, NEW i \in 1..Len(buckets'[c])
        PROVE  \/ i \in 1..Len(buckets[c]) /\ buckets'[c][i] = buckets[c][i]
               \/ c = b /\ i = Len(buckets[b]) + 1 /\ buckets'[c][i] = e
    BY <2>2, <2>4
  <2>7. \A c \in Buckets : \A i \in 1..Len(buckets'[c]) :
            good(buckets'[c][i]) /\ normalizeImgURL(buckets'[c][i].ImgURL) \in seen'
    BY <1>1, <1>2, <2>1, <2>5, <2>6 DEF Core, n
  <2>8. ASSUME NEW c \in Buckets, NEW d \in Buckets,
               NEW i \in 1..Len(buckets'[c]), NEW j \in 1..Len(buckets'[d]),
               normalizeImgURL(buckets'[c][i].ImgURL) = normalizeImgURL(buckets'[d][j].ImgURL)
        PROVE  c = d /\ i = j
    <3>1. CASE i \in 1..Len(buckets[c]) /\ buckets'[c][i] = buckets[c][i]
      <4>1. normalizeImgURL(buckets[c][i].ImgURL) \in seen
        BY <3>1 DEF Core
      <4>2. j \in 1..Len(buckets[d]) /\ buckets'[d][j] = buckets[d][j]
        BY <1>2, <2>5, <2>6, <2>8, <3>1, <4>1 DEF n
      <4> QED BY <2>8, <3>1, <4>2 DEF Core
    <3>2. CASE c = b /\ i = Len(buckets[b]) + 1 /\ buckets'[c][i] = e
      <4>1. normalizeImgURL(buckets'[d][j].ImgURL) \notin seen
        BY <1>2, <2>5, <2>8, <3>2 DEF n
      <4>2. d = b /\ j = Len(buckets[b]) + 1
        BY <2>6, <4>1 DEF Core
      <4> QED BY <3>2, <4>2
    <3> QED BY <2>6, <3>1, <3>2
  <2>9. ASSUME NEW v \in URLs, usable(v), normalizeImgURL(v) \in seen' PROVE held(v)'
    <3>1. CASE normalizeImgURL(v) \in seen
      <4>1. PICK c \in Buckets : \E i \in 1..Len(buckets[c]) :
                normalizeImgURL(buckets[c][i].ImgURL) = normalizeImgURL(v)
        BY <2>9, <3>1 DEF Core, held
      <4>2. PICK i \in 1..Len(buckets[c]) :
                normalizeImgURL(buckets[c][i].ImgURL) = normalizeImgURL(v)
        BY <4>1
      <4>3. i \in 1..Len(buckets'[c]) /\ buckets'[c][i] = buckets[c][i]
        BY <2>2, <2>4
      <4> QED BY <4>2, <4>3 DEF held
    <3>2. CASE normalizeImgURL(v) = n
      <4>1. Len(buckets[b]) + 1 \in 1..Len(buckets'[b]) /\ buckets'[b][Len(buckets[b]) + 1] = e
        BY <2>2, <2>4
      <4> QED BY <2>5, <3>2, <4>1 DEF held, n
    <3> QED BY <2>1, <2>9, <3>1, <3>2
  <2>10. \A f : good(f)' = good(f)
    BY FiltersSame
  <2>11. \A v : usable(v)' = usable(v)
    BY FiltersSame
  <2>12. Core'
    BY <2>7, <2>8, <2>9, <2>10, <2>11 DEF Core
  <2> QED BY <1>0, <2>1, <2>3, <2>12 DEF met, n
<1>3. CASE ~(usable(u) /\ n \notin seen)
  <2>1. /\ buckets' = buckets /\ seen \subseteq seen' /\ seen' \subseteq seen \cup {n}
        /\ u.http => n \in seen'
        /\ n \in seen' /\ n \notin seen => ~usable(u)
    BY <1>3 DEF addIfNew
  <2> HIDE DEF n
  <2>2. ASSUME NEW v \in URLs, usable(v), normalizeImgURL(v) \in seen' PROVE held(v)
    <3>1. CASE normalizeImgURL(v) \in seen
      BY <2>2, <3>1 DEF Core
    <3>2. CASE normalizeImgURL(v) \notin seen
      BY <2>1, <2>2, <3>2, VariantsAlike DEF n
    <3> QED BY <3>1, <3>2
  <2>3. /\ \A v : usable(v)' = usable(v)
        /\ \A f : good(f)' = good(f)
        /\ \A v : held(v)' = held(v)
    BY <2>1, FiltersSame DEF held
  <2>4. Core'
    BY <2>1, <2>2, <2>3 DEF Core
  <2> QED BY <1>0, <2>1, <2>4 DEF met, n
<1> QED BY <1>2, <1>3

-----------------------------------------------------------------------------
(* The merge *)

distinct(s) == \A i, j \in 1..Len(s) :
                   normalizeImgURL(s[i].ImgURL) = normalizeImgURL(s[j].ImgURL) => i = j
apart(s, t) == \A i \in 1..Len(s), j \in 1..Len(t) :
                   normalizeImgURL(s[i].ImgURL) # normalizeImgURL(t[j].ImgURL)

\* An element of a joined list is an element of one of its parts.
LEMMA JoinedElement ==
    ASSUME NEW s \in Seq(Entry), NEW t \in Seq(Entry)
    PROVE  /\ s \o t \in Seq(Entry) /\ Len(s \o t) = Len(s) + Len(t)
           /\ Len(s) \in Nat /\ Len(t) \in Nat
           /\ \A i \in 1..Len(s) : i \in 1..Len(s \o t) /\ (s \o t)[i] = s[i]
           /\ \A i \in 1..Len(t) : Len(s) + i \in 1..Len(s \o t) /\ (s \o t)[Len(s) + i] = t[i]
           /\ \A i \in 1..Len(s \o t) :
                 \/ i \in 1..Len(s) /\ (s \o t)[i] = s[i]
                 \/ i - Len(s) \in 1..Len(t) /\ (s \o t)[i] = t[i - Len(s)]
OBVIOUS

\* Joining lists that share no image repeats none.
LEMMA JoinedDistinct ==
    ASSUME NEW s \in Seq(Entry), NEW t \in Seq(Entry), distinct(s), distinct(t), apart(s, t)
    PROVE  distinct(s \o t)
<1> DEFINE st == s \o t
<1>1. /\ Len(s) \in Nat /\ Len(t) \in Nat
      /\ \A i \in 1..Len(st) : \/ i \in 1..Len(s) /\ st[i] = s[i]
                               \/ i - Len(s) \in 1..Len(t) /\ st[i] = t[i - Len(s)]
  BY JoinedElement
<1>2. Len(st) \in Nat
  BY JoinedElement
<1> HIDE DEF st
<1>3. ASSUME NEW i \in 1..Len(st), NEW j \in 1..Len(st),
             normalizeImgURL(st[i].ImgURL) = normalizeImgURL(st[j].ImgURL)
      PROVE  i = j
  <2>1. CASE i \in 1..Len(s) /\ st[i] = s[i]
    <3>1. j \in 1..Len(s) /\ st[j] = s[j]
      BY <1>1, <1>3, <2>1, Zenon DEF apart
    <3> QED BY <1>3, <2>1, <3>1 DEF distinct
  <2>2. CASE i - Len(s) \in 1..Len(t) /\ st[i] = t[i - Len(s)]
    <3>1. j - Len(s) \in 1..Len(t) /\ st[j] = t[j - Len(s)]
      BY <1>1, <1>3, <2>2 DEF apart
    <3>2. i - Len(s) = j - Len(s)
      BY <1>3, <2>2, <3>1 DEF distinct
    <3> QED BY <1>1, <1>2, <3>2
  <2> QED BY <1>1, <2>1, <2>2
<1> QED BY <1>3 DEF distinct, st

\* A list shares no image with a joined one if it shares none with its parts.
LEMMA JoinedApart ==
    ASSUME NEW s \in Seq(Entry), NEW t \in Seq(Entry), NEW r \in Seq(Entry), apart(s, r), apart(t, r)
    PROVE  apart(s \o t, r)
<1> DEFINE st == s \o t
<1>1. \A i \in 1..Len(st) : \/ i \in 1..Len(s) /\ st[i] = s[i]
                            \/ i - Len(s) \in 1..Len(t) /\ st[i] = t[i - Len(s)]
  BY JoinedElement
<1> HIDE DEF st
<1>2. apart(st, r)
  BY <1>1, Zenon DEF apart
<1> QED BY <1>2 DEF st

holds(s, u) == \E i \in 1..Len(s) : normalizeImgURL(s[i].ImgURL) = normalizeImgURL(u)
allGood(s)  == \A i \in 1..Len(s) : good(s[i])

\* A joined list holds what its parts hold.
LEMMA JoinedHolds ==
    ASSUME NEW s \in Seq(Entry), NEW t \in Seq(Entry)
    PROVE  /\ \A u : holds(s, u) \/ holds(t, u) => holds(s \o t, u)
           /\ allGood(s) /\ allGood(t) => allGood(s \o t)
<1> DEFINE st == s \o t
<1>1. /\ \A i \in 1..Len(s) : i \in 1..Len(st) /\ st[i] = s[i]
      /\ \A i \in 1..Len(t) : Len(s) + i \in 1..Len(st) /\ st[Len(s) + i] = t[i]
      /\ \A i \in 1..Len(st) : \/ i \in 1..Len(s) /\ st[i] = s[i]
                               \/ i - Len(s) \in 1..Len(t) /\ st[i] = t[i - Len(s)]
  BY JoinedElement
<1> HIDE DEF st
<1>2. ASSUME NEW u, holds(s, u) PROVE holds(st, u)
  BY <1>1, <1>2 DEF holds
<1>3. ASSUME NEW u, holds(t, u) PROVE holds(st, u)
  BY <1>1, <1>3 DEF holds
<1>4. allGood(s) /\ allGood(t) => allGood(st)
  BY <1>1 DEF allGood
<1> QED BY <1>2, <1>3, <1>4 DEF st

\* The merged list holds what the buckets hold, each image once.
LEMMA MergedFacts ==
    ASSUME TypeOK, Core
    PROVE  /\ merged \in Seq(Entry) /\ Len(merged) \in Nat
           /\ allGood(merged) /\ distinct(merged)
           /\ \A u : held(u) => holds(merged, u)
<1>1. PICK p, n, j, o : /\ p = buckets["priority"] /\ n = buckets["normal"]
                        /\ j = buckets["jsonld"] /\ o = buckets["og"]
  OBVIOUS
<1>2. p \in Seq(Entry) /\ n \in Seq(Entry) /\ j \in Seq(Entry) /\ o \in Seq(Entry)
  BY <1>1 DEF TypeOK, Buckets, Entry
<1>3. distinct(p) /\ distinct(n) /\ distinct(j) /\ distinct(o)
  BY <1>1 DEF Core, distinct, Buckets
<1>4. /\ apart(p, n) /\ apart(p, j) /\ apart(p, o)
      /\ apart(n, j) /\ apart(n, o) /\ apart(j, o)
  BY <1>1 DEF Core, apart, Buckets
<1>5. allGood(p) /\ allGood(n) /\ allGood(j) /\ allGood(o)
  BY <1>1 DEF Core, Buckets, allGood
<1>6. PICK pn, pnj, m : pn = p \o n /\ pnj = pn \o j /\ m = pnj \o o
  BY Zenon
<1>7. pn \in Seq(Entry) /\ distinct(pn) /\ apart(pn, j) /\ apart(pn, o)
  BY <1>2, <1>3, <1>4, <1>6, JoinedElement, JoinedDistinct, JoinedApart
<1>8. pnj \in Seq(Entry) /\ distinct(pnj) /\ apart(pnj, o)
  BY <1>2, <1>3, <1>4, <1>6, <1>7, JoinedElement, JoinedDistinct, JoinedApart, Zenon
<1>9. m \in Seq(Entry) /\ distinct(m) /\ Len(m) \in Nat
  BY <1>2, <1>3, <1>6, <1>8, JoinedElement, JoinedDistinct, Zenon
<1>10. allGood(pn) /\ \A u : holds(p, u) \/ holds(n, u) => holds(pn, u)
  BY <1>2, <1>5, <1>6, JoinedHolds
<1>11. allGood(pnj) /\ \A u : holds(pn, u) \/ holds(j, u) => holds(pnj, u)
  BY <1>2, <1>5, <1>6, <1>7, <1>10, JoinedHolds, Zenon
<1>12. allGood(m) /\ \A u : holds(pnj, u) \/ holds(o, u) => holds(m, u)
  BY <1>2, <1>5, <1>6, <1>8, <1>11, JoinedHolds, Zenon
<1>13. ASSUME NEW u, held(u) PROVE holds(m, u)
  <2>1. holds(p, u) \/ holds(n, u) \/ holds(j, u) \/ holds(o, u)
    BY <1>1, <1>13 DEF held, holds, Buckets
  <2> QED BY <1>10, <1>11, <1>12, <2>1
<1>14. merged = m
  BY <1>1, <1>6 DEF merged
<1> QED BY <1>9, <1>12, <1>13, <1>14

-----------------------------------------------------------------------------
(* The invariant *)

\* A result that does not change in a call that has not returned stays right.
LEMMA ResultSame ==
    ASSUME Result, pc # "returned", pc' # "returned", out' = out
    PROVE  Result'
<1>1. out = <<>> /\ out' = <<>>
  BY DEF Result
<1> QED BY <1>1 DEF Result, OneVariantEach, NothingUsableLost, OwnImages, finished

\* Core speaks of the buckets, the seen set, the call and the document only.
LEMMA CoreSame ==
    ASSUME Core, UNCHANGED <<req, doc, seen, buckets>>
    PROVE  Core'
<1>1. /\ \A u : usable(u)' = usable(u)
      /\ \A e : good(e)' = good(e)
      /\ \A u : held(u)' = held(u)
  BY FiltersSame DEF held
<1> QED BY <1>1 DEF Core

\* The initial states.
LEMMA InvInit == Init => Inv
<1> SUFFICES ASSUME Init PROVE Inv
  OBVIOUS
<1>1. TypeOK
  BY DEF Init, TypeOK, Buckets
<1>2. Core
  BY DEF Init, Core, Buckets
<1>3. Reached
  BY DEF Init, Reached
<1>4. Result
  BY DEF Init, Result, OneVariantEach, NothingUsableLost, OwnImages, finished
<1> QED BY <1>1, <1>2, <1>3, <1>4 DEF Inv

\* A pass over the document keeps the invariant: it calls addIfNew with an image of the
\* page and steps on.
LEMMA PassKeeps ==
    ASSUME Inv, UNCHANGED <<req, doc, out>>, pc # "returned", pc' # "returned",
           pc' \in {"og", "twitter", "jsonld", "img"}, k' \in Nat,
           NEW u \in URLs, NEW b \in Buckets, own(u), addIfNew(u, b)
    PROVE  /\ TypeOK' /\ Core' /\ Result' /\ met(u)'
           /\ \A v : met(v) => met(v)'
<1>1. /\ Core' /\ met(u)' /\ seen \subseteq seen' /\ seen' \subseteq URLs
      /\ buckets' \in [Buckets -> Seq(Entry)]
  BY AddKeepsCore DEF Inv
<1>2. Result'
  BY ResultSame DEF Inv
<1>3. TypeOK'
  BY <1>1, Zenon DEF Inv, TypeOK, Entry
<1>4. \A v : met(v) => met(v)'
  BY <1>1 DEF met
<1> QED BY <1>1, <1>2, <1>3, <1>4

\* Every step keeps the invariant.
LEMMA InvNext == Inv /\ [Next]_vars => Inv'
<1> SUFFICES ASSUME Inv, [Next]_vars PROVE Inv'
  OBVIOUS
<1>0. TypeOK /\ Core /\ Reached /\ Result
  BY DEF Inv
<1>d. /\ doc.og \in URLs /\ doc.twitter \in URLs
      /\ Len(doc.jsonld) \in Nat /\ DOMAIN doc.jsonld = 1..Len(doc.jsonld)
      /\ \A i \in 1..Len(doc.jsonld) : extractJSONLDImage(doc.jsonld[i]) \in URLs
      /\ Len(doc.imgs) \in Nat /\ DOMAIN doc.imgs = 1..Len(doc.imgs)
      /\ \A i \in 1..Len(doc.imgs) : doc.imgs[i].src \in URLs
  BY <1>0, DocFacts DEF TypeOK
<1>1. CASE fetchPage
  <2>1. /\ pc = "fetch" /\ UNCHANGED <<req, k, seen, buckets, out>> /\ out = <<>>
        /\ \/ pc' = "returned" /\ UNCHANGED doc
           \/ doc' \in Docs /\ pc' = "og"
    BY <1>0, <1>1, Zenon DEF fetchPage, Result
  <2>2. TypeOK'
    BY <1>0, <2>1, Zenon DEF TypeOK
  <2>3. Reached'
    BY <1>0, <2>1 DEF Reached
  <2>4. seen = {} /\ \A b \in Buckets : buckets[b] = <<>>
    BY <1>0, <2>1 DEF Reached
  <2>5. Core'
    BY <2>1, <2>4 DEF Core
  <2>6. Result'
    BY <1>0, <2>1 DEF Result, OneVariantEach, NothingUsableLost, OwnImages, finished, Reached
  <2> QED BY <2>2, <2>3, <2>5, <2>6 DEF Inv
<1>2. CASE OpenGraph
  <2>1. PICK u \in URLs : u = doc.og
    BY <1>d
  <2>2. /\ pc = "og" /\ pc' = "twitter" /\ UNCHANGED <<req, doc, k, out>> /\ k = 1
        /\ addIfNew(u, "og") /\ own(u) /\ "og" \in Buckets
    BY <1>0, <1>2, <2>1 DEF OpenGraph, addIfNew, own, fromHead, Buckets, Reached
  <2>3. TypeOK' /\ Core' /\ Result' /\ met(u)'
    BY <1>0, <2>2, PassKeeps, Zenon DEF TypeOK
  <2>4. Reached'
    BY <2>1, <2>2, <2>3 DEF Reached, met
  <2> QED BY <2>3, <2>4 DEF Inv
<1>3. CASE Twitter
  <2>1. PICK u \in URLs : u = doc.twitter
    BY <1>d
  <2>2. /\ pc = "twitter" /\ pc' = "jsonld" /\ UNCHANGED <<req, doc, k, out>> /\ k = 1
        /\ addIfNew(u, "og") /\ own(u) /\ "og" \in Buckets
    BY <1>0, <1>3, <2>1 DEF Twitter, addIfNew, own, fromHead, Buckets, Reached
  <2>3. /\ TypeOK' /\ Core' /\ Result' /\ met(u)'
        /\ \A v : met(v) => met(v)'
    BY <1>0, <2>2, PassKeeps, Zenon DEF TypeOK
  <2>4. met(doc.og) /\ seen \subseteq seen'
    BY <1>0, <2>2 DEF Reached, addIfNew
  <2>5. Reached'
    BY <1>d, <2>1, <2>2, <2>3, <2>4 DEF Reached, met
  <2> QED BY <2>3, <2>5 DEF Inv
<1>4. CASE JSONLD
  <2>0. k \in 1..Len(doc.jsonld)
    BY <1>0, <1>4, <1>d DEF JSONLD, TypeOK, Reached
  <2>1. PICK u \in URLs : u = extractJSONLDImage(doc.jsonld[k])
    BY <1>d, <2>0
  <2>2. /\ pc = "jsonld" /\ pc' = "jsonld" /\ UNCHANGED <<req, doc, out>> /\ k' = k + 1
        /\ addIfNew(u, "jsonld") /\ "jsonld" \in Buckets
    BY <1>4, <2>1 DEF JSONLD, addIfNew, Buckets
  <2>3. own(u)
    BY <1>d, <2>0, <2>1 DEF own, fromHead, Range
  <2>4. TypeOK' /\ Core' /\ Result' /\ met(u)'
    <3>1. k' \in Nat
      BY <1>0, <2>2 DEF TypeOK
    <3> QED BY <2>2, <2>3, <3>1, PassKeeps
  <2>5. seen \subseteq seen'
    BY <2>2 DEF addIfNew
  <2>6. Reached'
    BY <1>0, <1>d, <2>0, <2>1, <2>2, <2>4, <2>5 DEF Reached, met
  <2> QED BY <2>4, <2>6 DEF Inv
<1>5. CASE ImgTags
  <2>1. /\ pc = "jsonld" /\ k > Len(doc.jsonld) /\ pc' = "img" /\ k' = 1
        /\ UNCHANGED <<req, doc, seen, buckets, out>>
    BY <1>5 DEF ImgTags
  <2>2. TypeOK' /\ Core'
    BY <1>0, <2>1, CoreSame, Zenon DEF TypeOK
  <2>3. Result'
    BY <1>0, <2>1, ResultSame
  <2>4. Reached'
    BY <1>0, <1>d, <2>1 DEF Reached, met, TypeOK
  <2> QED BY <2>2, <2>3, <2>4 DEF Inv
<1>6. CASE Img
  <2>0. /\ k \in 1..Len(doc.imgs) /\ pc = "img" /\ pc' = "img" /\ k' = k + 1
        /\ UNCHANGED <<req, doc, out>>
    BY <1>0, <1>6, <1>d DEF Img, TypeOK, Reached
  <2>1. \A i : isContent(doc.imgs[i])' = isContent(doc.imgs[i])
    BY <2>0 DEF isContent
  <2>2. CASE isContent(doc.imgs[k])
    <3>1. PICK u \in URLs, b \in Buckets :
              u = normalizeImgURL(doc.imgs[k].src) /\ b = bucketOf(u)
      BY <1>d, <2>0, NormalKeeps DEF bucketOf, Buckets
    <3>2. addIfNew(u, b)
      BY <1>6, <2>2, <3>1, Zenon DEF Img, addIfNew
    <3>3. registrableDomain(u) = registrableDomain(req.PageURL)
      BY <1>d, <2>0, <2>2, <3>1, NormalKeeps DEF isContent, registrableDomain
    <3>4. own(u)
      BY <1>d, <2>0, <3>1, <3>3 DEF own, Range
    <3>5. TypeOK' /\ Core' /\ Result' /\ met(u)'
      <4>1. k' \in Nat
        BY <1>0, <2>0 DEF TypeOK
      <4> QED BY <2>0, <3>2, <3>4, <4>1, PassKeeps
    <3>6. seen \subseteq seen'
      BY <3>2 DEF addIfNew
    <3>7. Reached'
      BY <1>0, <1>d, <2>0, <2>1, <3>1, <3>5, <3>6 DEF Reached, met
    <3> QED BY <3>5, <3>7 DEF Inv
  <2>3. CASE ~isContent(doc.imgs[k])
    <3>1. UNCHANGED <<seen, buckets>>
      BY <1>6, <2>3 DEF Img
    <3>2. TypeOK' /\ Core'
      <4>1. Core'
        BY <1>0, <2>0, <3>1, CoreSame
      <4>2. k' \in Nat
        BY <1>0, <2>0 DEF TypeOK
      <4>3. TypeOK'
        BY <1>0, <2>0, <3>1, <4>2, Zenon DEF TypeOK
      <4> QED BY <4>1, <4>3
    <3>3. Result'
      BY <1>0, <2>0, ResultSame
    <3>4. Reached'
      BY <1>0, <1>d, <2>0, <2>1, <2>3, <3>1 DEF Reached, met
    <3> QED BY <3>2, <3>3, <3>4 DEF Inv
  <2> QED BY <2>2, <2>3
<1>7. CASE Merge
  <2>1. /\ pc = "img" /\ k > Len(doc.imgs) /\ pc' = "returned"
        /\ UNCHANGED <<req, doc, k, seen, buckets>>
    BY <1>7 DEF Merge
  <2>2. PICK m : m = merged
    OBVIOUS
  <2>3. /\ m \in Seq(Entry) /\ Len(m) \in Nat /\ allGood(m) /\ distinct(m)
        /\ \A u : held(u) => holds(m, u)
    BY <1>0, <2>2, MergedFacts
  <2>4. PICK r : r = IF Len(m) > contentMaxResults THEN SubSeq(m, 1, contentMaxResults) ELSE m
    BY Zenon
  <2>5. out' = r
    BY <1>7, <2>2, <2>4 DEF Merge
  <2>6. /\ r \in Seq(Entry) /\ Len(r) \in Nat /\ Len(r) <= Len(m)
        /\ \A i \in 1..Len(r) : r[i] = m[i]
        /\ Len(r) = contentMaxResults \/ r = m
    BY <2>3, <2>4, ContentAssumption
  <2>7. allGood(r) /\ distinct(r)
    BY <2>3, <2>6 DEF allGood, distinct
  <2>8. TypeOK' /\ Core'
    BY <1>0, <2>1, <2>5, <2>6, CoreSame, Zenon DEF TypeOK, Entry
  <2>9. Reached'
    BY <1>0, <2>1 DEF Reached
  <2>10. OneVariantEach'
    <3> SUFFICES ASSUME NEW i \in 1..Len(r), NEW j \in 1..Len(r), i # j,
                        picture(r[i].ImgURL) = picture(r[j].ImgURL)
                 PROVE  /\ r[i].ImgURL # r[j].ImgURL
                        /\ \E u \in {r[i].ImgURL, r[j].ImgURL} : Len(u.sizes) >= 2
      BY <2>5 DEF OneVariantEach
    <3>1. r[i].ImgURL \in URLs /\ r[j].ImgURL \in URLs
      <4>1. r[i] \in Entry /\ r[j] \in Entry
        BY <2>6
      <4> QED BY <4>1 DEF Entry
    <3>2. normalizeImgURL(r[i].ImgURL) # normalizeImgURL(r[j].ImgURL)
      BY <2>7 DEF distinct
    <3> QED BY <3>1, <3>2, KeysSuffice, Zenon
  <2>11. OwnImages'
    <3>1. fromHead' = fromHead
      BY <2>1 DEF fromHead
    <3>2. \A i \in 1..Len(r) : good(r[i])
      BY <2>7 DEF allGood
    <3> QED BY <2>1, <2>5, <3>1, <3>2 DEF OwnImages, good, own, usable
  <2>12. ASSUME NEW u \in fromHead \cup fromImgs, usable(u)
         PROVE  holds(r, u) \/ Len(r) = contentMaxResults
    <3>1. u \in URLs /\ met(u)
      <4>1. CASE u \in fromHead
        BY <1>0, <1>d, <2>1, <4>1 DEF fromHead, Range, Reached
      <4>2. CASE u \in fromImgs
        <5>1. PICK t \in Range(doc.imgs) : isContent(t) /\ u = normalizeImgURL(t.src)
          BY <4>2 DEF fromImgs
        <5>2. PICK i \in 1..Len(doc.imgs) : t = doc.imgs[i]
          BY <1>d, <5>1 DEF Range
        <5>3. i < k
          BY <1>0, <1>d, <2>1 DEF TypeOK
        <5> QED BY <1>0, <1>d, <2>1, <5>1, <5>2, <5>3, NormalKeeps, Zenon DEF Reached
      <4> QED BY <2>12, <4>1, <4>2
    <3>2. held(u)
      BY <1>0, <2>12, <3>1 DEF met, usable, Core
    <3> QED BY <2>3, <2>6, <3>2
  <2>13. NothingUsableLost'
    <3>1. fromHead' = fromHead /\ fromImgs' = fromImgs
      BY <2>1 DEF fromHead, fromImgs, isContent
    <3>2. \A u : usable(u)' = usable(u)
      BY <2>1, FiltersSame
    <3> QED BY <2>5, <2>12, <3>1, <3>2 DEF NothingUsableLost, listed, holds
  <2> QED BY <2>1, <2>8, <2>9, <2>10, <2>11, <2>13 DEF Inv, Result
<1>8. CASE UNCHANGED vars
  <2>1. UNCHANGED <<req, doc, pc, k, seen, buckets, out>>
    BY <1>8 DEF vars
  <2>2. TypeOK' /\ Core'
    BY <1>0, <2>1, CoreSame, Zenon DEF TypeOK
  <2>3. Reached'
    BY <1>0, <2>1 DEF Reached, met, isContent
  <2>4. Result'
    BY <1>0, <2>1 DEF Result, OneVariantEach, NothingUsableLost, OwnImages, finished, listed,
                      fromHead, fromImgs, isContent, usable
  <2> QED BY <2>2, <2>3, <2>4 DEF Inv
<1> QED BY <1>1, <1>2, <1>3, <1>4, <1>5, <1>6, <1>7, <1>8 DEF Next

\* The invariant holds throughout.
LEMMA InvHolds == Spec => []Inv
BY InvInit, InvNext, PTL DEF Spec

\* The types, for every document.
THEOREM ContentTypeCorrect == Spec => []TypeOK
<1>1. Inv => TypeOK
  BY DEF Inv
<1> QED BY <1>1, InvHolds, PTL

\* For every document, no image is returned in two sizes.
THEOREM NoImageTwice == Spec => []OneVariantEach
<1>1. Inv => OneVariantEach
  BY DEF Inv, Result
<1> QED BY <1>1, InvHolds, PTL

\* For every document and limit, no usable image is hidden by another size of it.
THEOREM NoUsableImageLost == Spec => []NothingUsableLost
<1>1. Inv => NothingUsableLost
  BY DEF Inv, Result
<1> QED BY <1>1, InvHolds, PTL

\* For every document, the results are the page's own and clean.
THEOREM ImagesAreOwn == Spec => []OwnImages
<1>1. Inv => OwnImages
  BY DEF Inv, Result
<1> QED BY <1>1, InvHolds, PTL

-----------------------------------------------------------------------------
(* The order of the buckets *)

\* What the images of a bucket have in common.
files(u, b) ==
    /\ b = "priority" => matches(u)
    /\ b = "normal" => ~matches(u)
    /\ b \in {"jsonld", "og"} => u \in fromHead

Filed == \A b \in Buckets : \A i \in 1..Len(buckets[b]) : files(buckets[b][i].ImgURL, b)

\* Two sizes of one image match the slug or do not.
LEMMA VariantsMatch ==
    ASSUME NEW u \in URLs, NEW v \in URLs, normalizeImgURL(u) = normalizeImgURL(v)
    PROVE  matches(u) = matches(v)
<1>1. u \in URL /\ v \in URL
  BY ContentAssumption
<1>2. normalizeImgURL(u).words = u.words /\ normalizeImgURL(v).words = v.words
  BY <1>1 DEF URL, normalizeImgURL
<1>3. u.words = v.words
  BY <1>2
<1> QED BY <1>3 DEF matches, bucketOf, isSlugMatch

\* The buckets read only the call and the document.
LEMMA FilesSame ==
    ASSUME UNCHANGED <<req, doc>>
    PROVE  /\ \A u, b : files(u, b)' = files(u, b)
           /\ \A u : matches(u)' = matches(u)
           /\ fromHead' = fromHead /\ fromImgs' = fromImgs
<1>1. fromHead' = fromHead /\ fromImgs' = fromImgs
  BY DEF fromHead, fromImgs, isContent
<1>2. \A u : matches(u)' = matches(u)
  BY DEF matches, bucketOf
<1> QED BY <1>1, <1>2 DEF files

\* addIfNew puts an image where it is told to.
LEMMA AddFiles ==
    ASSUME TypeOK, Filed, UNCHANGED <<req, doc>>, NEW u \in URLs, NEW b \in Buckets,
           files(u, b), addIfNew(u, b)
    PROVE  Filed'
<1>0. buckets \in [Buckets -> Seq(Entry)]
  BY Zenon DEF TypeOK, Entry
<1>1. PICK e \in Entry : e = [ImgURL |-> u, License |-> CheckLicense(u, req.PageURL)]
  BY LicenseType, Zenon DEF Entry
<1>2. CASE buckets' = buckets
  BY <1>2, FilesSame DEF Filed
<1>3. CASE buckets' = [buckets EXCEPT ![b] = Append(buckets[b], e)]
  <2>1. /\ buckets[b] \in Seq(Entry) /\ Len(buckets[b]) \in Nat
        /\ Len(Append(buckets[b], e)) = Len(buckets[b]) + 1
        /\ \A i \in 1..Len(buckets[b]) : Append(buckets[b], e)[i] = buckets[b][i]
        /\ Append(buckets[b], e)[Len(buckets[b]) + 1] = e
    BY <1>0, AppendProperties
  <2>2. /\ buckets'[b] = Append(buckets[b], e)
        /\ \A c \in Buckets \ {b} : buckets'[c] = buckets[c]
    BY <1>0, <1>3
  <2>3. ASSUME NEW c \in Buckets, NEW i \in 1..Len(buckets'[c])
        PROVE  \/ i \in 1..Len(buckets[c]) /\ buckets'[c][i] = buckets[c][i]
               \/ c = b /\ buckets'[c][i] = e
    BY <2>1, <2>2
  <2>4. e.ImgURL = u
    BY <1>1
  <2>5. \A c \in Buckets : \A i \in 1..Len(buckets'[c]) : files(buckets'[c][i].ImgURL, c)
    BY <2>3, <2>4 DEF Filed
  <2> QED BY <2>5, FilesSame DEF Filed
<1> QED BY <1>1, <1>2, <1>3 DEF addIfNew

\* Every step keeps Filed.
LEMMA FiledNext == Inv /\ Filed /\ [Next]_vars => Filed'
<1> SUFFICES ASSUME Inv, Filed, [Next]_vars PROVE Filed'
  OBVIOUS
<1>0. TypeOK /\ Reached
  BY DEF Inv
<1>d. /\ doc.og \in URLs /\ doc.twitter \in URLs
      /\ Len(doc.jsonld) \in Nat /\ DOMAIN doc.jsonld = 1..Len(doc.jsonld)
      /\ \A i \in 1..Len(doc.jsonld) : extractJSONLDImage(doc.jsonld[i]) \in URLs
      /\ Len(doc.imgs) \in Nat /\ DOMAIN doc.imgs = 1..Len(doc.imgs)
      /\ \A i \in 1..Len(doc.imgs) : doc.imgs[i].src \in URLs
  BY <1>0, DocFacts DEF TypeOK
<1>a. ASSUME UNCHANGED <<req, doc, buckets>> PROVE Filed'
  BY <1>a, FilesSame DEF Filed
<1>1. CASE fetchPage
  <2>1. buckets' = buckets /\ \A b \in Buckets : buckets[b] = <<>>
    BY <1>0, <1>1, Zenon DEF fetchPage, Reached
  <2> QED BY <2>1 DEF Filed
<1>2. CASE OpenGraph \/ Twitter
  <2>1. PICK u \in URLs : u \in fromHead /\ addIfNew(u, "og")
    BY <1>2, <1>d DEF OpenGraph, Twitter, fromHead, addIfNew
  <2>2. UNCHANGED <<req, doc>> /\ files(u, "og") /\ "og" \in Buckets
    BY <1>2, <2>1 DEF OpenGraph, Twitter, files, Buckets
  <2> QED BY <1>0, <2>1, <2>2, AddFiles
<1>3. CASE JSONLD
  <2>1. k \in 1..Len(doc.jsonld)
    BY <1>0, <1>3, <1>d DEF JSONLD, TypeOK, Reached
  <2>2. PICK u \in URLs : u = extractJSONLDImage(doc.jsonld[k])
    BY <1>d, <2>1
  <2>3. UNCHANGED <<req, doc>> /\ addIfNew(u, "jsonld") /\ "jsonld" \in Buckets
    BY <1>3, <2>2 DEF JSONLD, addIfNew, Buckets
  <2>4. files(u, "jsonld")
    BY <1>d, <2>1, <2>2 DEF files, fromHead, Range
  <2> QED BY <1>0, <2>3, <2>4, AddFiles
<1>4. CASE Img
  <2>1. k \in 1..Len(doc.imgs) /\ UNCHANGED <<req, doc>>
    BY <1>0, <1>4, <1>d DEF Img, TypeOK, Reached
  <2>2. CASE isContent(doc.imgs[k])
    <3>1. PICK u \in URLs, b \in Buckets :
              u = normalizeImgURL(doc.imgs[k].src) /\ b = bucketOf(u)
      BY <1>d, <2>1, NormalKeeps DEF bucketOf, Buckets
    <3>2. addIfNew(u, b)
      BY <1>4, <2>2, <3>1, Zenon DEF Img, addIfNew
    <3>3. files(u, b)
      BY <3>1 DEF files, matches, bucketOf
    <3> QED BY <1>0, <2>1, <3>2, <3>3, AddFiles
  <2>3. CASE ~isContent(doc.imgs[k])
    BY <1>4, <1>a, <2>1, <2>3 DEF Img
  <2> QED BY <2>2, <2>3
<1>5. CASE ImgTags \/ Merge \/ UNCHANGED vars
  BY <1>a, <1>5 DEF ImgTags, Merge, vars
<1> QED BY <1>1, <1>2, <1>3, <1>4, <1>5 DEF Next

\* The images that match stand at the head of the merged list, one for one.
LEMMA PriorityLeads ==
    ASSUME TypeOK
    PROVE  LET p == buckets["priority"]
           IN /\ p \in Seq(Entry) /\ Len(p) \in Nat
              /\ \A i \in 1..Len(p) : merged[i] = p[i]
<1>1. PICK p, n, j, o : /\ p = buckets["priority"] /\ n = buckets["normal"]
                        /\ j = buckets["jsonld"] /\ o = buckets["og"]
  OBVIOUS
<1>2. p \in Seq(Entry) /\ n \in Seq(Entry) /\ j \in Seq(Entry) /\ o \in Seq(Entry)
  BY <1>1 DEF TypeOK, Buckets, Entry
<1>3. PICK pn, pnj, m : pn = p \o n /\ pnj = pn \o j /\ m = pnj \o o
  BY Zenon
<1>4. /\ pn \in Seq(Entry) /\ Len(p) \in Nat
      /\ \A i \in 1..Len(p) : i \in 1..Len(pn) /\ pn[i] = p[i]
  BY <1>2, <1>3, JoinedElement
<1>5. pnj \in Seq(Entry) /\ \A i \in 1..Len(pn) : i \in 1..Len(pnj) /\ pnj[i] = pn[i]
  BY <1>2, <1>3, <1>4, JoinedElement
<1>6. \A i \in 1..Len(pnj) : m[i] = pnj[i]
  BY <1>2, <1>3, <1>5, JoinedElement
<1>7. merged = m
  BY <1>1, <1>3 DEF merged
<1> QED BY <1>1, <1>2, <1>4, <1>5, <1>6, <1>7

\* Every step keeps the order.
LEMMA SlugNext == Inv /\ Filed /\ SlugFirst /\ [Next]_vars => SlugFirst'
<1> SUFFICES ASSUME Inv, Filed, SlugFirst, [Next]_vars PROVE SlugFirst'
  OBVIOUS
<1>0. TypeOK /\ Core /\ Reached /\ Result
  BY DEF Inv
<1>1. CASE fetchPage \/ OpenGraph \/ Twitter \/ JSONLD \/ ImgTags \/ Img
  <2>1. out' = <<>>
    BY <1>0, <1>1, Zenon DEF fetchPage, OpenGraph, Twitter, JSONLD, ImgTags, Img, Result
  <2> QED BY <2>1 DEF SlugFirst
<1>2. CASE Merge
  <2>0. pc = "img" /\ k > Len(doc.imgs) /\ UNCHANGED <<req, doc>>
    BY <1>2 DEF Merge
  <2>d. /\ Len(doc.imgs) \in Nat /\ DOMAIN doc.imgs = 1..Len(doc.imgs)
        /\ \A i \in 1..Len(doc.imgs) : doc.imgs[i].src \in URLs
    BY <1>0, DocFacts DEF TypeOK
  <2>1. PICK m, p, r : /\ m = merged /\ p = buckets["priority"]
                       /\ r = IF Len(m) > contentMaxResults THEN SubSeq(m, 1, contentMaxResults) ELSE m
    BY Zenon
  <2>2. out' = r
    BY <1>2, <2>1 DEF Merge
  <2>3. m \in Seq(Entry) /\ Len(m) \in Nat /\ allGood(m)
    BY <1>0, <2>1, MergedFacts
  <2>4. Len(r) \in Nat /\ Len(r) <= Len(m) /\ \A i \in 1..Len(r) : r[i] = m[i]
    BY <2>1, <2>3, ContentAssumption
  <2>5. p \in Seq(Entry) /\ Len(p) \in Nat /\ \A i \in 1..Len(p) : m[i] = p[i]
    BY <1>0, <2>1, PriorityLeads
  <2>6. ASSUME NEW u \in fromImgs, NEW v \in fromImgs, NEW j \in 1..Len(r),
               usable(u), matches(u), ~matches(v), ~inHead(u), ~inHead(v),
               normalizeImgURL(r[j].ImgURL) = normalizeImgURL(v)
        PROVE  \E i \in 1..(j - 1) : normalizeImgURL(r[i].ImgURL) = normalizeImgURL(u)
    <3>1. \A w \in fromImgs : w \in URLs /\ met(w)
      <4> TAKE w \in fromImgs
      <4>1. PICK t \in Range(doc.imgs) : isContent(t) /\ w = normalizeImgURL(t.src)
        BY DEF fromImgs
      <4>2. PICK i \in 1..Len(doc.imgs) : t = doc.imgs[i]
        BY <2>d, <4>1 DEF Range
      <4>3. i < k
        BY <1>0, <2>d, <2>0 DEF TypeOK
      <4> QED BY <1>0, <2>d, <2>0, <4>1, <4>2, <4>3, NormalKeeps DEF Reached
    <3>2. held(u)
      BY <1>0, <2>6, <3>1 DEF met, usable, Core
    <3>3. PICK b \in Buckets : \E i \in 1..Len(buckets[b]) :
              normalizeImgURL(buckets[b][i].ImgURL) = normalizeImgURL(u)
      BY <3>2 DEF held
    <3>4. PICK i \in 1..Len(buckets[b]) :
              normalizeImgURL(buckets[b][i].ImgURL) = normalizeImgURL(u)
      BY <3>3
    <3>5. buckets[b][i].ImgURL \in URLs /\ files(buckets[b][i].ImgURL, b)
      BY <1>0 DEF Core, good, Entry, Filed
    <3>6. b = "priority"
      <4>1. b \notin {"jsonld", "og"}
        BY <2>6, <3>4, <3>5 DEF files, inHead
      <4>2. b # "normal"
        BY <2>6, <3>1, <3>4, <3>5, VariantsMatch DEF files
      <4> QED BY <4>1, <4>2 DEF Buckets
    <3>7. r[j].ImgURL \in URLs
      BY <2>3, <2>4 DEF allGood, good, Entry
    <3>8. ~(j <= Len(p))
      <4>1. SUFFICES ASSUME j \in 1..Len(p) PROVE FALSE
        BY <2>4, <2>5
      <4>2. r[j] = buckets["priority"][j] /\ "priority" \in Buckets
        BY <2>1, <2>4, <2>5, <4>1, Zenon DEF Buckets
      <4>3. files(r[j].ImgURL, "priority")
        BY <2>1, <4>1, <4>2, Zenon DEF Filed
      <4> QED BY <2>6, <3>1, <3>7, <4>3, VariantsMatch DEF files
    <3>9. i \in 1..(j - 1) /\ i \in 1..Len(r) /\ r[i] = buckets["priority"][i]
      <4>1. i \in 1..Len(p)
        BY <2>1, <3>6
      <4>2. i \in 1..(j - 1) /\ i \in 1..Len(r)
        BY <2>4, <2>5, <3>8, <4>1
      <4> QED BY <2>1, <2>4, <2>5, <4>1, <4>2, Zenon
    <3> QED BY <3>4, <3>6, <3>9
  <2>7. /\ \A u : usable(u)' = usable(u)
        /\ \A u : matches(u)' = matches(u)
        /\ \A u : inHead(u)' = inHead(u)
        /\ fromImgs' = fromImgs
    BY <2>0, FiltersSame, FilesSame DEF inHead
  <2> QED BY <2>2, <2>6, <2>7 DEF SlugFirst
<1>3. CASE UNCHANGED vars
  <2>1. UNCHANGED <<req, doc, out>>
    BY <1>3 DEF vars
  <2>2. /\ \A u : usable(u)' = usable(u)
        /\ \A u : matches(u)' = matches(u)
        /\ \A u : inHead(u)' = inHead(u)
        /\ fromImgs' = fromImgs
    BY <2>1, FiltersSame, FilesSame DEF inHead
  <2> QED BY <2>1, <2>2 DEF SlugFirst
<1> QED BY <1>1, <1>2, <1>3 DEF Next

\* For every document, an img tag that matches the slug precedes one that does not, and
\* is not cut in its favour.
THEOREM SlugComesFirst == Spec => []SlugFirst
<1>1. Init => Filed /\ SlugFirst
  BY DEF Init, Filed, SlugFirst
<1> QED BY <1>1, FiledNext, SlugNext, InvHolds, PTL DEF Spec
==============================================================================
