------------------------------- MODULE Content -------------------------------
(***************************************************************************)
(* ContentImageProvider.Search (provider_content.go): the images of a      *)
(* page.  They are collected in four passes over the document into four    *)
(* buckets, each once whatever its last size suffix, and the buckets are   *)
(* joined and cut to contentMaxResults.                                    *)
(*                                                                         *)
(* A URL is the record of License, after TrimSpace and UnescapeString, and *)
(*   http    whether it starts with "http"                                 *)
(*   labels  the labels of its host, <<>> when it does not parse           *)
(*   sizes   the -WxH suffixes at the end of its stem, as <<w, h>> pairs   *)
(*   words   the words its file name contains                              *)
(*   skip    whether it contains one of contentSkipPatterns                *)
(* All but sizes belongs to the rest of the URL: no pattern or keyword of  *)
(* the library is part of a size suffix.  A document is what the regular   *)
(* expressions find in the first contentBodyLimit bytes of the page:       *)
(*   og, twitter  a URL, or NoURL                                          *)
(*   jsonld       the JSON-LD blocks: whether one parses, and its image    *)
(*   imgs         the img tags: src, width and height, 0 when not given    *)
(***************************************************************************)
EXTENDS License, Sequences, Functions

CONSTANTS
    URLs,               \* the URLs of the instance
    Requests,           \* [PageURL, query]: a URL and a set of words
    Docs,               \* the documents a server may send
    LongWords,          \* the words of at least four characters
    contentMaxResults

NoURL == [text |-> "", http |-> FALSE, labels |-> <<>>, host |-> {}, path |-> {},
          sizes |-> <<>>, words |-> {}, logo |-> FALSE, skip |-> FALSE]
NoDoc == [og |-> NoURL, twitter |-> NoURL, jsonld |-> <<>>, imgs |-> <<>>]

minContentDimension == 200
Buckets == {"priority", "normal", "jsonld", "og"}

VARIABLES
    req, doc,     \* the call; the document, once fetched
    pc, k,        \* the pass, and the element it has reached
    seen,         \* the normalised URLs met so far
    buckets,      \* the four lists
    out           \* the result

vars == <<req, doc, pc, k, seen, buckets, out>>

-----------------------------------------------------------------------------
(* Functions of the text *)

\* Only the last suffix is stripped.
normalizeImgURL(u) ==
    [u EXCEPT !.sizes = IF @ = <<>> THEN @ ELSE SubSeq(@, 1, Len(@) - 1)]

\* The last two labels of the host, or the one it has.
registrableDomain(u) ==
    IF Len(u.labels) < 2 THEN u.labels
    ELSE SubSeq(u.labels, Len(u.labels) - 1, Len(u.labels))

slugTokensFrom(pageURL, query) == (pageURL.words \cup query) \cap LongWords

isSlugMatch(u, tokens) == tokens \cap u.words # {}

isContentSkip(u) == u.skip

tiny(w, h) == w \in 1..(minContentDimension - 1) /\ h \in 1..(minContentDimension - 1)

isTinyThumbnail(tag) ==
    \/ tag.src.sizes # <<>> /\ LET s == tag.src.sizes[Len(tag.src.sizes)] IN tiny(s[1], s[2])
    \/ tiny(tag.width, tag.height)

\* The image of a JSON-LD block: text, an object with a url, or a list of which the
\* first element is taken; anything else gives nothing.
imageOf(v) == IF v.kind \in {"text", "object"} THEN v.url ELSE NoURL

extractJSONLDImage(block) ==
    IF ~block.parses THEN NoURL
    ELSE IF block.image.kind = "list" /\ block.image.items # <<>>
    THEN imageOf(block.image.items[1]) ELSE imageOf(block.image)

URL == [text : STRING, http : BOOLEAN, labels : Seq(STRING), host : SUBSET STRING,
        path : SUBSET STRING, sizes : Seq(Nat \X Nat), words : SUBSET STRING,
        logo : BOOLEAN, skip : BOOLEAN]

ASSUME ContentAssumption ==
    /\ contentMaxResults \in Nat
    /\ URLs \subseteq URL /\ NoURL \in URLs
    /\ \A u \in URLs : normalizeImgURL(u) \in URLs
    /\ \A d \in Docs :
          /\ d.og \in URLs /\ d.twitter \in URLs
          /\ Len(d.jsonld) \in Nat /\ DOMAIN d.jsonld = 1..Len(d.jsonld)
          /\ \A i \in DOMAIN d.jsonld : extractJSONLDImage(d.jsonld[i]) \in URLs
          /\ Len(d.imgs) \in Nat /\ DOMAIN d.imgs = 1..Len(d.imgs)
          /\ \A i \in DOMAIN d.imgs : d.imgs[i].src \in URLs

\* Mutation: an img tag of any host is a content image.
isContentAnywhere(tag) ==
    tag.src.http /\ ~isContentSkip(tag.src) /\ ~isTinyThumbnail(tag)

\* The img tags that are looked at.
isContent(tag) ==
    /\ tag.src.http
    /\ registrableDomain(tag.src) = registrableDomain(req.PageURL)
    /\ registrableDomain(req.PageURL) # <<>>
    /\ ~isContentSkip(tag.src)
    /\ ~isTinyThumbnail(tag)

-----------------------------------------------------------------------------

Init ==
    /\ req \in Requests
    /\ doc = NoDoc
    /\ pc = "fetch" /\ k = 1
    /\ seen = {}
    /\ buckets = [b \in Buckets |-> <<>>]
    /\ out = <<>>

\* fetchPage.  Without a page URL, on an error, on a status of 400 or more and on an
\* empty body the result is empty.
fetchPage ==
    /\ pc = "fetch"
    /\ \/ pc' = "returned" /\ UNCHANGED doc
       \/ req.PageURL.text # "" /\ doc' \in Docs /\ pc' = "og"
    /\ UNCHANGED <<req, k, seen, buckets, out>>

usable(u) == u.http /\ ~u.logo /\ CheckLicense(u, req.PageURL) # LicenseBlocked

\* Mutation: an image is remembered under its key only by the loop over img tags.
addWithoutKey(u, b) ==
    /\ seen' = IF b \in {"priority", "normal"} THEN seen \cup {normalizeImgURL(u)} ELSE seen
    /\ buckets' = IF usable(u) /\ normalizeImgURL(u) \notin seen
                  THEN [buckets EXCEPT ![b] = Append(@,
                           [ImgURL |-> u, License |-> CheckLicense(u, req.PageURL)])]
                  ELSE buckets

\* An image is seen before it is known to be usable.
addIfNew(u, b) ==
    /\ seen' = IF u.http THEN seen \cup {normalizeImgURL(u)} ELSE seen
    /\ buckets' = IF usable(u) /\ normalizeImgURL(u) \notin seen
                  THEN [buckets EXCEPT ![b] = Append(@,
                           [ImgURL |-> u, License |-> CheckLicense(u, req.PageURL)])]
                  ELSE buckets

OpenGraph ==
    /\ pc = "og" /\ pc' = "twitter"
    /\ addIfNew(doc.og, "og")
    /\ UNCHANGED <<req, doc, k, out>>

Twitter ==
    /\ pc = "twitter" /\ pc' = "jsonld"
    /\ addIfNew(doc.twitter, "og")
    /\ UNCHANGED <<req, doc, k, out>>

JSONLD ==
    /\ pc = "jsonld" /\ k <= Len(doc.jsonld)
    /\ addIfNew(extractJSONLDImage(doc.jsonld[k]), "jsonld")
    /\ k' = k + 1
    /\ UNCHANGED <<req, doc, pc, out>>

\* Mutation: the second loop goes on from the index of the first.
ImgTagsFromIndex ==
    /\ pc = "jsonld" /\ k > Len(doc.jsonld)
    /\ pc' = "img" /\ k' = k
    /\ UNCHANGED <<req, doc, seen, buckets, out>>

ImgTags ==
    /\ pc = "jsonld" /\ k > Len(doc.jsonld)
    /\ pc' = "img" /\ k' = 1
    /\ UNCHANGED <<req, doc, seen, buckets, out>>

\* The bucket of an img tag, by its full-size name.
bucketOf(u) ==
    IF isSlugMatch(u, slugTokensFrom(req.PageURL, req.query)) THEN "priority" ELSE "normal"

Img ==
    /\ pc = "img" /\ k <= Len(doc.imgs)
    /\ LET u == normalizeImgURL(doc.imgs[k].src)
       IN IF isContent(doc.imgs[k]) THEN addIfNew(u, bucketOf(u)) ELSE UNCHANGED <<seen, buckets>>
    /\ k' = k + 1
    /\ UNCHANGED <<req, doc, pc, out>>

\* Mutation: the two buckets of content images change places.
mergedNormalFirst == buckets["normal"] \o buckets["priority"] \o buckets["jsonld"] \o buckets["og"]

merged == buckets["priority"] \o buckets["normal"] \o buckets["jsonld"] \o buckets["og"]

Merge ==
    /\ pc = "img" /\ k > Len(doc.imgs)
    /\ pc' = "returned"
    /\ out' = IF Len(merged) > contentMaxResults THEN SubSeq(merged, 1, contentMaxResults) ELSE merged
    /\ UNCHANGED <<req, doc, k, seen, buckets>>

Next ==
    \/ fetchPage \/ OpenGraph \/ Twitter \/ JSONLD \/ ImgTags \/ Img \/ Merge
    \/ pc = "returned" /\ UNCHANGED vars

Spec == Init /\ [][Next]_vars

-----------------------------------------------------------------------------
(* Properties *)

\* The types of the variables.
TypeOK ==
    /\ req \in Requests /\ doc \in Docs \cup {NoDoc}
    /\ pc \in {"fetch", "og", "twitter", "jsonld", "img", "returned"} /\ k \in Nat
    /\ seen \subseteq URLs
    /\ buckets \in [Buckets -> Seq([ImgURL : URLs, License : ImageLicense])]
    /\ out \in Seq([ImgURL : URLs, License : ImageLicense])

fromHead   == {doc.og, doc.twitter} \cup {extractJSONLDImage(b) : b \in Range(doc.jsonld)}
fromImgs   == {normalizeImgURL(t.src) : t \in {t \in Range(doc.imgs) : isContent(t)}}
listed(u)  == \E i \in 1..Len(out) : normalizeImgURL(out[i].ImgURL) = normalizeImgURL(u)
finished   == pc = "returned" /\ doc # NoDoc

\* The picture behind a URL, whatever sizes its name ends with.
picture(u) == [u EXCEPT !.sizes = <<>>]

\* addIfNew knows an image by its name less one size suffix, and the loop over img tags
\* has stripped one already.  What this achieves for pictures: no URL is returned twice,
\* and two results that show one picture, from whatever places of the page, are possible
\* only if one of them still ends with two suffixes (an og:image photo-1024x768-300x200
\* beside the img tag it names).
OneVariantEach ==
    \A i, j \in 1..Len(out) :
        i # j /\ picture(out[i].ImgURL) = picture(out[j].ImgURL) =>
            /\ out[i].ImgURL # out[j].ImgURL
            /\ \E u \in {out[i].ImgURL, out[j].ImgURL} : Len(u.sizes) >= 2

\* addIfNew marks an image as seen before it looks at the logo patterns and the licence.
\* This hides no usable image: whatever the page holds is returned, in one size or
\* another, unless contentMaxResults others are.
NothingUsableLost ==
    finished => \A u \in fromHead \cup fromImgs :
        usable(u) => listed(u) \/ Len(out) = contentMaxResults

\* Search: a result is named by the head of the page or is the full-size form of an img
\* tag on the page's own domain, and is neither a logo nor blocked.
OwnImages ==
    \A i \in 1..Len(out) : LET u == out[i].ImgURL IN
        /\ \/ u \in fromHead
           \/ /\ registrableDomain(u) = registrableDomain(req.PageURL)
              /\ \E t \in Range(doc.imgs) : u = normalizeImgURL(t.src)
        /\ ~u.logo
        /\ out[i].License = CheckLicense(u, req.PageURL) /\ out[i].License # LicenseBlocked

matches(u) == bucketOf(u) = "priority"
inHead(u)  == \E v \in fromHead : normalizeImgURL(v) = normalizeImgURL(u)

\* The merge: of two img tags that the head of the page does not name, one that matches
\* the page's slug is returned before one that does not, and is not cut in its favour.
SlugFirst ==
    \A u, v \in fromImgs : \A j \in 1..Len(out) :
        /\ usable(u) /\ matches(u) /\ ~matches(v) /\ ~inHead(u) /\ ~inHead(v)
        /\ normalizeImgURL(out[j].ImgURL) = normalizeImgURL(v)
        => \E i \in 1..(j - 1) : normalizeImgURL(out[i].ImgURL) = normalizeImgURL(u)

\* "Candidates are returned in priority order: 1. Content <img> tags [...] 3. og:image and
\* twitter:image (kept as lowest-priority fallback)" (provider_content.go:59): what is a
\* content image precedes what is not.
ContentFirst ==
    \A i, j \in 1..Len(out) :
        /\ \E u \in fromImgs : normalizeImgURL(out[j].ImgURL) = normalizeImgURL(u)
        /\ i < j
        => \E u \in fromImgs : normalizeImgURL(out[i].ImgURL) = normalizeImgURL(u)
==============================================================================
