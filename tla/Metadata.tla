------------------------------- MODULE Metadata -------------------------------
(***************************************************************************)
(* ExtractImageMetadata (metadata.go, metadata_tags.go): the decoder calls *)
(* HandleTag for one tag after another and ends with or without an error.  *)
(* It is external (imagemeta): a file is whatever sequence of tags it may  *)
(* report.  A tag's value is a list of texts, a single text being a list   *)
(* of one; flag is "none" unless the value is a Go bool.  The vendored     *)
(* decoder reports every XMP value as text.  The result is what License    *)
(* asks of metadata: which fields hold a stock agency's name, which a      *)
(* Creative Commons URL.                                                   *)
(***************************************************************************)
EXTENDS License, Sequences

CONSTANTS
    Values, NoText,       \* texts; the empty one
    StockValues,          \* those in which containsWord finds a keyword
    CCValues,             \* those IsCCLicenseURL accepts
    TrueText,             \* "True", the text of a flag that is set
    Files                 \* [bytes, tags, err]

VARIABLES file, k, meta, marked, found, result

vars == <<file, k, meta, marked, found, result>>

\* Where a tag goes.  Tags outside wantedTags are not handed to HandleTag.
iptcField == [CopyrightNotice |-> "IPTCCopyright", Credit |-> "IPTCCredit",
              Byline |-> "IPTCByline", Source |-> "IPTCSource"]
exifField == [Copyright |-> "EXIFCopyright", Artist |-> "EXIFArtist"]
xmpField  == [WebStatement |-> "XMPWebStatement", UsageTerms |-> "XMPUsageTerms",
              License |-> "XMPLicense", Rights |-> "DCRights", Creator |-> "DCCreator"]
fieldOf   == [IPTC |-> iptcField, EXIF |-> exifField, XMP |-> xmpField]

wantedTags(t) == t.tag \in DOMAIN fieldOf[t.source] \/ (t.source = "XMP" /\ t.tag = "Marked")

\* Of a list, the first text.
tagValueString(t) == IF t.list = <<>> THEN NoText ELSE Head(t.list)

Init ==
    /\ file \in Files
    /\ k = 1
    /\ meta = [f \in MetaFields |-> NoText]
    /\ marked = FALSE /\ found = FALSE
    /\ result = "pending"

\* The early return.
NoBytes ==
    /\ result = "pending" /\ ~file.bytes
    /\ result' = "nil"
    /\ UNCHANGED <<file, k, meta, marked, found>>

NextTag(t) ==
    /\ result = "pending" /\ file.bytes
    /\ k <= Len(file.tags) /\ t = file.tags[k]
    /\ k' = k + 1
    /\ UNCHANGED <<file, result>>

Skip(t) ==
    /\ NextTag(t) /\ ~wantedTags(t)
    /\ UNCHANGED <<meta, marked, found>>

\* Mutation: an empty value overwrites as well.
HandleAnyText(t) ==
    /\ NextTag(t) /\ t.tag \in DOMAIN fieldOf[t.source]
    /\ meta' = [meta EXCEPT ![fieldOf[t.source][t.tag]] = tagValueString(t)]
    /\ found' = (found \/ tagValueString(t) # NoText)
    /\ UNCHANGED marked

\* handleIPTCTag, handleEXIFTag and the text tags of handleXMPTag.
HandleText(t) ==
    /\ NextTag(t) /\ t.tag \in DOMAIN fieldOf[t.source]
    /\ IF tagValueString(t) = NoText THEN UNCHANGED <<meta, found>>
       ELSE /\ meta' = [meta EXCEPT ![fieldOf[t.source][t.tag]] = tagValueString(t)]
            /\ found' = TRUE
    /\ UNCHANGED marked

\* Mutation: whether the type assertion succeeded is not looked at.
HandleMarkedUnchecked(t) ==
    /\ NextTag(t) /\ t.source = "XMP" /\ t.tag = "Marked"
    /\ marked' = (t.flag = "true")
    /\ found' = TRUE
    /\ UNCHANGED meta

\* The flag of handleXMPTag; a value that is no flag is ignored.
HandleMarked(t) ==
    /\ NextTag(t) /\ t.source = "XMP" /\ t.tag = "Marked"
    /\ marked' = IF t.flag = "none" THEN marked ELSE (t.flag = "true")
    /\ found' = (found \/ t.flag # "none")
    /\ UNCHANGED meta

marks == [stockIn |-> {f \in MetaFields : meta[f] \in StockValues},
          ccIn    |-> {f \in MetaFields : meta[f] \in CCValues}]

\* After the last tag, or after the one at which the decoder gave up.
Finish ==
    /\ result = "pending" /\ file.bytes /\ k > Len(file.tags)
    /\ result' = IF file.err \/ ~found THEN "nil" ELSE "meta"
    /\ UNCHANGED <<file, k, meta, marked, found>>

tags == {file.tags[i] : i \in DOMAIN file.tags}

Next == \/ NoBytes \/ Finish
        \/ \E t \in tags : Skip(t) \/ HandleText(t) \/ HandleMarked(t)

Spec == Init /\ [][Next]_vars

\* A nil *ImageMetadata answers like one without marks.
answered == IF result = "meta" THEN marks ELSE NoMetadata

-----------------------------------------------------------------------------

intoField(f, i) ==
    LET t == file.tags[i]
    IN t.tag \in DOMAIN fieldOf[t.source] /\ fieldOf[t.source][t.tag] = f

\* The value a field ends up with, without the loop: the first text of the last
\* tag for it that starts with a text.
lastText(f) ==
    LET given == {i \in DOMAIN file.tags : /\ intoField(f, i) /\ file.tags[i].list # <<>>
                                           /\ Head(file.tags[i].list) # NoText}
    IN IF given = {} THEN NoText
       ELSE Head(file.tags[CHOOSE i \in given : \A j \in given : j <= i].list)

\* The marks that reach the licence verdict are those of the last text of each
\* field, in files that decode to the end; a tag that repeats with an empty value,
\* or a foreign tag of the same name, does not hide them.
LastTextDecides ==
    result # "pending" =>
        LET readable == file.bytes /\ ~file.err
        IN /\ IsStockByMetadata(answered) <=>
                readable /\ \E f \in StockFields : lastText(f) \in StockValues
           /\ IsCCByMetadata(answered) <=>
                readable /\ \E f \in CCFields : lastText(f) \in CCValues

\* The places where Marked is a Go bool.
flagged == {i \in DOMAIN file.tags : /\ file.tags[i].source = "XMP" /\ file.tags[i].tag = "Marked"
                                     /\ file.tags[i].flag # "none"}

\* ExtractImageMetadata returns nil for empty data, for data the decoder gives up on
\* whatever was read before, and for a file of which no handler kept a value: one
\* without a text in any field and without a Marked that is a Go bool.  A Marked given
\* as text, the vendored decoder's form, is not kept: a file with nothing else is nil
\* like one without metadata (MarkedIsRead).  Otherwise XMPMarked is the last bool of
\* the file, whatever texts come after it.
NilMeansNothingKept ==
    result # "pending" =>
        /\ result = "nil" <=> \/ ~file.bytes \/ file.err
                             \/ (flagged = {} /\ \A f \in MetaFields : lastText(f) = NoText)
        /\ result = "meta" =>
              (marked <=> \E i \in flagged : /\ file.tags[i].flag = "true"
                                            /\ \A j \in flagged : j <= i)

\* README.md:303: ExtractImageMetadata reads the XMP rights field Marked: of a file that
\* decodes and sets the flag there is a result, and XMPMarked is set in it.
MarkedIsRead ==
    result # "pending" /\ file.bytes /\ ~file.err =>
        ((\A t \in tags : t.tag = "Marked" => t.list = <<TrueText>>)
         /\ (\E t \in tags : t.tag = "Marked") => result = "meta" /\ marked)

\* metadata.go:28: a stock agency counts "when found (case-insensitive) in any
\* metadata field": whichever entry of the field's list, or of its repeated tags,
\* names the agency.
AgencyInAnyEntry ==
    result = "meta" =>
        ((\E i \in DOMAIN file.tags : \E f \in StockFields :
              intoField(f, i) /\ \E j \in DOMAIN file.tags[i].list :
                                    file.tags[i].list[j] \in StockValues)
         => IsStockByMetadata(answered))
==============================================================================
