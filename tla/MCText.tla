-------------------------------- MODULE MCText --------------------------------
(***************************************************************************)
(* Text for TLC.                                                           *)
(***************************************************************************)
EXTENDS Text

CONSTANTS
    a, b, dash, maxLen,                             \* for Words
    empty, jane, agency, cc, true                   \* for Metadata

-----------------------------------------------------------------------------
(* Texts of at most maxLen characters. *)

MCChars == {a, b, dash}
MCTexts == UNION {[1..n -> MCChars] : n \in 0..maxLen}

\* Overlapping itself or not, with a character that is no word character or without.
MCKeywords == {<<a, b>>, <<a, b, a>>, <<a, dash, a>>, <<a, b, b>>}

(* Files of at most three tags: one field of each source, a field both rules  *)
(* read, lists, empty values, a name that only another source wants, and the  *)
(* flag: as a text, the vendored decoder's form, and as the bool that         *)
(* handleXMPTag is written for.                                               *)
MCValues == {empty, jane, agency, cc, true}

tag(src, name, list) == [source |-> src, tag |-> name, list |-> list, flag |-> "none"]

FileTags == {tag("IPTC", "Byline", <<v>>) : v \in {empty, jane, agency}}
              \cup {tag("EXIF", "Artist", <<agency>>), tag("EXIF", "Byline", <<agency>>)}
              \cup {tag("XMP", "Rights", l) : l \in {<<>>, <<cc>>, <<agency, cc>>, <<empty, cc>>}}
              \cup {tag("XMP", "License", <<cc>>), tag("XMP", "Creator", <<jane, agency>>)}
              \cup {tag("XMP", "Marked", <<true>>)}
              \cup {[tag("XMP", "Marked", <<>>) EXCEPT !.flag = v] : v \in {"true", "false"}}

NoBytesFile == [bytes |-> FALSE, tags |-> <<>>, err |-> TRUE]
MCFiles == [bytes : {TRUE}, tags : UNION {[1..n -> FileTags] : n \in 0..3}, err : BOOLEAN]
             \cup {NoBytesFile}

(* Pages of at most three tags. *)
PageTags == [attr : {"href"}, rel : {"before", "after", "no"}, url : {"cc", "www", "other"}]
              \cup [attr : {"content"}, rel : {"no"}, url : {"cc", "www", "other"}]

MCPages == UNION {[1..n -> PageTags] : n \in 0..3}

-----------------------------------------------------------------------------

\* The readers that do not run have an input they do not look at.
MCInit ==
    /\ reader \in {"containsWord", "ExtractImageMetadata", "ExtractCCLicense"}
    /\ reader # "containsWord" => text = <<>> /\ word = <<a, b>>
    /\ reader # "ExtractImageMetadata" => file = NoBytesFile
    /\ reader # "ExtractCCLicense" => page = <<>>
    /\ TextInit

MCSpec == MCInit /\ [][TextNext]_textVars
==============================================================================
