--------------------------------- MODULE Text ---------------------------------
(***************************************************************************)
(* The functions that read foreign text: containsWord (Words),             *)
(* ExtractImageMetadata (Metadata) and ExtractCCLicense (CCLicense).  They *)
(* share no state; a behaviour runs the one reader names, on any input.    *)
(***************************************************************************)
EXTENDS Words

CONSTANTS
    Values, NoText, StockValues, CCValues, TrueText, Files,   \* of Metadata
    BlockedDomains, SafeDomains, BlockedURLPatterns,          \* of License
    Pages                                                     \* of CCLicense

VARIABLES
    reader,
    file, k, meta, marked, found, result,           \* of Metadata
    page, pattern, foundAt                          \* of CCLicense

FileTag == [source : {"IPTC", "EXIF", "XMP"}, tag : STRING, list : Seq(Values),
            flag : {"none", "true", "false"}]
PageTag == [attr : {"href", "content"}, rel : {"before", "after", "no"},
            url : {"cc", "www", "other"}]

\* The empty text contains no keyword and is no URL.
ASSUME TextAssumption ==
    /\ NoText \in Values \ (StockValues \cup CCValues)
    /\ \A f \in Files : f.bytes \in BOOLEAN /\ f.err \in BOOLEAN /\ f.tags \in Seq(FileTag)
    /\ Pages \subseteq Seq(PageTag)

Meta == INSTANCE Metadata
CC   == INSTANCE CCLicense WITH found <- foundAt

metaVars == <<file, k, meta, marked, found, result>>
ccVars   == <<page, pattern, foundAt>>
textVars == <<reader, vars, metaVars, ccVars>>

TextInit ==
    /\ reader \in {"containsWord", "ExtractImageMetadata", "ExtractCCLicense"}
    /\ Init /\ Meta!Init /\ CC!Init

TextNext ==
    /\ UNCHANGED reader
    /\ \/ reader = "containsWord" /\ Next /\ UNCHANGED <<metaVars, ccVars>>
       \/ reader = "ExtractImageMetadata" /\ Meta!Next /\ UNCHANGED <<vars, ccVars>>
       \/ reader = "ExtractCCLicense" /\ CC!Next /\ UNCHANGED <<vars, metaVars>>

TextSpec == TextInit /\ [][TextNext]_textVars

\* LastTextDecides of Metadata: what the licence verdict sees of a file is the last
\* text of each field, if the file decodes to its end.
LastTextDecides == Meta!LastTextDecides

\* NilMeansNothingKept of Metadata: ExtractImageMetadata returns nil exactly for a file it
\* could not read or of which no handler kept a value (a Marked that is text is not kept),
\* and XMPMarked is the last Marked that is a bool.
NilMeansNothingKept == Meta!NilMeansNothingKept

\* LicenceFound of CCLicense: ExtractCCLicense returns nothing but Creative Commons
\* licences, and misses none whose URL is written literally, on creativecommons.org.
LicenceFound == CC!LicenceFound
==============================================================================
