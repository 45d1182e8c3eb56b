--------------------------- MODULE MCLicenseRules ----------------------------
(* Seven URLs: none, one without a host, and hosts on no list, on one list  *)
(* or on two; "partner" is a keyword only callers' lists hold.              *)
EXTENDS LicenseRules

MCURL(text, host, path) == [text |-> text, host |-> host, path |-> path, logo |-> FALSE]

MCURLs == { MCURL("", {}, {}),
            MCURL("relative", {}, {"/stock-photo"}),
            MCURL("plain", {""}, {}),
            MCURL("stock", {"", "shutterstock"}, {}),
            MCURL("free", {"", "unsplash"}, {}),
            MCURL("partner", {"", "partner"}, {}),
            MCURL("freepartner", {"", "unsplash", "partner"}, {}) }

MCMarks(stock, cc) == [stockIn |-> stock, ccIn |-> cc]

MCMetadata == { NoMetadata,
                MCMarks({"EXIFCopyright"}, {}),
                MCMarks({}, {"XMPLicense"}),
                MCMarks({"DCRights"}, {"DCRights"}),
                MCMarks({}, {"EXIFCopyright"}) }

\* Getty and others put the agency's terms in the rights web statement.
MCMetadataAllFields == MCMetadata \cup { MCMarks({"XMPWebStatement"}, {}) }
==============================================================================
