------------------------------- MODULE Fetch ---------------------------------
(***************************************************************************)
(* What the pipeline learns from the network: the probe (validate.go), the *)
(* download (download.go, dedup.go) and the reverse image search           *)
(* (reverse.go).  Servers are outside the program: a request is answered   *)
(* with some member of a set of replies, or fails.  A reply is a record:   *)
(*   status  the HTTP status; 0 stands for no answer (a refused request, a *)
(*           timeout, a cancelled context, more than three redirects)      *)
(*   image   whether the content type starts with "image/"                 *)
(*   width   the width DecodeConfig finds, 0 when it cannot tell           *)
(*   size    the length of the body in KB, 0 for an empty one              *)
(*   look    the perceptual hash of the whole picture                      *)
(*   meta    the metadata ExtractImageMetadata finds in the bytes kept     *)
(***************************************************************************)
EXTENDS License

CONSTANTS
    Hashes,           \* perceptual hashes (goimagehash)
    NoImage,          \* the nil image.Image
    Distance(_, _)    \* Hamming distance of two hashes (goimagehash)

ASSUME HashAssumption ==
    /\ NoImage \notin Hashes
    /\ \A h, k \in Hashes : Distance(h, k) \in Nat /\ Distance(h, k) = Distance(k, h)

StatusOK        == 200
defaultMaxBytes == 200     \* KB
MinImageWidth   == 880     \* defaults()
dedupThreshold  == 10

NoReply == [status |-> 0, image |-> FALSE, width |-> 0, size |-> 0,
            look |-> NoImage, meta |-> NoMetadata]

\* What downloadForValidation hands on: whether there are bytes, the decoded
\* image and the metadata found in the bytes.
Download == [bytes : BOOLEAN, img : Hashes \cup {NoImage}, meta : ImageMetadata]
NoData   == [bytes |-> FALSE, img |-> NoImage, meta |-> NoMetadata]

-----------------------------------------------------------------------------

\* The probe: no logo, status 200, an image, and wide enough if it can tell.
ValidateImageURL(u, r) ==
    /\ ~u.logo
    /\ r.status = StatusOK
    /\ r.image
    /\ r.width = 0 \/ r.width >= MinImageWidth

\* fetchImageData with the default options (MinBytes is 0).
fetched(r) == r.status = StatusOK /\ r.image

\* The direct client first; the stealth client, if there is one, when that fails.
DownloadWith(cfg, direct, stealth) ==
    IF fetched(direct) THEN direct
    ELSE IF cfg.StealthClient /\ fetched(stealth) THEN stealth
    ELSE NoReply

\* The LimitReader keeps the first defaultMaxBytes without complaint: a longer
\* picture is cut short and does not decode, but its bytes are still used.
downloadForValidation(cfg, direct, stealth) ==
    LET r == DownloadWith(cfg, direct, stealth)
    IN [bytes |-> fetched(r) /\ r.size > 0,
        img   |-> IF r.size \in 1..defaultMaxBytes THEN r.look ELSE NoImage,
        meta  |-> r.meta]

\* The service's answer counts only if the check is enabled and answered.
ReverseCheck(cfg, answered, isStock) == cfg.OxBrowserURL /\ answered /\ isStock

Near(h, k) == Distance(h, k) < dedupThreshold

\* A picture that did not decode looks like no other.
Alike(a, b) == a # NoImage /\ b # NoImage /\ Near(a, b)

\* Mutation: validation leaves blocked licences to the providers.
AdmissibleUnlessLogo(cfg, c) == ~c.ImgURL.logo

\* Whatever the servers say, a logo is dropped, and so is a candidate that its own
\* licence or the caller's domain lists block.
Admissible(cfg, c) ==
    /\ ~c.ImgURL.logo
    /\ AssessLicense(cfg, c, NoMetadata) # LicenseBlocked
==============================================================================
