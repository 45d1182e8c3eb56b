------------------------------ MODULE Providers -------------------------------
(***************************************************************************)
(* One Search of a provider: SearXNG (provider.go), Openverse              *)
(* (openverse.go), Pexels (pexels.go), DuckDuckGo (provider_ddg.go), the   *)
(* page's og:image (provider_og.go), the native engines                    *)
(* (provider_native.go), or a FallbackProvider over several of them        *)
(* (orchestrator.go).  ContentImageProvider is in Content.                 *)
(*                                                                         *)
(* A step is one request with its reply, or one turn of a filter loop.     *)
(* Servers are outside the program.  A reply is a record:                  *)
(*   status   the HTTP status; 0 stands for no reply                       *)
(*   json     whether the body parses, for the page: whether it is read    *)
(*   token    whether it holds a vqd token                                 *)
(*   results  its results, records of the two URLs ImgURL and Source       *)
(* The URL of a request and its headers are left out.                      *)
(***************************************************************************)
EXTENDS License, Sequences, Functions

CONSTANTS
    Raws,         \* the results servers may send
    Chains,       \* a call: [fallback, deadline, hanging, Providers]; hanging are the servers
                  \* that accept a request and never answer; without fallback there is one
                  \* provider: [name, APIKey, SecretKey, PageURL, DoerTimeout]; DoerTimeout
                  \* says whether the client the engines were built with has a timeout
    Replies(_)    \* the replies of a server

ASSUME ChainAssumption ==
    \A c \in Chains :
        /\ Len(c.Providers) \in Nat /\ DOMAIN c.Providers = 1..Len(c.Providers)
        /\ c.fallback \in BOOLEAN /\ (~c.fallback => Len(c.Providers) = 1)
        /\ \A i \in DOMAIN c.Providers : LET p == c.Providers[i] IN
              /\ p.name \in {"searxng", "openverse", "pexels", "ddg", "og", "native"}
              /\ p.APIKey \in BOOLEAN /\ p.SecretKey \in BOOLEAN /\ p.PageURL \in BOOLEAN
              /\ p.DoerTimeout \in BOOLEAN

VARIABLES
    chain,        \* the call
    expired,      \* its context is done
    pos, step,    \* the provider that is asked, and where it is
    raw, k, kept, \* the results it got, the filter's index, what the filter kept
    lastErr,      \* FallbackProvider's lastErr
    res,          \* what Search returns
    log,          \* history: the requests made, each with what its reply was
    outcome       \* history: how each provider ended

vars == <<chain, expired, pos, step, raw, k, kept, lastErr, res, log, outcome>>

Endpoints == {"searxng", "openverse", "official", "retry", "internal",
              "token", "images", "engines", "page"}

Err(i, at) == [pos |-> i, at |-> at]
NoErr      == Err(0, "none")
AllFailed  == Err(0, "all providers failed")
NoReply    == [status |-> 0, json |-> FALSE, token |-> FALSE, results |-> <<>>]

ASSUME ReplyAssumption ==
    \A e \in Endpoints : \A r \in Replies(e) :
        /\ r.status \in Nat /\ r.json \in BOOLEAN /\ r.token \in BOOLEAN
        /\ r.results \in Seq(Raws)

provider == chain.Providers[pos]

-----------------------------------------------------------------------------
(* What a provider asks, and what it takes for an answer *)

\* The first request.  "nokey" and "nopage" end the search without one; every engine
\* looks at the context before its request, and never after.
firstStep(p) ==
    CASE p.name = "pexels" -> IF p.APIKey THEN "official"
                              ELSE IF p.SecretKey THEN "internal" ELSE "nokey"
      [] p.name = "ddg"    -> "token"
      [] p.name = "og"     -> IF p.PageURL THEN "page" ELSE "nopage"
      [] p.name = "native" -> IF expired THEN "nopage" ELSE "engines"
      [] OTHER             -> p.name

\* Pexels: after the official API the internal one, or, without a secret key, the
\* official one again.  Neither an og:image nor the engines ever fail.
afterFailure(p, e) ==
    CASE e = "official" -> IF p.SecretKey THEN "internal" ELSE "retry"
      [] e \in {"page", "engines"} -> "nopage"
      [] OTHER -> "error"

server(e) == IF e = "retry" THEN "official" ELSE e

\* Which replies each provider takes for an answer.
doGet(r)          == r.status = 200                 \* Pexels, both APIs
searchOfficial(r) == doGet(r) /\ r.json
searchInternal(r) == doGet(r) /\ r.json
fetchOpen(r)      == r.status = 200 /\ r.json       \* Openverse
get(r)            == r.status < 400                 \* DuckDuckGo, both requests
\* Mutation: a page without a token passes.
fetchTokenUnchecked(r) == get(r)
fetchToken(r)     == get(r) /\ r.token
fetchImages(r)    == get(r) /\ r.json
fetchOG(r)        == r.status < 400 /\ r.json
fetch(r)          == r.json                         \* SearXNG: any status

accepts(e, r) ==
    /\ r.status # 0
    /\ CASE e \in {"official", "retry"} -> searchOfficial(r)
         [] e = "internal"  -> searchInternal(r)
         [] e = "openverse" -> fetchOpen(r)
         [] e = "token"     -> fetchToken(r)
         [] e = "images"    -> fetchImages(r)
         [] e = "page"      -> fetchOG(r)
         [] e = "searxng"   -> fetch(r)
         [] e = "engines"   -> r.json

\* Mutation: requests are made without the context.
boundToNothing(e) == FALSE

\* Every request of this repository carries the context.  Those of the engines, made by
\* their own library, do not.
bound(e) == e # "engines"

\* The page has a timeout of its own, and so may the client of the engines.
timesOut(e) == e = "page" \/ (e = "engines" /\ provider.DoerTimeout)

\* What a request may bring.  The engines are asked side by side and all waited for: one
\* that hangs, once it has timed out, leaves the results of the others.
answers(e) ==
    IF expired /\ bound(e) THEN {NoReply}
    ELSE IF server(e) \notin chain.hanging THEN Replies(server(e)) \cup {NoReply}
    ELSE IF ~timesOut(e) THEN {}
    ELSE IF e = "engines" THEN Replies(e) \cup {NoReply} ELSE {NoReply}

request(r) == [pos |-> pos, at |-> server(step), status |-> r.status, json |-> r.json,
               token |-> r.token]

-----------------------------------------------------------------------------
(* The filters *)

\* Pexels and Openverse only have free images.
curated(p) == p.name \in {"pexels", "openverse"}

licenseOf(p, r) == IF curated(p) THEN LicenseSafe ELSE CheckLicense(r.ImgURL, r.Source)

\* Mutation: the filter looks at the licence only.
cleanLicence(p, r) == licenseOf(p, r) # LicenseBlocked

isImage(r)    == r.ImgURL.text # "" /\ ~r.ImgURL.logo
notBlocked(r) == CheckLicense(r.ImgURL, r.Source) # LicenseBlocked

filterPhotos(r) == isImage(r)                           \* Pexels, both APIs
filterOpen(r)   == isImage(r)                           \* Openverse
filterDDG(r)    == isImage(r) /\ notBlocked(r)
filterSearx(r)  == isImage(r) /\ notBlocked(r)
filterOG(r)     == isImage(r) /\ notBlocked(r)
\* The engines' library has dropped results without a URL already.
filterNative(r) == ~r.ImgURL.logo /\ notBlocked(r)

clean(p, r) ==
    CASE p.name = "pexels"    -> filterPhotos(r)
      [] p.name = "openverse" -> filterOpen(r)
      [] p.name = "ddg"       -> filterDDG(r)
      [] p.name = "searxng"   -> filterSearx(r)
      [] p.name = "og"        -> filterOG(r)
      [] OTHER                -> filterNative(r)

candidate(p, r) == [ImgURL |-> r.ImgURL, Source |-> r.Source, License |-> licenseOf(p, r)]

-----------------------------------------------------------------------------

Init ==
    /\ chain \in Chains
    /\ expired = FALSE
    /\ pos = 0 /\ step = "next"
    /\ raw = <<>> /\ k = 1 /\ kept = <<>>
    /\ lastErr = NoErr
    /\ res = [list |-> <<>>, err |-> NoErr]
    /\ log = <<>>
    /\ outcome = [i \in DOMAIN chain.Providers |-> "none"]

Expire ==
    /\ ~expired /\ step # "returned"
    /\ expired' = TRUE
    /\ UNCHANGED <<chain, pos, step, raw, k, kept, lastErr, res, log, outcome>>

CallNext ==
    /\ step = "next" /\ pos < Len(chain.Providers)
    /\ pos' = pos + 1
    /\ step' = firstStep(chain.Providers[pos + 1])
    /\ raw' = <<>> /\ k' = 1 /\ kept' = <<>>
    /\ UNCHANGED <<chain, expired, lastErr, res, log, outcome>>

\* FallbackProvider after its loop.
Exhausted ==
    /\ step = "next" /\ pos = Len(chain.Providers)
    /\ step' = "returned"
    /\ res' = [list |-> <<>>, err |-> IF lastErr # NoErr THEN lastErr ELSE AllFailed]
    /\ UNCHANGED <<chain, expired, pos, raw, k, kept, lastErr, log, outcome>>

\* A reply is taken: a token leads to the second request, results to the filter.
Answered ==
    /\ step \in Endpoints
    /\ \E r \in answers(step) :
          /\ accepts(step, r)
          /\ log' = Append(log, request(r))
          /\ \/ step = "token" /\ step' = "images" /\ UNCHANGED raw
             \/ step # "token" /\ step' = "filter" /\ raw' = r.results
    /\ UNCHANGED <<chain, expired, pos, k, kept, lastErr, res, outcome>>

\* A reply is refused, or there is none.
Refused ==
    /\ step \in Endpoints
    /\ \E r \in answers(step) :
          /\ ~accepts(step, r)
          /\ log' = Append(log, request(r))
    /\ step' = afterFailure(provider, step)
    /\ UNCHANGED <<chain, expired, pos, raw, k, kept, lastErr, res, outcome>>

\* One turn of a filter loop.
Filter ==
    /\ step = "filter" /\ k <= Len(raw)
    /\ kept' = IF clean(provider, raw[k]) THEN Append(kept, candidate(provider, raw[k])) ELSE kept
    /\ k' = k + 1
    /\ UNCHANGED <<chain, expired, pos, step, raw, lastErr, res, log, outcome>>

\* Mutation: an error found earlier is kept.
FailedFirst ==
    /\ step \in {"error", "nokey"}
    /\ outcome' = [outcome EXCEPT ![pos] = "error"]
    /\ \/ /\ ~chain.fallback /\ step' = "returned"
          /\ res' = [list |-> <<>>, err |-> Err(pos, step)] /\ UNCHANGED lastErr
       \/ /\ chain.fallback /\ step' = "next" /\ UNCHANGED res
          /\ lastErr' = IF lastErr = NoErr THEN Err(pos, step) ELSE lastErr
    /\ UNCHANGED <<chain, expired, pos, raw, k, kept, log>>

\* A provider returns an error: the fallback goes on to the next.
Failed ==
    /\ step \in {"error", "nokey"}
    /\ outcome' = [outcome EXCEPT ![pos] = "error"]
    /\ \/ /\ ~chain.fallback /\ step' = "returned"
          /\ res' = [list |-> <<>>, err |-> Err(pos, step)] /\ UNCHANGED lastErr
       \/ /\ chain.fallback /\ step' = "next" /\ UNCHANGED res
          /\ lastErr' = Err(pos, step)
    /\ UNCHANGED <<chain, expired, pos, raw, k, kept, log>>

\* A provider returns candidates, or none, which the fallback skips.
Found ==
    /\ (step = "filter" /\ k > Len(raw)) \/ step = "nopage"
    /\ outcome' = [outcome EXCEPT ![pos] = IF kept = <<>> THEN "empty" ELSE "found"]
    /\ \/ /\ chain.fallback /\ kept = <<>>
          /\ step' = "next" /\ UNCHANGED res
       \/ /\ ~chain.fallback \/ kept # <<>>
          /\ step' = "returned" /\ res' = [list |-> kept, err |-> NoErr]
    /\ UNCHANGED <<chain, expired, pos, raw, k, kept, lastErr, log>>

Work == CallNext \/ Exhausted \/ Answered \/ Refused \/ Filter \/ Failed \/ Found

\* A request to a server that hangs.
Waiting == step \in Endpoints /\ answers(step) = {} /\ UNCHANGED vars

Next == Work \/ Expire \/ Waiting \/ (step = "returned" /\ UNCHANGED vars)

Spec == Init /\ [][Next]_vars

\* The goroutine is scheduled, servers that do not hang answer or fail, timeouts pass,
\* and so does a deadline.
FairSpec == Spec /\ WF_vars(Work) /\ WF_vars(chain.deadline /\ Expire)

-----------------------------------------------------------------------------
(* Properties *)

Results == {"none", "error", "empty", "found"}

\* The types of the variables.
TypeOK ==
    /\ chain \in Chains /\ expired \in BOOLEAN
    /\ pos \in 0..Len(chain.Providers)
    /\ step \in Endpoints \cup {"next", "filter", "error", "nokey", "nopage", "returned"}
    /\ step \notin {"next", "returned"} => pos # 0
    /\ k \in Nat
    /\ outcome \in [1..Len(chain.Providers) -> Results]

failures == {i \in DOMAIN outcome : outcome[i] = "error"}

\* FallbackProvider.Search: the results are those of the first provider that found any,
\* and later ones are not asked; if nobody found any, all were asked and the error is that
\* of the last one that failed, or the sentinel if none did.
FirstFoundWins ==
    step = "returned" /\ chain.fallback =>
        \/ /\ pos # 0 /\ outcome[pos] = "found" /\ res.list # <<>> /\ res.err = NoErr
           /\ \A i \in DOMAIN outcome : i < pos => outcome[i] \in {"error", "empty"}
           /\ \A i \in DOMAIN outcome : i > pos => outcome[i] = "none"
           /\ \A i \in DOMAIN log : log[i].pos <= pos
        \/ /\ \A i \in DOMAIN outcome : outcome[i] \in {"error", "empty"}
           /\ res.list = <<>>
           /\ \/ failures = {} /\ res.err = AllFailed
              \/ /\ res.err.pos \in failures
                 /\ \A i \in failures : i <= res.err.pos

\* The contract of SearchProvider and the filters: a search returns exactly the clean
\* results of the last reply, with the licence set and none blocked, a logo or without URL.
FilterExact ==
    step = "returned" /\ res.err = NoErr =>
        /\ Range(res.list) = {candidate(provider, raw[i]) : i \in {j \in DOMAIN raw : clean(provider, raw[j])}}
        /\ \A c \in Range(res.list) : c.License # LicenseBlocked /\ ~c.ImgURL.logo

\* The two replies that lead from one request to another.
tokenGiven(l)     == l.at = "token" /\ l.status \in 1..399 /\ l.token
officialFailed(l) == l.at = "official" /\ (l.status # 200 \/ ~l.json)

\* The requests of one search.  Images are asked for only with a token an earlier reply
\* gave.  The official API is asked only with its key, the internal one only with its key
\* and, if there is an official key too, only once the official API has failed.  What was
\* answered well is not asked again, here or elsewhere; the one request that is ever
\* repeated is a failed official search, at once, once, and for want of a secret key.
RequestProtocol ==
    /\ \A j \in DOMAIN log : LET p == chain.Providers[log[j].pos] IN
          /\ log[j].at = "images" =>
                \E i \in 1..(j - 1) : log[i].pos = log[j].pos /\ tokenGiven(log[i])
          /\ log[j].at = "official" => p.APIKey
          /\ log[j].at = "internal" => p.SecretKey
          /\ log[j].at = "internal" /\ p.APIKey =>
                \E i \in 1..(j - 1) : log[i].pos = log[j].pos /\ officialFailed(log[i])
    /\ \A j \in DOMAIN log : \A i \in 1..(j - 1) : log[i].pos = log[j].pos =>
          /\ accepts(log[i].at, log[i]) => log[i].at = "token" /\ log[j].at = "images"
          /\ log[i].at = log[j].at =>
                /\ j = i + 1 /\ officialFailed(log[i])
                /\ ~chain.Providers[log[j].pos].SecretKey

\* FallbackProvider shares one context among its providers.  Whatever hangs, a search with
\* a deadline returns: a request bound to the context ends with it, and the ones that are
\* not, the engines', end if the client they were built with has a timeout.
DeadlineEnds ==
    /\ chain.deadline
    /\ \A i \in DOMAIN chain.Providers :
          chain.Providers[i].name = "native" => chain.Providers[i].DoerTimeout
    ~> step = "returned"

\* "verifies that an HTTP/parse error is propagated as an error" (provider_test.go:140): a
\* search whose only request was answered with an error status returns an error.
HTTPErrorFails ==
    step = "returned" /\ ~chain.fallback /\ Len(log) = 1 /\ provider.name = "searxng" =>
        (log[1].status >= 400 => res.err # NoErr)
==============================================================================
