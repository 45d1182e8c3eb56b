--------------------------- MODULE ProvidersProofs ----------------------------
(***************************************************************************)
(* A provider's search and the fallback chain, for every chain, every      *)
(* reply and every moment at which the context may end.                    *)
(***************************************************************************)
EXTENDS Providers, SequenceTheorems, TLAPS

Asking == Endpoints \cup {"filter", "error", "nokey", "nopage"}
Candidate == [ImgURL : {r.ImgURL : r \in Raws}, Source : {r.Source : r \in Raws}, License : ImageLicense]

Request == [pos : Nat, at : Endpoints \ {"retry"}, status : Nat, json : BOOLEAN, token : BOOLEAN]

\* The provider has made no request yet, or exactly the one at the end of the log.
NoneYet == \A j \in DOMAIN log : log[j].pos # pos
OnlyLast(l) == /\ log # <<>> /\ log[Len(log)] = l /\ l.pos = pos
               /\ \A j \in DOMAIN log : j # Len(log) => log[j].pos # pos

\* The requests behind a provider that is about to make another.
Behind(e) ==
    \/ /\ e \notin {"images", "retry"} /\ NoneYet
       /\ e = "official" => provider.APIKey
       /\ e = "internal" => provider.SecretKey /\ ~provider.APIKey
    \/ e = "images" /\ \E l \in Request : OnlyLast(l) /\ tokenGiven(l)
    \/ /\ e \in {"internal", "retry"} /\ provider.APIKey
       /\ provider.SecretKey <=> e = "internal"
       /\ \E l \in Request : OnlyLast(l) /\ officialFailed(l)

\* What the filter has done.
Filtering ==
    /\ raw \in Seq(Raws) /\ kept \in Seq(Candidate) /\ k \in Nat \ {0}
    /\ step \in Endpoints \cup {"error", "nokey", "nopage"} => raw = <<>> /\ k = 1 /\ kept = <<>>
    /\ step = "filter" => /\ k <= Len(raw) + 1
                          /\ Range(kept) = {candidate(provider, raw[i]) :
                                i \in {j \in 1..(k - 1) : clean(provider, raw[j])}}

\* What the chain has seen.
Progress ==
    /\ \A i \in DOMAIN outcome : i < pos => outcome[i] \in {"error", "empty"}
    /\ \A i \in DOMAIN outcome : i > pos => outcome[i] = "none"
    /\ step \in Asking => outcome[pos] = "none"
    /\ step = "next" /\ pos # 0 => outcome[pos] \in {"error", "empty"} /\ chain.fallback
    /\ lastErr.pos \in Nat
    /\ chain.fallback /\ step # "returned" =>
          \/ lastErr = NoErr /\ failures = {}
          \/ lastErr.pos \in failures /\ \A i \in failures : i <= lastErr.pos

\* What was sent.
Sending ==
    /\ log \in Seq(Request)
    /\ \A j \in DOMAIN log : log[j].pos \in 1..pos
    /\ step \in Endpoints => Behind(step)

Inv == /\ TypeOK /\ Filtering /\ Progress /\ Sending
       /\ FirstFoundWins /\ FilterExact /\ RequestProtocol

-----------------------------------------------------------------------------

\* What is known of the provider that is asked.
LEMMA ProviderFacts ==
    ASSUME chain \in Chains
    PROVE  /\ Len(chain.Providers) \in Nat /\ DOMAIN chain.Providers = 1..Len(chain.Providers)
           /\ chain.fallback \in BOOLEAN /\ (~chain.fallback => Len(chain.Providers) = 1)
           /\ \A i \in 1..Len(chain.Providers) :
                 /\ chain.Providers[i].name \in {"searxng", "openverse", "pexels", "ddg", "og", "native"}
                 /\ chain.Providers[i].APIKey \in BOOLEAN /\ chain.Providers[i].SecretKey \in BOOLEAN
                 /\ chain.Providers[i].PageURL \in BOOLEAN
BY ChainAssumption

\* The first request of a provider needs no other, and Pexels its keys.
LEMMA FirstStepFacts ==
    ASSUME NEW p, p.name \in {"searxng", "openverse", "pexels", "ddg", "og", "native"},
           p.APIKey \in BOOLEAN, p.SecretKey \in BOOLEAN, p.PageURL \in BOOLEAN
    PROVE  /\ firstStep(p) \in Asking \ {"filter", "error", "images", "retry"}
           /\ firstStep(p) = "internal" => p.SecretKey /\ ~p.APIKey
           /\ firstStep(p) = "official" => p.APIKey
BY DEF firstStep, Asking, Endpoints

\* A reply has a status and a list of results.
LEMMA ReplyFacts ==
    ASSUME NEW e \in Endpoints, NEW r \in answers(e)
    PROVE  /\ r.status \in Nat /\ r.json \in BOOLEAN /\ r.token \in BOOLEAN
           /\ r.results \in Seq(Raws)
<1>1. server(e) \in Endpoints
  BY DEF server, Endpoints
<1>2. r \in Replies(server(e)) \cup Replies(e) \cup {NoReply}
  BY DEF answers
<1>4. CASE r = NoReply
  <2>1. r.status = 0 /\ r.results = <<>> /\ r.json = FALSE /\ r.token = FALSE
    BY <1>4 DEF NoReply
  <2>2. <<>> \in Seq(Raws) /\ 0 \in Nat
    OBVIOUS
  <2> QED BY <2>1, <2>2
<1>5. CASE r \in Replies(server(e)) \cup Replies(e)
  BY <1>1, <1>5, ReplyAssumption
<1> QED BY <1>2, <1>4, <1>5

\* The record of a request: its reply counts as one to what was asked.
LEMMA RequestFacts ==
    ASSUME TypeOK, step \in Endpoints, NEW r \in answers(step)
    PROVE  /\ request(r) \in Request
           /\ request(r).pos = pos /\ request(r).at = server(step)
           /\ request(r).status = r.status /\ request(r).json = r.json /\ request(r).token = r.token
           /\ accepts(server(step), request(r)) <=> accepts(step, r)
<1>1. pos \in Nat
  BY ProviderFacts DEF TypeOK
<1>2. server(step) \in Endpoints \ {"retry"}
  BY DEF server, Endpoints
<1>3. /\ request(r) \in Request
      /\ request(r).pos = pos /\ request(r).at = server(step)
      /\ request(r).status = r.status /\ request(r).json = r.json /\ request(r).token = r.token
  BY <1>1, <1>2, ReplyFacts DEF request, Request
<1>4. accepts(server(step), request(r)) <=> accepts(step, r)
  <2>1. PICK q : q = request(r)
    OBVIOUS
  <2>2. q.status = r.status /\ q.json = r.json /\ q.token = r.token
    BY <1>3, <2>1
  <2>3. accepts(step, q) <=> accepts(step, r)
    BY <2>2 DEF accepts, searchOfficial, searchInternal, doGet, fetchOpen, get, fetchToken,
                fetchImages, fetchOG, fetch, Endpoints
  <2>4. accepts(server(step), q) <=> accepts(step, q)
    BY DEF accepts, server
  <2> QED BY <2>1, <2>3, <2>4
<1> QED BY <1>3, <1>4

\* What the filter makes of a result.
LEMMA CandidateType ==
    ASSUME NEW p, NEW r \in Raws
    PROVE  /\ candidate(p, r) \in Candidate
           /\ clean(p, r) => /\ candidate(p, r).License # LicenseBlocked
                             /\ ~candidate(p, r).ImgURL.logo
<1>1. licenseOf(p, r) \in ImageLicense
  BY DEF licenseOf, CheckLicense, CheckLicenseWith, ImageLicense, LicenseBlocked, LicenseSafe,
         LicenseUnknown
<1>2. clean(p, r) => ~r.ImgURL.logo /\ licenseOf(p, r) # LicenseBlocked
  <2>1. clean(p, r) => ~r.ImgURL.logo
    BY DEF clean, filterPhotos, filterOpen, filterDDG, filterSearx, filterOG, filterNative, isImage
  <2>2. clean(p, r) /\ ~curated(p) => notBlocked(r)
    BY DEF clean, filterDDG, filterSearx, filterOG, filterNative, curated
  <2>3. LicenseSafe # LicenseBlocked
    BY DEF LicenseSafe, LicenseBlocked
  <2> QED BY <2>1, <2>2, <2>3 DEF licenseOf, notBlocked
<1> QED BY <1>1, <1>2 DEF candidate, Candidate

\* A request appended to the log leaves what was sent before it in place.
LEMMA LogGrows ==
    ASSUME log \in Seq(Request), NEW e \in Request, log' = Append(log, e)
    PROVE  /\ log' \in Seq(Request)
           /\ DOMAIN log = 1..Len(log) /\ Len(log) \in Nat
           /\ DOMAIN log' = 1..(Len(log) + 1) /\ Len(log') = Len(log) + 1
           /\ \A j \in 1..Len(log) : log'[j] = log[j]
           /\ log'[Len(log) + 1] = e
OBVIOUS

\* What the protocol says of request j of a log.
Follows(l, j) ==
    LET p == chain.Providers[l[j].pos] IN
    /\ l[j].at = "images" => \E i \in 1..(j - 1) : l[i].pos = l[j].pos /\ tokenGiven(l[i])
    /\ l[j].at = "official" => p.APIKey
    /\ l[j].at = "internal" => p.SecretKey
    /\ l[j].at = "internal" /\ p.APIKey =>
          \E i \in 1..(j - 1) : l[i].pos = l[j].pos /\ officialFailed(l[i])

\* What the protocol says of two requests of one provider.
Repeats(x, y, i, j) ==
    x.pos = y.pos =>
        /\ accepts(x.at, x) => x.at = "token" /\ y.at = "images"
        /\ x.at = y.at => /\ j = i + 1 /\ officialFailed(x)
                          /\ ~chain.Providers[y.pos].SecretKey

\* The protocol in these terms.
LEMMA ProtocolIs ==
    RequestProtocol <=> /\ \A j \in DOMAIN log : Follows(log, j)
                        /\ \A j \in DOMAIN log : \A i \in 1..(j - 1) : Repeats(log[i], log[j], i, j)
BY Zenon DEF RequestProtocol, Follows, Repeats

\* A request follows the protocol, given the requests behind it.
LEMMA RequestKeeps ==
    ASSUME TypeOK, Sending, RequestProtocol, step \in Endpoints, UNCHANGED <<chain, pos>>,
           NEW e \in Request, e.pos = pos, e.at = server(step), log' = Append(log, e)
    PROVE  /\ RequestProtocol'
           /\ log' \in Seq(Request)
           /\ \A j \in DOMAIN log' : log'[j].pos \in 1..pos
           /\ NoneYet => OnlyLast(e)'
<1>1. PICK L, n : L = log' /\ n = Len(log) + 1
  OBVIOUS
<1>2. /\ L \in Seq(Request) /\ DOMAIN log = 1..(n - 1) /\ n \in Nat \ {0} /\ n - 1 = Len(log)
      /\ DOMAIN L = 1..n /\ Len(L) = n /\ L[n] = e
      /\ \A j \in 1..(n - 1) : L[j] = log[j]
  BY <1>1, LogGrows DEF Sending
<1>3. pos \in 1..Len(chain.Providers) /\ Len(chain.Providers) \in Nat
  BY ProviderFacts DEF TypeOK, Endpoints
<1>4. /\ \A j \in 1..(n - 1) : Follows(log, j)
      /\ \A j \in 1..(n - 1) : \A i \in 1..(j - 1) : Repeats(log[i], log[j], i, j)
  BY <1>2, ProtocolIs
<1>5. Behind(step)
  BY DEF Sending
<1>6. \A j \in 1..(n - 1) : Follows(L, j)
  <2> SUFFICES ASSUME NEW j \in 1..(n - 1) PROVE Follows(L, j)
    OBVIOUS
  <2>1. L[j] = log[j] /\ \A i \in 1..(j - 1) : L[i] = log[i]
    BY <1>2
  <2> QED BY <1>4, <2>1 DEF Follows
<1>7. Follows(L, n)
  <2>1. CASE NoneYet
    <3>1. /\ step # "images" /\ step # "retry"
          /\ step = "official" => provider.APIKey
          /\ step = "internal" => provider.SecretKey /\ ~provider.APIKey
      BY <1>2, <1>5, <2>1 DEF Behind, NoneYet, OnlyLast
    <3>2. e.at # "images"
      BY <3>1 DEF server
    <3> QED BY <1>2, <3>1, <3>2 DEF Follows, provider, server
  <2>2. ASSUME NEW l \in Request, OnlyLast(l), tokenGiven(l), step = "images" PROVE Follows(L, n)
    <3>1. n - 1 \in 1..(n - 1) /\ L[n - 1] = l /\ l.pos = e.pos
      BY <1>2, <2>2 DEF OnlyLast
    <3>2. e.at = "images"
      BY <2>2 DEF server
    <3> QED BY <1>2, <2>2, <3>1, <3>2 DEF Follows
  <2>3. ASSUME NEW l \in Request, OnlyLast(l), officialFailed(l), step \in {"internal", "retry"},
               provider.APIKey, provider.SecretKey <=> step = "internal"
        PROVE  Follows(L, n)
    <3>1. n - 1 \in 1..(n - 1) /\ L[n - 1] = l /\ l.pos = e.pos
      BY <1>2, <2>3 DEF OnlyLast
    <3>2. e.at \in {"internal", "official"} /\ (e.at = "internal" => step = "internal")
      BY <2>3 DEF server
    <3> QED BY <1>2, <2>3, <3>1, <3>2 DEF Follows, provider
  <2> QED BY <1>5, <2>1, <2>2, <2>3 DEF Behind
<1>8. \A j \in 1..(n - 1) : \A i \in 1..(j - 1) : Repeats(L[i], L[j], i, j)
  BY <1>2, <1>4
<1>9. \A i \in 1..(n - 1) : Repeats(L[i], L[n], i, n)
  <2> SUFFICES ASSUME NEW i \in 1..(n - 1), L[i].pos = pos PROVE Repeats(L[i], e, i, n)
    BY <1>2 DEF Repeats
  <2>0. ~NoneYet
    BY <1>2 DEF NoneYet
  <2>1. ASSUME NEW l \in Request, OnlyLast(l), tokenGiven(l), step = "images"
        PROVE  Repeats(L[i], e, i, n)
    <3>1. L[i] = l
      BY <1>2, <2>1 DEF OnlyLast
    <3>2. l.at = "token" /\ e.at = "images"
      BY <2>1 DEF tokenGiven, server
    <3> QED BY <3>1, <3>2 DEF Repeats
  <2>2. ASSUME NEW l \in Request, OnlyLast(l), officialFailed(l), step \in {"internal", "retry"},
               provider.SecretKey <=> step = "internal"
        PROVE  Repeats(L[i], e, i, n)
    <3>1. L[i] = l /\ n = i + 1
      BY <1>2, <2>2 DEF OnlyLast
    <3>2. ~accepts(l.at, l)
      BY <2>2 DEF officialFailed, accepts, searchOfficial, doGet
    <3>3. l.at = e.at => step = "retry"
      BY <2>2 DEF officialFailed, server
    <3> QED BY <2>2, <3>1, <3>2, <3>3 DEF Repeats, provider
  <2> QED BY <1>5, <2>0, <2>1, <2>2 DEF Behind
<1>10. RequestProtocol'
  <2>1. \A j \in DOMAIN L : Follows(L, j)
    BY <1>2, <1>6, <1>7
  <2>2. \A j \in DOMAIN L : \A i \in 1..(j - 1) : Repeats(L[i], L[j], i, j)
    BY <1>2, <1>8, <1>9
  <2>3. chain' = chain
    OBVIOUS
  <2>4. \A j \in DOMAIN log' : LET p == chain'.Providers[log'[j].pos] IN
          /\ log'[j].at = "images" =>
                \E i \in 1..(j - 1) : log'[i].pos = log'[j].pos /\ tokenGiven(log'[i])
          /\ log'[j].at = "official" => p.APIKey
          /\ log'[j].at = "internal" => p.SecretKey
          /\ log'[j].at = "internal" /\ p.APIKey =>
                \E i \in 1..(j - 1) : log'[i].pos = log'[j].pos /\ officialFailed(log'[i])
    BY <1>1, <2>1, <2>3, Zenon DEF Follows
  <2>5. \A j \in DOMAIN log' : \A i \in 1..(j - 1) : log'[i].pos = log'[j].pos =>
          /\ accepts(log'[i].at, log'[i]) => log'[i].at = "token" /\ log'[j].at = "images"
          /\ log'[i].at = log'[j].at =>
                /\ j = i + 1 /\ officialFailed(log'[i])
                /\ ~chain'.Providers[log'[j].pos].SecretKey
    <3> SUFFICES ASSUME NEW j \in DOMAIN log', NEW i \in 1..(j - 1), log'[i].pos = log'[j].pos
                 PROVE  /\ accepts(log'[i].at, log'[i]) =>
                              log'[i].at = "token" /\ log'[j].at = "images"
                        /\ log'[i].at = log'[j].at =>
                              /\ j = i + 1 /\ officialFailed(log'[i])
                              /\ ~chain'.Providers[log'[j].pos].SecretKey
      OBVIOUS
    <3>1. Repeats(log'[i], log'[j], i, j)
      BY <1>1, <2>2
    <3> QED BY <2>3, <3>1, Zenon DEF Repeats
  <2> QED BY <2>4, <2>5 DEF RequestProtocol
<1>11. \A j \in DOMAIN log' : log'[j].pos \in 1..pos
  BY <1>1, <1>2, <1>3 DEF Sending
<1>12. NoneYet => OnlyLast(e)'
  BY <1>1, <1>2 DEF NoneYet, OnlyLast
<1> QED BY <1>1, <1>2, <1>10, <1>11, <1>12

-----------------------------------------------------------------------------
(* The invariant *)

\* The initial states.
LEMMA InvInit == Init => Inv
<1> SUFFICES ASSUME Init PROVE Inv
  OBVIOUS
<1>0. Len(chain.Providers) \in Nat /\ DOMAIN chain.Providers = 1..Len(chain.Providers)
  BY ProviderFacts DEF Init
<1>1. TypeOK
  <2>1. outcome \in [1..Len(chain.Providers) -> Results]
    BY <1>0 DEF Init, Results
  <2>2. pos = 0 /\ 0 \in 0..Len(chain.Providers) /\ k = 1 /\ step = "next"
    BY <1>0 DEF Init
  <2>3. chain \in Chains /\ expired \in BOOLEAN
    BY DEF Init
  <2>4. pos \in 0..Len(chain.Providers) /\ k \in Nat
    BY <2>2
  <2> QED BY <2>1, <2>2, <2>3, <2>4 DEF TypeOK
<1>2. Filtering
  BY DEF Init, Filtering, Endpoints
<1>3. Progress
  BY <1>0 DEF Init, Progress, Asking, Endpoints, failures, NoErr, Err
<1>4. Sending
  BY DEF Init, Sending, Endpoints
<1>5. FirstFoundWins /\ FilterExact /\ RequestProtocol
  BY DEF Init, FirstFoundWins, FilterExact, RequestProtocol
<1> QED BY <1>1, <1>2, <1>3, <1>4, <1>5 DEF Inv

\* A search that has not returned has nothing to answer for.
LEMMA NotReturned ==
    ASSUME step' # "returned"
    PROVE  FirstFoundWins' /\ FilterExact'
BY DEF FirstFoundWins, FilterExact

\* Steps that send nothing keep the protocol.
LEMMA NothingSent ==
    ASSUME RequestProtocol, UNCHANGED <<chain, log>>
    PROVE  RequestProtocol'
BY DEF RequestProtocol

\* Every step keeps the invariant.
LEMMA InvNext == Inv /\ [Next]_vars => Inv'
<1> SUFFICES ASSUME Inv, [Next]_vars PROVE Inv'
  OBVIOUS
<1>0. /\ TypeOK /\ Filtering /\ Progress /\ Sending
      /\ FirstFoundWins /\ FilterExact /\ RequestProtocol
  BY DEF Inv
<1>c. /\ Len(chain.Providers) \in Nat /\ DOMAIN chain.Providers = 1..Len(chain.Providers)
      /\ chain.fallback \in BOOLEAN /\ (~chain.fallback => Len(chain.Providers) = 1)
  BY <1>0, ProviderFacts DEF TypeOK
<1>t. /\ pos \in 0..Len(chain.Providers) /\ DOMAIN outcome = 1..Len(chain.Providers)
      /\ outcome \in [1..Len(chain.Providers) -> Results]
      /\ step \in Asking => pos \in 1..Len(chain.Providers)
  BY <1>0, <1>c DEF TypeOK, Asking, Endpoints
<1>1. CASE Expire
  <2>1. /\ UNCHANGED <<chain, pos, step, raw, k, kept, lastErr, res, log, outcome>>
        /\ expired' \in BOOLEAN
    BY <1>1 DEF Expire
  <2>2. TypeOK' /\ Filtering' /\ Progress'
    BY <1>0, <2>1 DEF TypeOK, Filtering, Progress, provider, failures
  <2>3. Sending' /\ RequestProtocol'
    BY <1>0, <2>1, NothingSent DEF Sending, Behind, NoneYet, OnlyLast, provider
  <2>4. FirstFoundWins' /\ FilterExact'
    BY <1>0, <2>1 DEF FirstFoundWins, FilterExact, provider, failures
  <2> QED BY <2>2, <2>3, <2>4 DEF Inv
<1>2. CASE CallNext
  <2>1. /\ step = "next" /\ pos < Len(chain.Providers) /\ pos' = pos + 1
        /\ step' = firstStep(chain.Providers[pos + 1])
        /\ raw' = <<>> /\ k' = 1 /\ kept' = <<>>
        /\ UNCHANGED <<chain, expired, lastErr, res, log, outcome>>
    BY <1>2 DEF CallNext
  <2>2. PICK q : q = chain.Providers[pos + 1]
    OBVIOUS
  <2>3. provider' = q /\ step' = firstStep(q)
    BY <2>1, <2>2 DEF provider
  <2>4. /\ q.name \in {"searxng", "openverse", "pexels", "ddg", "og", "native"}
        /\ q.APIKey \in BOOLEAN /\ q.SecretKey \in BOOLEAN /\ q.PageURL \in BOOLEAN
    BY <1>0, <1>t, <2>1, <2>2, ProviderFacts DEF TypeOK
  <2>5. /\ step' \in Asking \ {"filter", "error", "images", "retry"}
        /\ step' = "internal" => q.SecretKey /\ ~q.APIKey
        /\ step' = "official" => q.APIKey
    BY <2>3, <2>4, FirstStepFacts
  <2>6. TypeOK'
    BY <1>0, <1>t, <2>1, <2>5 DEF TypeOK, Asking
  <2>7. Filtering'
    <3>1. <<>> \in Seq(Raws) /\ <<>> \in Seq(Candidate)
      OBVIOUS
    <3> QED BY <2>1, <2>5, <3>1 DEF Filtering
  <2>8. Progress'
    <3>1. step' # "next" /\ step' # "returned"
      BY <2>5 DEF Asking, Endpoints
    <3>2. failures' = failures
      BY <2>1 DEF failures
    <3> QED BY <1>0, <1>t, <2>1, <3>1, <3>2 DEF Progress
  <2>9. Sending'
    <3>1. \A j \in DOMAIN log' : log'[j].pos \in 1..pos' /\ log'[j].pos # pos'
      BY <1>0, <1>t, <2>1 DEF Sending
    <3>2. NoneYet'
      BY <3>1 DEF NoneYet
    <3>3. Behind(step)'
      BY <2>3, <2>5, <3>2 DEF Behind
    <3> QED BY <1>0, <2>1, <3>1, <3>3 DEF Sending
  <2>10. RequestProtocol' /\ FirstFoundWins' /\ FilterExact'
    <3>1. step' # "returned"
      BY <2>5 DEF Asking, Endpoints
    <3> QED BY <1>0, <2>1, <3>1, NothingSent, NotReturned
  <2> QED BY <2>6, <2>7, <2>8, <2>9, <2>10 DEF Inv
<1>3. CASE Exhausted
  <2>1. /\ step = "next" /\ pos = Len(chain.Providers) /\ step' = "returned"
        /\ res' = [list |-> <<>>, err |-> IF lastErr # NoErr THEN lastErr ELSE AllFailed]
        /\ UNCHANGED <<chain, expired, pos, raw, k, kept, lastErr, log, outcome>>
    BY <1>3 DEF Exhausted
  <2>2. TypeOK' /\ Filtering'
    BY <1>0, <2>1 DEF TypeOK, Filtering, Endpoints
  <2>3. Progress' /\ Sending' /\ RequestProtocol'
    BY <1>0, <2>1, NothingSent DEF Progress, Sending, Asking, Endpoints
  <2>4. res'.err # NoErr
    BY <2>1 DEF AllFailed, NoErr, Err
  <2>5. chain.fallback
    BY <1>0, <1>c, <2>1 DEF Progress
  <2>6. \A i \in DOMAIN outcome : outcome[i] \in {"error", "empty"}
    BY <1>0, <1>c, <1>t, <2>1 DEF Progress
  <2>7. \/ failures = {} /\ res'.err = AllFailed
        \/ res'.err.pos \in failures /\ \A i \in failures : i <= res'.err.pos
    <3>1. CASE lastErr = NoErr /\ failures = {}
      BY <2>1, <3>1
    <3>2. CASE lastErr.pos \in failures /\ \A i \in failures : i <= lastErr.pos
      <4>1. lastErr # NoErr
        BY <1>t, <3>2 DEF failures, NoErr, Err
      <4> QED BY <2>1, <3>2, <4>1
    <3> QED BY <1>0, <2>1, <2>5, <3>1, <3>2 DEF Progress
  <2>8. FirstFoundWins'
    <3>1. failures' = failures
      BY <2>1 DEF failures
    <3> QED BY <2>1, <2>6, <2>7, <3>1 DEF FirstFoundWins
  <2>9. FilterExact'
    BY <2>4 DEF FilterExact
  <2> QED BY <2>2, <2>3, <2>8, <2>9 DEF Inv
<1>4. CASE Answered
  <2>1. /\ step \in Endpoints
        /\ UNCHANGED <<chain, expired, pos, k, kept, lastErr, res, outcome>>
    BY <1>4 DEF Answered
  <2>2. PICK r \in answers(step) :
           /\ accepts(step, r)
           /\ log' = Append(log, request(r))
           /\ \/ step = "token" /\ step' = "images" /\ UNCHANGED raw
              \/ step # "token" /\ step' = "filter" /\ raw' = r.results
    BY <1>4 DEF Answered
  <2>3. r.status \in Nat /\ r.json \in BOOLEAN /\ r.token \in BOOLEAN /\ r.results \in Seq(Raws)
    BY <2>1, <2>2, ReplyFacts
  <2>4. PICK e \in Request :
           /\ e = request(r) /\ e.pos = pos /\ e.at = server(step) /\ log' = Append(log, e)
           /\ e.status = r.status /\ e.json = r.json /\ e.token = r.token
    BY <1>0, <2>1, <2>2, RequestFacts
  <2>5. /\ RequestProtocol'
        /\ log' \in Seq(Request)
        /\ \A j \in DOMAIN log' : log'[j].pos \in 1..pos
        /\ NoneYet => OnlyLast(e)'
    BY <1>0, <2>1, <2>4, RequestKeeps
  <2>6. raw = <<>> /\ k = 1 /\ kept = <<>>
    BY <1>0, <2>1 DEF Filtering
  <2>7. pos \in 1..Len(chain.Providers) /\ outcome[pos] = "none"
    BY <1>0, <1>t, <2>1 DEF Progress, Asking
  <2>8. TypeOK'
    BY <1>0, <2>1, <2>2, <2>7 DEF TypeOK, Endpoints
  <2>9. Filtering'
    <3>1. k' = 1 /\ kept' = <<>> /\ kept' \in Seq(Candidate)
      BY <1>0, <2>1, <2>6 DEF Filtering
    <3>2. CASE step' = "images" /\ raw' = raw
      BY <1>0, <2>6, <3>1, <3>2 DEF Filtering
    <3>3. CASE step' = "filter" /\ raw' = r.results
      <4>1. Range(kept') = {} /\ 1..(k' - 1) = {} /\ Len(raw') \in Nat
        BY <2>3, <3>1, <3>3 DEF Range
      <4>2. {j \in 1..(k' - 1) : clean(provider', raw'[j])} = {}
        BY <4>1
      <4>3. Range(kept') = {candidate(provider', raw'[i]) :
                                i \in {j \in 1..(k' - 1) : clean(provider', raw'[j])}}
        BY <4>1, <4>2
      <4>4. "filter" \notin Endpoints \cup {"error", "nokey", "nopage"}
        BY DEF Endpoints
      <4> QED BY <2>3, <3>1, <3>3, <4>1, <4>3, <4>4 DEF Filtering
    <3> QED BY <2>2, <3>2, <3>3
  <2>10. Progress'
    BY <1>0, <2>1, <2>2, <2>7 DEF Progress, Asking, Endpoints, failures
  <2>11. Sending'
    <3>1. CASE step = "token" /\ step' = "images"
      <4>1. NoneYet
        BY <1>0, <3>1 DEF Sending, Behind, Endpoints
      <4>2. tokenGiven(e)
        <5>1. r.status # 0 /\ r.status < 400 /\ r.token
          BY <2>2, <3>1 DEF accepts, fetchToken, get
        <5>2. e.at = "token" /\ e.status = r.status /\ e.token = r.token
          BY <2>4, <3>1 DEF server
        <5>3. e.status \in 1..399
          <6>1. PICK n \in Nat : n = r.status
            BY <2>3
          <6>2. n # 0 /\ n < 400 /\ e.status = n
            BY <5>1, <5>2, <6>1, Zenon
          <6> QED BY <6>2
        <5> QED BY <5>1, <5>2, <5>3, Zenon DEF tokenGiven
      <4>3. Behind(step)'
        BY <2>5, <3>1, <4>1, <4>2 DEF Behind
      <4> QED BY <2>1, <2>5, <4>3 DEF Sending
    <3>2. CASE step' = "filter"
      BY <2>1, <2>5, <3>2 DEF Sending, Endpoints
    <3> QED BY <2>2, <3>1, <3>2
  <2>12. FirstFoundWins' /\ FilterExact'
    BY <2>2, NotReturned
  <2> QED BY <2>5, <2>8, <2>9, <2>10, <2>11, <2>12 DEF Inv
<1>5. CASE Refused
  <2>1. /\ step \in Endpoints /\ step' = afterFailure(provider, step)
        /\ UNCHANGED <<chain, expired, pos, raw, k, kept, lastErr, res, outcome>>
    BY <1>5 DEF Refused
  <2>2. PICK r \in answers(step) : ~accepts(step, r) /\ log' = Append(log, request(r))
    BY <1>5 DEF Refused
  <2>3. r.status \in Nat /\ r.json \in BOOLEAN /\ r.token \in BOOLEAN
    BY <2>1, <2>2, ReplyFacts
  <2>4. PICK e \in Request :
           /\ e = request(r) /\ e.pos = pos /\ e.at = server(step) /\ log' = Append(log, e)
           /\ e.status = r.status /\ e.json = r.json /\ e.token = r.token
    BY <1>0, <2>1, <2>2, RequestFacts
  <2>5. /\ RequestProtocol'
        /\ log' \in Seq(Request)
        /\ \A j \in DOMAIN log' : log'[j].pos \in 1..pos
        /\ NoneYet => OnlyLast(e)'
    BY <1>0, <2>1, <2>4, RequestKeeps
  <2>6. /\ step' \in {"internal", "retry", "nopage", "error"}
        /\ step' \in {"internal", "retry"} => step = "official"
        /\ step' = "internal" => provider.SecretKey
        /\ step' = "retry" => ~provider.SecretKey
    BY <2>1 DEF afterFailure
  <2>7. /\ raw = <<>> /\ k = 1 /\ kept = <<>>
        /\ pos \in 1..Len(chain.Providers) /\ outcome[pos] = "none"
    BY <1>0, <1>t, <2>1 DEF Filtering, Progress, Asking
  <2>8. TypeOK'
    BY <1>0, <2>1, <2>6, <2>7 DEF TypeOK, Endpoints
  <2>9. Filtering'
    BY <1>0, <2>1, <2>6, <2>7 DEF Filtering
  <2>10. Progress'
    BY <1>0, <2>1, <2>6, <2>7 DEF Progress, Asking, Endpoints, failures
  <2>11. Sending'
    <3>0. provider' = provider
      BY <2>1 DEF provider
    <3>1. CASE step = "official" /\ step' \in {"internal", "retry"}
      <4>1. NoneYet /\ provider.APIKey
        BY <1>0, <3>1 DEF Sending, Behind, Endpoints
      <4>2. officialFailed(e)
        BY <2>2, <2>3, <2>4, <3>1 DEF officialFailed, server, accepts, searchOfficial, doGet
      <4>3. Behind(step)'
        BY <2>5, <2>6, <3>0, <3>1, <4>1, <4>2 DEF Behind
      <4> QED BY <2>1, <2>5, <4>3 DEF Sending
    <3>2. CASE step' \in {"nopage", "error"}
      BY <2>1, <2>5, <3>2 DEF Sending, Endpoints
    <3> QED BY <2>6, <3>1, <3>2
  <2>12. FirstFoundWins' /\ FilterExact'
    BY <2>6, NotReturned
  <2> QED BY <2>5, <2>8, <2>9, <2>10, <2>11, <2>12 DEF Inv
<1>6. CASE Filter
  <2>1. /\ step = "filter" /\ k <= Len(raw) /\ k' = k + 1
        /\ UNCHANGED <<chain, expired, pos, step, raw, lastErr, res, log, outcome>>
        /\ raw \in Seq(Raws) /\ kept \in Seq(Candidate) /\ k \in Nat \ {0}
        /\ Range(kept) = {candidate(provider, raw[i]) :
                              i \in {j \in 1..(k - 1) : clean(provider, raw[j])}}
    BY <1>0, <1>6 DEF Filter, Filtering
  <2>2. PICK p, r : p = provider /\ r = raw[k]
    OBVIOUS
  <2>3. r \in Raws /\ Len(raw) \in Nat
    BY <2>1, <2>2
  <2>4. kept' = IF clean(p, r) THEN Append(kept, candidate(p, r)) ELSE kept
    BY <1>6, <2>2 DEF Filter
  <2>5. candidate(p, r) \in Candidate
    BY <2>3, CandidateType
  <2>6. kept' \in Seq(Candidate)
    BY <2>1, <2>4, <2>5
  <2>7. Range(kept') = IF clean(p, r) THEN Range(kept) \cup {candidate(p, r)} ELSE Range(kept)
    <3>1. CASE clean(p, r)
      <4>1. /\ DOMAIN kept = 1..Len(kept) /\ Len(kept) \in Nat
            /\ DOMAIN kept' = 1..(Len(kept) + 1)
            /\ \A i \in 1..Len(kept) : kept'[i] = kept[i]
            /\ kept'[Len(kept) + 1] = candidate(p, r)
        BY <2>1, <2>4, <2>5, <3>1
      <4> HIDE <2>4
      <4> QED BY <3>1, <4>1 DEF Range
    <3>2. CASE ~clean(p, r)
      BY <2>4, <3>2
    <3> QED BY <3>1, <3>2
  <2>8. {j \in 1..(k' - 1) : clean(p, raw[j])} =
            {j \in 1..(k - 1) : clean(p, raw[j])} \cup (IF clean(p, r) THEN {k} ELSE {})
    BY <2>1, <2>2
  <2>9. Range(kept') = {candidate(p, raw[i]) : i \in {j \in 1..(k' - 1) : clean(p, raw[j])}}
    BY <2>1, <2>2, <2>7, <2>8
  <2>10. Filtering'
    <3>1. provider' = p /\ raw' = raw
      BY <2>1, <2>2 DEF provider
    <3> QED BY <2>1, <2>3, <2>6, <2>9, <3>1 DEF Filtering, Endpoints
  <2>11. TypeOK' /\ Progress'
    BY <1>0, <2>1 DEF TypeOK, Progress, failures
  <2>12. Sending' /\ RequestProtocol'
    BY <1>0, <2>1, NothingSent DEF Sending, Endpoints
  <2>13. FirstFoundWins' /\ FilterExact'
    BY <2>1, NotReturned
  <2> QED BY <2>10, <2>11, <2>12, <2>13 DEF Inv
<1>7. CASE Failed
  <2>1. /\ step \in {"error", "nokey"} /\ pos \in 1..Len(chain.Providers)
        /\ outcome' = [outcome EXCEPT ![pos] = "error"] /\ outcome[pos] = "none"
        /\ UNCHANGED <<chain, expired, pos, raw, k, kept, log>>
    BY <1>0, <1>t, <1>7 DEF Failed, Progress, Asking
  <2>2. /\ outcome' \in [1..Len(chain.Providers) -> Results] /\ outcome'[pos] = "error"
        /\ DOMAIN outcome' = DOMAIN outcome
        /\ \A i \in DOMAIN outcome : i # pos => outcome'[i] = outcome[i]
    BY <1>t, <2>1 DEF Results
  <2>3. failures' = failures \cup {pos}
    BY <1>t, <2>1, <2>2 DEF failures
  <2>4. \A i \in failures : i < pos
    BY <1>0, <1>t, <2>1 DEF failures, Progress
  <2>5. CASE /\ ~chain.fallback /\ step' = "returned" /\ UNCHANGED lastErr
             /\ res' = [list |-> <<>>, err |-> Err(pos, step)]
    <3>1. TypeOK' /\ Filtering'
      BY <1>0, <2>1, <2>2, <2>5 DEF TypeOK, Filtering, Endpoints
    <3>2. Progress'
      <4>1. /\ \A i \in DOMAIN outcome' : i < pos => outcome'[i] \in {"error", "empty"}
            /\ \A i \in DOMAIN outcome' : i > pos => outcome'[i] = "none"
        BY <1>0, <1>t, <2>1, <2>2 DEF Progress
      <4>2. "returned" \notin Asking
        BY DEF Asking, Endpoints
      <4> QED BY <1>0, <2>1, <2>5, <4>1, <4>2 DEF Progress
    <3>3. Sending' /\ RequestProtocol'
      BY <1>0, <2>1, <2>5, NothingSent DEF Sending, Endpoints
    <3>4. res'.err # NoErr
      BY <2>1, <2>5 DEF Err, NoErr
    <3>5. FirstFoundWins' /\ FilterExact'
      BY <2>1, <2>5, <3>4 DEF FirstFoundWins, FilterExact
    <3> QED BY <3>1, <3>2, <3>3, <3>5 DEF Inv
  <2>6. CASE chain.fallback /\ step' = "next" /\ UNCHANGED res /\ lastErr' = Err(pos, step)
    <3>1. TypeOK' /\ Filtering'
      BY <1>0, <2>1, <2>2, <2>6 DEF TypeOK, Filtering, Endpoints
    <3>2. lastErr'.pos = pos
      BY <2>6 DEF Err
    <3>3. Progress'
      <4>1. /\ \A i \in DOMAIN outcome' : i < pos => outcome'[i] \in {"error", "empty"}
            /\ \A i \in DOMAIN outcome' : i > pos => outcome'[i] = "none"
        BY <1>0, <1>t, <2>1, <2>2 DEF Progress
      <4>2. "next" \notin Asking
        BY DEF Asking, Endpoints
      <4>3. \A i \in failures' : i <= pos
        BY <1>c, <1>t, <2>3, <2>4 DEF failures
      <4> QED BY <1>t, <2>1, <2>2, <2>3, <2>6, <3>2, <4>1, <4>2, <4>3 DEF Progress
    <3>4. Sending' /\ RequestProtocol'
      BY <1>0, <2>1, <2>6, NothingSent DEF Sending, Endpoints
    <3>5. FirstFoundWins' /\ FilterExact'
      BY <2>6, NotReturned
    <3> QED BY <3>1, <3>3, <3>4, <3>5 DEF Inv
  <2> QED BY <1>7, <2>5, <2>6 DEF Failed
<1>8. CASE Found
  <2>1. /\ (step = "filter" /\ k > Len(raw)) \/ step = "nopage"
        /\ pos \in 1..Len(chain.Providers) /\ outcome[pos] = "none"
        /\ outcome' = [outcome EXCEPT ![pos] = IF kept = <<>> THEN "empty" ELSE "found"]
        /\ UNCHANGED <<chain, expired, pos, raw, k, kept, lastErr, log>>
    BY <1>0, <1>t, <1>8 DEF Found, Progress, Asking
  <2>2. /\ outcome' \in [1..Len(chain.Providers) -> Results]
        /\ outcome'[pos] = (IF kept = <<>> THEN "empty" ELSE "found")
        /\ DOMAIN outcome' = DOMAIN outcome
        /\ \A i \in DOMAIN outcome : i # pos => outcome'[i] = outcome[i]
    BY <1>t, <2>1 DEF Results
  <2>3. failures' = failures
    BY <1>t, <2>1, <2>2 DEF failures
  <2>4. CASE chain.fallback /\ kept = <<>> /\ step' = "next" /\ UNCHANGED res
    <3>1. TypeOK' /\ Filtering'
      BY <1>0, <2>1, <2>2, <2>4 DEF TypeOK, Filtering, Endpoints
    <3>2. Progress'
      BY <1>0, <1>t, <2>1, <2>2, <2>3, <2>4 DEF Progress, Asking, Endpoints
    <3>3. Sending' /\ RequestProtocol'
      BY <1>0, <2>1, <2>4, NothingSent DEF Sending, Endpoints
    <3>4. FirstFoundWins' /\ FilterExact'
      BY <2>4, NotReturned
    <3> QED BY <3>1, <3>2, <3>3, <3>4 DEF Inv
  <2>5. CASE /\ ~chain.fallback \/ kept # <<>>
             /\ step' = "returned" /\ res' = [list |-> kept, err |-> NoErr]
    <3>1. TypeOK' /\ Filtering'
      BY <1>0, <2>1, <2>2, <2>5 DEF TypeOK, Filtering, Endpoints
    <3>2. Progress'
      BY <1>0, <1>t, <2>1, <2>2, <2>5 DEF Progress, Asking, Endpoints
    <3>3. Sending' /\ RequestProtocol'
      BY <1>0, <2>1, <2>5, NothingSent DEF Sending, Endpoints
    <3>4. FirstFoundWins'
      BY <1>0, <1>t, <2>1, <2>2, <2>5 DEF FirstFoundWins, Progress, Sending
    <3>5. /\ raw \in Seq(Raws) /\ Len(raw) \in Nat /\ DOMAIN raw = 1..Len(raw)
          /\ Range(kept) = {candidate(provider, raw[i]) :
                               i \in {j \in DOMAIN raw : clean(provider, raw[j])}}
      <4>1. raw \in Seq(Raws) /\ Len(raw) \in Nat /\ DOMAIN raw = 1..Len(raw)
        BY <1>0 DEF Filtering
      <4>2. CASE step = "filter"
        <5>1. k - 1 = Len(raw)
          BY <1>0, <2>1, <4>1, <4>2 DEF Filtering
        <5> QED BY <1>0, <4>1, <4>2, <5>1 DEF Filtering
      <4>3. CASE step = "nopage"
        BY <1>0, <4>1, <4>3 DEF Filtering, Range
      <4> QED BY <2>1, <4>1, <4>2, <4>3
    <3>6. PICK p : p = provider
      OBVIOUS
    <3>7. \A c \in Range(kept) : c.License # LicenseBlocked /\ ~c.ImgURL.logo
      <4>1. ASSUME NEW c \in Range(kept) PROVE c.License # LicenseBlocked /\ ~c.ImgURL.logo
        <5>1. PICK i \in DOMAIN raw : clean(p, raw[i]) /\ c = candidate(p, raw[i])
          BY <3>5, <3>6
        <5>2. PICK r \in Raws : r = raw[i]
          BY <3>5
        <5> QED BY <5>1, <5>2, CandidateType
      <4> QED BY <4>1
    <3>8. FilterExact'
      <4>1. provider' = provider /\ raw' = raw /\ res'.list = kept
        BY <2>1, <2>5 DEF provider
      <4> QED BY <3>5, <3>7, <4>1 DEF FilterExact
    <3> QED BY <3>1, <3>2, <3>3, <3>4, <3>8 DEF Inv
  <2> QED BY <1>8, <2>4, <2>5 DEF Found
<1>9. CASE UNCHANGED vars
  <2>1. UNCHANGED <<chain, expired, pos, step, raw, k, kept, lastErr, res, log, outcome>>
    BY <1>9 DEF vars
  <2>2. TypeOK' /\ Filtering' /\ Progress'
    BY <1>0, <2>1 DEF TypeOK, Filtering, Progress, provider, failures
  <2>3. Sending' /\ RequestProtocol'
    BY <1>0, <2>1, NothingSent DEF Sending, Behind, NoneYet, OnlyLast, provider
  <2>4. FirstFoundWins' /\ FilterExact'
    BY <1>0, <2>1 DEF FirstFoundWins, FilterExact, provider, failures
  <2> QED BY <2>2, <2>3, <2>4 DEF Inv
<1> QED BY <1>1, <1>2, <1>3, <1>4, <1>5, <1>6, <1>7, <1>8, <1>9 DEF Next, Work, Waiting

\* The invariant holds throughout.
LEMMA InvHolds == Spec => []Inv
BY InvInit, InvNext, PTL DEF Spec

\* The types, for every chain.
THEOREM ProvidersTypeCorrect == Spec => []TypeOK
<1>1. Inv => TypeOK
  BY DEF Inv
<1> QED BY <1>1, InvHolds, PTL

\* For every chain and all replies, the first provider that found something wins, and a
\* chain that found nothing reports its last error.
THEOREM FallbackIsCorrect == Spec => []FirstFoundWins
<1>1. Inv => FirstFoundWins
  BY DEF Inv
<1> QED BY <1>1, InvHolds, PTL

\* For every reply, a search returns the clean results and no others.
THEOREM FiltersAreExact == Spec => []FilterExact
<1>1. Inv => FilterExact
  BY DEF Inv
<1> QED BY <1>1, InvHolds, PTL

\* For every chain, the requests follow the protocols of the services.
THEOREM RequestsFollowProtocol == Spec => []RequestProtocol
<1>1. Inv => RequestProtocol
  BY DEF Inv
<1> QED BY <1>1, InvHolds, PTL
==============================================================================
