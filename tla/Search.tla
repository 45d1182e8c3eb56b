-------------------------------- MODULE Search -------------------------------
(***************************************************************************)
(* The entry points SearchImagesWithOpts, ValidateCandidates (search.go)   *)
(* and FindImages (find.go), composed with validation.  Providers are      *)
(* asked in parallel; each may answer, fail, hang until the context is     *)
(* done, or panic.  What they answer is merged in the order it arrives,    *)
(* sorted by licence and handed to validateCandidates, of which only what  *)
(* Selection promises is used: Validation implements it.                   *)
(*                                                                         *)
(* The loop that starts the provider goroutines reads nothing they write,  *)
(* so it is one step; the WaitGroup is the set of goroutines not yet done. *)
(***************************************************************************)
EXTENDS Fetch, Sequences, FiniteSets, Functions

CONSTANTS
    Candidates,    \* the candidates of the instance
    Requests,      \* a call: [entry, Query, maxResults, Timeout, PageURL, optsPageURL,
                   \*          External, deadline, cfg]
    Names,         \* the names of providers
    Answers(_),    \* the lists a provider of that name may answer with
    Hanging,       \* providers whose server accepts a request and never answers
    Pages          \* the lists ContentImageProvider may find on the page

ASSUME RequestAssumption ==
    \A r \in Requests :
        /\ r.External \in Seq(Candidates)
        /\ r.cfg.Providers \in Seq(Names)
        /\ r.maxResults \in Int
ASSUME AnswerAssumption ==
    /\ "searxng" \in Names
    /\ \A name \in Names : Answers(name) \subseteq Seq(Candidates)
    /\ Pages \subseteq Seq(Candidates)
    /\ \A c \in Candidates : c.License \in Int

VARIABLES
    req,           \* the call and its configuration; never changes
    expired,       \* the context is done
    main,          \* where the calling goroutine is
    gpc, found,    \* of each provider goroutine: its place, its answer
    all,           \* gatherCandidates' slice, shared under mu
    page,          \* what the page gave
    fetches,       \* history: how often req.PageURL was asked for its images
    blind,         \* the context was done when validation began
    call, chosen, closed   \* validation

vars == <<req, expired, main, gpc, found, all, page, fetches, blind, call, chosen, closed>>
selection == <<call, chosen, closed>>

Sel == INSTANCE Selection WITH Looks <- Hashes \cup {NoImage}

NoCall   == [toValidate |-> <<>>, maxResults |-> 0, cfg |-> req.cfg]
NoAnswer == <<>>

-----------------------------------------------------------------------------
(* Functions of the call *)

findDefaultMaxResults == 3

resolveProviders(cfg) ==
    IF cfg.Providers # <<>> THEN cfg.Providers
    ELSE IF cfg.SearxngURL THEN <<"searxng">> ELSE <<>>

providers == resolveProviders(req.cfg)
Procs     == 1..Len(providers)
asks      == req.Query /\ req.entry \in {"SearchImagesWithOpts", "FindImages"}

\* Mutation: only a wired content provider keeps FindImages from fetching the page.
hasContentProviderOnly == \E p \in Range(req.cfg.Providers) : p = "content"

\* hasContentProvider, hasOGProvider: by the names of the list's own members.
hasPageProvider == \E p \in Range(req.cfg.Providers) : p \in {"content", "og"}

\* The page URL the providers are given: SearchOpts.PageURL, which FindImages sets
\* to its own if the caller left it empty.
searchPageURL ==
    IF req.entry = "FindImages" /\ req.optsPageURL = "" THEN req.PageURL ELSE req.optsPageURL

effectiveMax ==
    IF req.entry = "FindImages" /\ req.maxResults <= 0
    THEN findDefaultMaxResults ELSE req.maxResults

\* SearchImagesWithOpts always sets a deadline; the others have the caller's, if any.
hasDeadline == req.entry = "SearchImagesWithOpts" \/ req.deadline

\* Mutation: a sort that does not keep the order of equals.
unstableOrders(s) ==
    {f \in Bijection(1..Len(s), 1..Len(s)) :
        \A j, k \in 1..Len(s) : j < k => s[f[j]].License <= s[f[k]].License}

\* sort.SliceStable by License: the ways to read s that respect the licence and,
\* among equals, the order of s.  There is exactly one.
stableOrders(s) ==
    {f \in Bijection(1..Len(s), 1..Len(s)) :
        \A j, k \in 1..Len(s) : j < k =>
            \/ s[f[j]].License < s[f[k]].License
            \/ s[f[j]].License = s[f[k]].License /\ f[j] < f[k]}

-----------------------------------------------------------------------------

Init ==
    /\ req \in Requests
    /\ expired = FALSE
    /\ main = "begin"
    /\ gpc = [p \in Procs |-> "unstarted"]
    /\ found = [p \in Procs |-> NoAnswer]
    /\ all = <<>> /\ page = <<>>
    /\ fetches = 0
    /\ blind = FALSE
    /\ call = NoCall /\ Sel!Init

\* The deadline passes, or the caller cancels its context.
Expire ==
    /\ ~expired /\ main \notin {"returned", "crashed"}
    /\ expired' = TRUE
    /\ UNCHANGED <<req, main, gpc, found, all, page, fetches, blind, selection>>

\* validateCandidates is called with the list as it stands.
Validate(list) ==
    /\ call' = [toValidate |-> list, maxResults |-> effectiveMax, cfg |-> req.cfg]
    /\ main' = "validating"
    /\ blind' = expired
    /\ UNCHANGED <<chosen, closed>>

ReturnNil == main' = "returned" /\ UNCHANGED <<blind, selection>>

\* The end of both searches: nothing found, or sort and validate.
SortAndValidate(list) ==
    \/ list = <<>> /\ ReturnNil
    \/ /\ list # <<>>
       /\ \E f \in stableOrders(list) : Validate([k \in 1..Len(list) |-> list[f[k]]])

\* ValidateCandidates: no sort, and the caller's limit as it is.
ValidateCandidates ==
    /\ main = "begin" /\ req.entry = "ValidateCandidates"
    /\ \/ req.External = <<>> /\ ReturnNil
       \/ req.External # <<>> /\ Validate(req.External)
    /\ UNCHANGED <<req, expired, gpc, found, all, page, fetches>>

\* SearchImagesWithOpts without a query.
EmptyQuery ==
    /\ main = "begin" /\ req.entry = "SearchImagesWithOpts" /\ ~req.Query
    /\ ReturnNil
    /\ UNCHANGED <<req, expired, gpc, found, all, page, fetches>>

\* Mutation: the goroutines are started for the configured list, not the resolved one.
StartConfigured ==
    /\ main = "begin" /\ asks
    /\ main' = "gathering"
    /\ gpc' = [p \in 1..Len(req.cfg.Providers) |-> "searching"]
    /\ fetches' = IF req.PageURL # "" /\ searchPageURL = req.PageURL
                  THEN Cardinality({p \in Procs : providers[p] \in {"content", "og"}}) ELSE 0
    /\ UNCHANGED <<req, expired, found, all, page, blind, selection>>

\* gatherCandidates starts a goroutine per provider.
StartProviders ==
    /\ main = "begin" /\ asks
    /\ main' = "gathering"
    /\ gpc' = [p \in Procs |-> "searching"]
    /\ fetches' = IF req.PageURL # "" /\ searchPageURL = req.PageURL
                  THEN Cardinality({p \in Procs : providers[p] \in {"content", "og"}}) ELSE 0
    /\ UNCHANGED <<req, expired, found, all, page, blind, selection>>

-----------------------------------------------------------------------------
(* A provider goroutine *)

running == main # "crashed"

Answer(p) ==
    /\ running /\ gpc[p] = "searching"
    /\ \E list \in Answers(providers[p]) : found' = [found EXCEPT ![p] = list]
    /\ gpc' = [gpc EXCEPT ![p] = "append"]
    /\ UNCHANGED <<req, expired, main, all, page, fetches, blind, selection>>

\* Mutation: a provider's requests do not carry the context.
FailWithoutContext(p) ==
    /\ running /\ gpc[p] = "searching"
    /\ providers[p] \notin Hanging
    /\ gpc' = [gpc EXCEPT ![p] = "done"]
    /\ UNCHANGED <<req, expired, main, found, all, page, fetches, blind, selection>>

\* An error is logged and skipped.  A request that hangs ends once the context is done,
\* at once or, for a native engine, whose doer does not get the context, by the doer's
\* own timeout (if that is earlier, it is an error like any other).
Fail(p) ==
    /\ running /\ gpc[p] = "searching"
    /\ providers[p] \in Hanging => expired
    /\ gpc' = [gpc EXCEPT ![p] = "done"]
    /\ UNCHANGED <<req, expired, main, found, all, page, fetches, blind, selection>>

\* Nothing recovers a panic of a provider: the program ends.
Panic(p) ==
    /\ running /\ gpc[p] = "searching"
    /\ main' = "crashed"
    /\ UNCHANGED <<req, expired, gpc, found, all, page, fetches, blind, selection>>

\* Mutation: the slice is read before the lock is taken.
AppendStale(p) ==
    /\ running /\ gpc[p] = "append"
    /\ \E n \in 0..Len(all) : all' = SubSeq(all, 1, n) \o found[p]
    /\ gpc' = [gpc EXCEPT ![p] = "done"]
    /\ UNCHANGED <<req, expired, main, found, page, fetches, blind, selection>>

\* all = append(all, results...) under mu, then wg.Done.
AppendAnswer(p) ==
    /\ running /\ gpc[p] = "append"
    /\ all' = all \o found[p]
    /\ gpc' = [gpc EXCEPT ![p] = "done"]
    /\ UNCHANGED <<req, expired, main, found, page, fetches, blind, selection>>

-----------------------------------------------------------------------------
(* After wg.Wait *)

\* Mutation: the caller goes on when one provider is done.
gatheredOne == main = "gathering" /\ (Procs # {} => \E p \in Procs : gpc[p] = "done")

gathered == main = "gathering" /\ \A p \in Procs : gpc[p] = "done"

FinishSearch ==
    /\ gathered /\ req.entry = "SearchImagesWithOpts"
    /\ SortAndValidate(all)
    /\ UNCHANGED <<req, expired, gpc, found, all, page, fetches>>

\* FindImages looks at the page itself unless a provider was wired to do so.  The
\* error of the fetch is ignored; a fetch under a context that is done finds nothing.
FetchPage ==
    /\ req.entry = "FindImages" /\ (gathered \/ (main = "begin" /\ ~asks))
    /\ main' = "merging"
    /\ IF req.PageURL # "" /\ ~hasPageProvider
       THEN /\ page' \in (IF expired THEN {<<>>} ELSE Pages \cup {<<>>})
            /\ fetches' = fetches + 1
       ELSE UNCHANGED <<page, fetches>>
    /\ UNCHANGED <<req, expired, gpc, found, all, blind, selection>>

FinishFind ==
    /\ main = "merging"
    /\ SortAndValidate(all \o page \o req.External)
    /\ UNCHANGED <<req, expired, gpc, found, all, page, fetches>>

\* Validation chooses among the candidates.  No request is answered under a context
\* that is done, so what begins blind finds nothing (Fetch, Validation).
Select ==
    /\ main = "validating" /\ ~blind
    /\ \E i \in 1..Len(call.toValidate), look \in Hashes \cup {NoImage} : Sel!Choose(i, look)
    /\ UNCHANGED <<req, expired, main, gpc, found, all, page, fetches, blind>>

ReturnResults ==
    /\ main = "validating"
    /\ Sel!Close
    /\ main' = "returned"
    /\ UNCHANGED <<req, expired, gpc, found, all, page, fetches, blind>>

-----------------------------------------------------------------------------

Main == \/ ValidateCandidates \/ EmptyQuery \/ StartProviders
        \/ FinishSearch \/ FetchPage \/ FinishFind \/ ReturnResults

Next ==
    \/ Main \/ Expire \/ Select
    \/ \E p \in Procs : Answer(p) \/ Fail(p) \/ Panic(p) \/ AppendAnswer(p)
    \/ main \in {"returned", "crashed"} /\ UNCHANGED vars

Spec == Init /\ [][Next]_vars

\* The calling goroutine is scheduled: its own page fetch has a timeout, and
\* validation returns.  A deadline passes.  A provider goroutine that has its answer
\* appends it, and one whose context is done gives up in the end: its request carries
\* the context, or goes through a doer with a timeout of its own (provider_native.go).
\* That a server answers before then is not assumed.
FairSpec ==
    /\ Spec
    /\ WF_vars(Main)
    /\ WF_vars(hasDeadline /\ Expire)
    /\ WF_vars(\E p \in Procs : AppendAnswer(p) \/ (expired /\ Fail(p)))

-----------------------------------------------------------------------------
(* Properties *)

\* The types of the variables.
TypeOK ==
    /\ req \in Requests
    /\ expired \in BOOLEAN /\ blind \in BOOLEAN /\ closed \in BOOLEAN
    /\ main \in {"begin", "gathering", "merging", "validating", "returned", "crashed"}
    /\ gpc \in [Procs -> {"unstarted", "searching", "append", "done"}]
    /\ found \in [Procs -> Seq(Candidates)]
    /\ all \in Seq(Candidates) /\ page \in Seq(Candidates)
    /\ fetches \in Nat

handedOver == call # NoCall
sorts      == req.entry # "ValidateCandidates"

\* The lists a call puts together: the answers, the page, the caller's own.
sources == Range(found) \cup {page}
               \cup (IF req.entry = "SearchImagesWithOpts" THEN {} ELSE {req.External})
offered == UNION {Range(s) : s \in sources}

\* The same lists by who gave them: a provider by its number, 0 the page, -1 the
\* caller; and their places.
feeds  == Procs \cup (IF req.entry = "SearchImagesWithOpts" THEN {} ELSE {0, -1})
offers == [q \in feeds |-> IF q = 0 THEN page ELSE IF q = -1 THEN req.External ELSE found[q]]
slots(P) == UNION {{q} \X (1..Len(P[q])) : q \in DOMAIN P}
timesIn(list, c)   == Cardinality({k \in 1..Len(list) : list[k] = c})
timesOffered(P, c) == Cardinality({s \in slots(P) : P[s[1]][s[2]] = c})

\* gatherCandidates and the merge: a candidate is validated exactly as often as it was
\* offered.  A provider that fails or is slow takes nothing away from the others, no
\* append is lost to a concurrent one, and none is made twice.
OfferedIsValidated ==
    handedOver => \A c \in offered \cup Range(call.toValidate) :
        timesIn(call.toValidate, c) = timesOffered(offers, c)

\* sort.SliceStable: the list handed to validation has the safe candidates first, and
\* two of one provider that have the same licence keep the provider's ranking, in
\* whatever order the providers answered.
RankKept ==
    handedOver /\ sorts =>
        /\ \A j, k \in 1..Len(call.toValidate) :
              j < k => call.toValidate[j].License <= call.toValidate[k].License
        /\ \A s \in sources : \A a, b \in 1..Len(s) :
              a < b /\ s[a].License = s[b].License =>
                  \E j, k \in 1..Len(call.toValidate) :
                      j < k /\ call.toValidate[j] = s[a] /\ call.toValidate[k] = s[b]

\* hasContentProvider, hasOGProvider: a FindImages with a query and a page asks for the
\* images of the page exactly once, whether a wired provider does so or FindImages
\* itself; unless the caller sends the providers to another page, or wires two.
PageFetchedOnce ==
    /\ req.entry = "FindImages" /\ req.Query /\ req.PageURL # ""
    /\ req.optsPageURL \in {"", req.PageURL}
    /\ Cardinality({p \in Procs : providers[p] \in {"content", "og"}}) <= 1
    /\ main \in {"merging", "validating", "returned"}
    => fetches = 1

\* Every entry point: what is returned was offered, is neither a logo nor marked as
\* blocked (the caller's own candidates may be), and there is no more of it than was
\* asked for, three by default in FindImages.
ResultsSound ==
    /\ \A k \in 1..Len(chosen) :
          LET c == call.toValidate[chosen[k].idx]
          IN c \in offered /\ ~c.ImgURL.logo /\ (hasURL(c) => c.License # LicenseBlocked)
    /\ chosen # <<>> => Len(chosen) <= effectiveMax

\* wg.Wait: once the caller goes on, no provider goroutine touches the merged list.
MergeFrozen == [][main \notin {"gathering", "crashed"} => UNCHANGED <<all, found>>]_vars

\* A call with a deadline ends, though providers hang, or a panic ends the program.  It
\* may end after the deadline: by the timeout of a doer that does not get the context.
DeadlineReturns == hasDeadline ~> main \in {"returned", "crashed"}

-----------------------------------------------------------------------------
(* What comments say *)

\* find.go, imagefy.go: FindOpts.SearchOpts holds "additional search options (timeout,
\* engines, etc.)": a FindImages with a Timeout ends, though a provider hangs.
TimeoutHonoured ==
    req.entry = "FindImages" /\ req.Timeout ~> main \in {"returned", "crashed"}

\* search.go: errors of a provider are skipped "so that remaining providers still
\* contribute results": their candidates are looked at under a live context.
OthersContribute ==
    main = "returned" /\ asks /\ (\E p \in Procs : found[p] # NoAnswer) => ~blind
==============================================================================
