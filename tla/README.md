# go-imagefy in TLA+

A TLA+ model of `go-imagefy`: its entry points, search providers, the page scanner,
the licence rules, metadata, the concurrent validation of candidates, vision
classification over a shared cache, and the configuration they share. TLC checks the
modules on small instances. TLAPS proves every safety property and action property the
passing runs check, for every number of candidates, callers, providers, servers, pages
and texts.

## The system and its parts

A caller asks `SearchImages` or `FindImages` for pictures, or hands its own
candidates to `ValidateCandidates`. Providers answer a query with candidates, in
parallel; `FindImages` also looks at a page itself. The candidates are merged, sorted
by licence, and validated. Validation starts a goroutine per candidate, at most three
of which work at a time. Each probes the URL, applies the extra domain lists, downloads
the image, drops it if it looks like one seen before, combines domain and metadata
evidence into a licence verdict, asks a reverse image search, and asks a vision model
through a cache. What survives is appended to a shared slice until it has `maxResults`
elements. Every outside service may fail, hang until its timeout, or panic. Most stages
*fail open*: without an answer the image goes on.

| part | source | modules | status |
|---|---|---|---|
| entry points, gathering | `search.go`, `find.go` | `Search` | modelled |
| validation pipeline | `validate_pipeline.go` | `Validation`, `Selection` | modelled |
| perceptual dedup | `dedup.go` | `Validation`, `Fetch` | modelled |
| probe, download | `validate.go`, `download.go`, `patterns.go` | `Fetch` | partly |
| reverse image search | `reverse.go` | `Fetch`, `Validation` | modelled |
| licence rules, pre-check | `license.go`, `assessment.go` | `License`, `LicenseRules` | modelled |
| metadata | `metadata.go`, `metadata_tags.go` | `Metadata`, `Words`, `License` | modelled |
| vision classification, cache | `classify.go`, `classify_types.go` | `Classify`, `Validation` | partly |
| providers, fallback | `orchestrator.go`, `provider.go`, `provider_ddg.go`, `provider_native.go`, `provider_og.go`, `openverse.go`, `pexels.go` | `Providers` | modelled |
| page scanner | `provider_content.go` | `Content` | modelled |
| Creative Commons scanning | `cclicense.go` | `CCLicense` | modelled |
| configuration | `imagefy.go` | `SharedConfig` | modelled |
| query builder, helpers, pre-classification | `query.go`, `helpers.go`, `prefilter.go` | | not modelled |

How the modules fit together: `License` is the vocabulary of URLs, licences and
metadata and is extended by `LicenseRules`, `Fetch`, `Content`, `Providers` and
`Metadata`. `Validation` extends `Fetch`. `Selection` is an abstract specification of
validation; `Validation` implements it, and `Search` is composed with it instead of
with the whole pipeline. `Classify`, `Words`, `SharedConfig` and `CCLicense` stand alone.
`Text` puts `Words`, `Metadata` and `CCLicense` side by side; they share no state, and a
behaviour runs one of them.

## Modules

Operators commented *Mutation* are wrong variants of the definition that follows them:
each property is known to fail when the one is put in place of the other. `MC` modules
give the constants values for TLC, `Proofs` modules hold the theorems.

**`License`** holds pure operators, named after the functions they model. A URL is
a record of what the rules ask of it: the keywords its host contains, the stock-page
patterns its path contains, whether it looks like a logo. A host contains the empty
keyword, as `strings.Contains` has it. Metadata is the set of fields with a stock
keyword and the set with a Creative Commons URL. `Signals` is the set of signals
`AssessLicense` collects and `Resolve` its loop over them.

**`LicenseRules`** runs one candidate through the rules in the order of
`validateOne`: `PreCheck`, then `Assess`. Every configuration, candidate and
metadata of the instance is an initial state.

**`Fetch`** says what the pipeline learns from the network. Servers are external: a
request gets a member of a set of replies, or none. `ValidateImageURL`,
`DownloadWith` (direct client, then stealth client) and `downloadForValidation` are
functions of the replies. A body longer than `defaultMaxBytes` is cut silently, and
a cut picture does not decode.

**`Validation`** is one call of `validateCandidates`.

| state | code |
|---|---|
| `main`, `next` | the loop over `toValidate`, then `wg.Wait`, then the return |
| `wg`, `sem` | the `WaitGroup` counter, the tokens in the channel |
| `pc[i]` | where goroutine `i` stands |
| `data`, `class` | its download, its classification |
| `audit[i]` | the events it sent to `OnClassification` |
| `hashes` | `dedupFilter.hashes`; each entry also records who stored it |
| `cache` | the injected `Cache`; it may lose entries and starts with what earlier calls left |
| `validated` | the shared slice, as indices |
| `ctxDone` | the context was cancelled or its deadline passed |
| `fate[i]` | history only: why the candidate left |
| `heard[i]` | history only: whether the probe's reply was usable, whether the reverse search answered "stock" |

The caller's actions are `Spawn`, `LeaveLoop` and `Return`. A goroutine's are
`Acquire`, one action per stage (`Probe`, `DownloadImage`, `isDuplicate`,
`assessAndAccept`, `Reverse`, `Lookup`, `classifyFromData`, `Store`,
`appendValidated`), `Panic` in any stage, and the two deferred calls `Release` and
`Done`. `Cancel` may happen at any time. An action is one outside call or one
critical section; code between two of them touches only the goroutine's own
variables. The critical sections of `mu` and `dedup.mu` cannot block or panic inside,
so each is one step. The audit event and the transition it belongs to are one step;
a callback that panics afterwards is `Panic` in the next stage.

**`Selection`** is what a caller of `validateCandidates` may rely on: `Choose` takes one
candidate that is admissible, not chosen before and unlike the chosen ones, as long as
fewer than `maxResults` are; `Close` ends it. `Validation` implements it with the shared
slice and the downloaded pictures for `chosen` and the return for `closed`.

**`Search`** is one call of an entry point; `req` holds the arguments and the
configuration. `main` is the calling goroutine, `gpc[p]` and `found[p]` the goroutine of
provider `p`, `all` the slice they append to under `mu`. `Answer`, `Fail` and `Panic` end a
provider's search, `AppendAnswer` is the critical section, `gathered` is `wg.Wait`.
`FetchPage` is the page `FindImages` looks at itself, `SortAndValidate` the common end of
both searches. Validation is `Selection`: `Select` is `Choose`, `ReturnResults` is
`Close`. `blind` says that the context was done when validation began, in which case no
request is answered and nothing is chosen.

**`Providers`** is one `Search` of a provider, or of a `FallbackProvider` over several.
`step` is the request under way, or the filter; `log` records the requests, `outcome` how
each provider ended. `Answered` and `Refused` are one request with its reply, by the
rules of each `fetch` function; `Filter` is one turn of a filter loop; `Failed`, `Found`
and `Exhausted` are the branches of the fallback loop. A request to a server that hangs ends
with the context it carries (`bound`) or by a timeout of its own (`timesOut`). The requests of
the native engines do not carry the context: their library looks at it before each request
only, and whether its client has a timeout is up to who built it (`DoerTimeout`).

**`Content`** is `ContentImageProvider.Search`: `fetchPage`, then `OpenGraph`,
`Twitter`, one `JSONLD` step per script block, one `Img` step per tag, then `Merge`. `seen`
and the four `buckets` are the code's. A URL carries its host labels, the words of its
file name and the size suffixes of its name, outermost last.

**`Classify`** is any number of concurrent calls of `ClassifyImageFull` and
`classifyPredownloaded` over one cache. The steps are the calls that leave the package:
`Hit` or `Miss`, the download (`doClassifyFull`), `Answer` or `ClassifierFails`,
`Store`. The cache may lose entries (`lossy`, `Evict`). The classifier need not say the
same thing twice. A response is the word it starts with and the number after it; the
number may be `NaN`, which `ParseFloat` accepts.

**`Words`** is the loop of `containsWord`; `from` is where the text that is left begins.

**`Metadata`** is `ExtractImageMetadata`: one step per tag the decoder reports (`Skip`,
`HandleText`, `HandleMarked`), then `Finish`, with or without the decoder's error. The
decoder is external; as the vendored one does, it reports XMP values as texts. Its result
is the metadata that `License` reasons about.

**`SharedConfig`** is `defaults()`, one access to a field per step, from the goroutine of
an entry point and from the goroutines it starts, whose methods call it again. Two calls
overlap only if the fields were set, or after one call has returned (`mayBegin`). This is
an assumption about the program that owns the `Config`: two *first* calls at once on a
`Config` with unset fields would race, and no text of the repository says that they may.

**`CCLicense`** is `ExtractCCLicense`: the four patterns in turn, each by its first match.

**`Text`** is the three functions that read foreign text, `Words` extended and the other two
instantiated: `reader` says which of them a behaviour runs, the others keep their initial
state. It is there so that one run and one theorem speak of all three.

## Runs

| run | checks | shows |
|---|---|---|
| `licence_rules` | `TypeOK`, `VerdictFollowsEvidence`, `PreCheckAgrees`, `BlockedIsFinal`, `OnlyHitsDecide` | the verdict is the one the evidence calls for; blocked is final; the pre-check never changes a verdict; of a caller's lists only the entries found in a host count, so that a stray empty string counts for nothing |
| `pool` | `TypeOK`, `ResultBound`, `BoundedParallelism`, `NothingLost`, `ResultFrozen`, `ImplementsSelection`, `EventuallyReturns` | the stale `enough` test does no harm, slots are not leaked by panics, nothing runs after the return, the call returns, and seen from outside it is a `Selection` |
| `gates` | `OnlyCleared`, `AuditAgrees`, `NoVisualDuplicates`, `DuplicateHasTwin` | of what is returned the condition of every gate holds that got an answer (below); the audit log agrees with the outcome; no two decoded look-alikes are returned, and none eliminate each other |
| `search` | `TypeOK`, `OfferedIsValidated`, `RankKept`, `PageFetchedOnce`, `ResultsSound`, `MergeFrozen`, `DeadlineReturns` | each candidate is validated as often as it was offered, rankings survive the merge, the page is fetched once, a deadline ends the call |
| `content` | `OneVariantEach`, `NothingUsableLost`, `OwnImages`, `SlugFirst` | marking an image as seen before it is judged hides no usable one; one picture comes back twice only under names with two size suffixes; foreign images stay out |
| `providers` | `FirstFoundWins`, `FilterExact`, `RequestProtocol`, `DeadlineEnds` | fallback order and error, exact filters, no request without the token or the failure that calls for it and none repeated needlessly, an end under a deadline though servers hang |
| `classify` | `ResultHasCause`, `RejectionAudited`, `AskedOnceSettled`, `VerdictSettles` | no result without its cause, although failures are cached and misses race |
| `text` | `ContainsWordExact`, `LastTextDecides`, `NilMeansNothingKept`, `LicenceFound` | cutting the text neither invents nor misses a word; the last text of a field decides; nil means that no handler kept a value; a licence on creativecommons.org, its URL written literally, is found behind any other link |
| `shared_config` | `NoDataRace` | the goroutines' calls of `defaults()` find nothing to write |

`OnlyCleared` names the gates one by one: the URL is no logo; the probe was answered with
status 200 and an image not known to be narrower than `MinImageWidth`; licence, domain and
metadata evidence does not block; the reverse search, if enabled and answered, did not say
stock; and unless the licence is safe, the class the goroutine was given, if any, is PHOTO.
It does not say that a gate was asked or answered: after the probe every stage fails open,
and an image that no stage could examine is returned. The dedup gate is
`NoVisualDuplicates`.

`NilMeansNothingKept` takes the code as it is: an XMP `Marked` that is a text, which is what
the vendored decoder delivers, is not kept, and a file with no other wanted tag gives nil. The
handler is written for a Go bool, so the instance has both.

Three runs check what a comment, a document or a test says, and find it violated:

| run | statement | what the code does |
|---|---|---|
| `safe_first` | `search.go:27`, results are sorted with safe first | the sorted candidates come back in the order goroutines finish (`validate_pipeline.go:154`) |
| `blocked_domain` | `validate_candidates_test.go:45`, a candidate on a blocked domain "should be filtered out" | without extra lists its unset `License`, which is `LicenseSafe`, decides (`assessment.go:45`) |
| `find_timeout` | `find.go:14`, the options hold a timeout | `FindImages` does not read it (`find.go:46`) |

Twelve more such sentences are stated as definitions beside the properties. None has a run
of its own: each is false already in the instance of a run above, and TLC shows a trace
when the definition is made an invariant of that run.

| definition | run | statement | what the code does |
|---|---|---|---|
| `AnyStockFieldBlocks` | `licence_rules` | `metadata.go:28`, a stock keyword counts in any metadata field | the three XMP fields are not searched (`metadata.go:61`) |
| `RejectionsAudited` | `gates` | `imagefy.go:63`, an audit log for every classification decision | a cached class sends no event (`classify.go:70`) |
| `ReturnedOnce` | `gates` | `README.md:8` of the repository, dedup eliminates visually identical images | a picture over 200 KB is cut, does not decode and is not compared (`download.go:93`) |
| `OthersContribute` | `search` | `search.go:86`, the remaining providers still contribute | a slow one uses up the deadline validation needs (`search.go:65`) |
| `ContentFirst` | `content` | `provider_content.go:59`, content images first, og:image last | a content image that og:image names stays in the last bucket (`provider_content.go:121`) |
| `HTTPErrorFails` | `providers` | `provider_test.go:140`, an HTTP error is an error | SearXNG's status is not looked at (`provider.go:72`) |
| `OwnPromptDecides` | `classify` | `classify.go:11`, `VisionPrompt` is used if set | the cache key does not depend on it (`classify.go:21`) |
| `CustomLabelReturned` | `classify` | `README.md:110` of the repository, custom labels are returned | a label outside the seven classes is dropped (`classify_types.go:115`) |
| `ConfidenceInRange` | `classify` | `classify_types.go:100`, the confidence is in (0, 1] or 0 | `NaN` passes both comparisons (`classify_types.go:126`) |
| `Meta!AgencyInAnyEntry` | `text` | `metadata.go:28`, a stock keyword counts in any metadata field | only the first entry of a list is kept (`metadata_tags.go:91`) |
| `Meta!MarkedIsRead` | `text` | `README.md:303` of the repository, `Marked` is read | the decoder gives a text, the handler wants a bool (`metadata_tags.go:51`) |
| `CC!EmptyMeansNone` | `text` | `cclicense.go:56`, empty if there is none | only the first `rel="license"` link is examined (`cclicense.go:79`) |

### Bounds

- `licence_rules`: seven URLs (empty, no host, on no list, on the blocked, safe or
  caller's list, on two lists), all pairs of image and source URL, all sixteen pairs of
  extra lists over the empty and one other keyword, all three licences, metadata with
  no mark, one of either kind, both, and marks in fields a rule does not read. The
  rules only ask whether lists and hosts meet, so one keyword per list is enough.
- `pool`: three candidates over two slots, so that one waits, and `maxResults` 0, 1
  and 2, so that the list fills while goroutines run. These are licence-safe, which
  keeps the later stages short; panics and cancellation happen everywhere. The
  code's semaphore has three slots; what matters is that there are fewer than goroutines.
  Then two candidates, the first plain, on an extra blocked domain, a logo or blocked,
  whose images may look alike or be cut: the cases in which `Selection` forbids a choice.
- `gates`: two candidates of each kind (safe, unknown, on an extra blocked domain,
  logo), and one under every combination of classifier, cache, reverse search and extra
  list. Replies lie on both sides of each limit: width 879, 880 and unknown, size 200
  and 201 KB; with stock and CC marks. The classifier says PHOTO, MAP or a word outside
  its classes; the cache may hold STOCK. Three more candidates have images with hashes
  0, 9 and 10, distance their difference: 9 is close to both others, which are exactly
  the threshold apart.
- `search`: providers that rank three candidates of two licences, answer one, answer
  nothing, hang, or are wired to the page; three goroutines at most, which is enough for
  two appends to race with a third. All entry points with and without query, page, other
  page, external candidates, limit and deadline.
- `content`: at most one JSON-LD block and two or three `img` tags per page out of ten,
  with size suffixes on both sides of 200, two suffixes, logos, foreign, blocked and
  relative URLs; the og:image may carry two suffixes; `contentMaxResults` is 2 instead of 8 so that the list is cut.
- `providers`: every provider alone, every pair in a chain, three of two kinds in a row,
  and the empty chain; replies with status 200, 302 and 500 (403 for the token), bodies that parse or do not,
  results of each kind. No server hangs, all do, or Openverse, the page and the native
  engines do; the engines' client has a timeout or has none.
- `classify`: three callers (two that race and one that comes later), two images, both
  entries, with and without bytes, cache and classifier, and two prompts over one cache.
  The callers are interchangeable, so the symmetry set is sound; nothing temporal but an
  action property is checked.
- `text`: every text of at most six characters over three, with keywords of two and three
  characters that overlap themselves or hold a separator; every file of at most three of
  fourteen tags, with and without decoder error; every page of at most three tags.
- `shared_config`: two calls of two goroutines each, with every subset of fields set.

`licence_rules` and `text` allow deadlock: these are functions, and their run ends with
the result. Everywhere else the return is followed by stuttering only, and any other
deadlock is an error.

### Fairness

- `EventuallyReturns` (`pool`) assumes that the caller, and some goroutine that can take a
  step, eventually does (`WF` of each). The Go scheduler provides it once the outside calls
  return. The probe, the download and the reverse search run under ten-second timeouts
  (`validate.go:29`, `download.go:65`, `reverse.go:60`). `Cache` and `Classifier` are
  injected and get the context; that they return is an assumption about the caller's
  implementation. Fairness to *each* goroutine is not needed, nor is any on `Panic` or
  `Cancel`.
- `DeadlineReturns` (`search`) assumes that the calling goroutine is scheduled, that a
  deadline, if there is one, passes, and that a provider goroutine which has an answer or
  whose context is done goes on. For the native engines this is the timeout of their own
  client, not the context, so the call may return later than its deadline. That a provider
  answers is not assumed. `TimeoutHonoured` is refuted under the same fairness.
- `DeadlineEnds` (`providers`) assumes that the goroutine is scheduled and a deadline
  passes. That a server answers is not assumed. The property is about chains whose native
  engines have a client with a timeout; without one a hanging engine blocks the search.

## Proofs

All proof modules are checked without assumptions beyond those on the constants:
no built-in keyword is empty and the empty URL has no host (`License`,
`LicenseRules`); the distance of hashes is a symmetric natural number and the nil
image is no hash (`Fetch`); arguments, replies, documents, texts and the old cache have
their types and there is at least one slot; `NaN` and the missing number are no integers
(`Classify`); a keyword begins with two different characters (`Words`), which holds for
every entry of `stockMetadataKeywords`; a candidate's licence is an integer (`Search`), as
`ImageLicense` is an `int`; the empty text has no keyword in it (`Text`).

**`LicenseProofs`** is a case analysis over the signals. `AssessmentFollowsEvidence` and
`PreCheckIsSound` are about the operators; `VerdictCorrect`, `PreCheckCorrect`,
`BlockedStaysBlocked` and `DecisionReadsHits` carry them to the state machine with
`RulesInv`, which says that the recorded decision is the one the operators make.

**`ValidationProofs`** builds one inductive invariant in layers, each proved from the ones
before.

1. `Types`: `TypeOK` without the ranges of the counters, which depend on layer 2.
2. `Control` and `Counts`: goroutines are started in order; a fate is sealed exactly when
   the goroutine leaves; `wg` and `sem` *are* the cardinalities of the sets of running
   and slot-holding goroutines. Without the equality, `wg = 0` would not say that nobody
   runs. This gives `TypeCorrect`, `ParallelismBounded` and `ResultIsFrozen`.
3. `Result`: whatever is in the list has passed, so a goroutine about to append is not in
   it yet; whoever passed is in the list or the list is full. This gives
   `ResultIsBounded` and, with layer 2, `NothingIsLost`.
4. `Dedup`: an image past the filter that decoded has its hash stored; a hash belongs to a
   goroutine past the filter that was not dropped by it; stored hashes are pairwise far
   apart. This gives `NoDuplicatesReturned` and `DuplicatesHaveTwins`. Symmetry of the
   distance is needed: the filter compares a new hash with the old ones only.
5. `Cleared`: what the stages before have established where a goroutine stands, and what
   it has told the audit log. `Told`: a goroutine past the probe was answered with a usable
   picture, and one that heard "stock" is out. This gives `OnlyClearedReturned` and
   `AuditIsConsistent`.

On top of them, `ValidationImplementsSelection` is the refinement. A step that appends is a `Choose`,
the return is `Close`, all others stutter. That the choice is allowed follows from layers
3, 4 and 5; `AssessMonotone` bridges the verdict with metadata and the one without.

**`SearchProofs`** has five parts.

1. `Gather` says that `all` holds exactly the answers of the goroutines that have appended,
   and that a goroutine is running only while the caller waits; `Handed` that the list
   handed to validation holds the merged elements and no others, and that what is chosen is
   admissible. They give `SearchTypeCorrect`, `MergeIsFrozen` and `ResultsAreSound`.
2. `SortIsAFunction`: the stable order of a list by licence exists and is unique, for every
   list. The model describes the outcome of `sort.SliceStable` as a permutation with a
   property; this shows that the description is neither empty nor a choice. Both halves go
   by a least counterexample: the first place at which two orders differ, and the shortest
   prefix that has none.
3. `RankingIsKept`: `Placed` says that each answer that was appended is a block of
   consecutive elements of `all`, in its own order. Later appends keep the block and a stable
   sort keeps the order inside it (`SortKeepsRank`).
4. `OfferedReachesValidation`: `Laid` says that there is a bijection between the places of
   the offered lists and the places of `all` under which the elements agree. An append extends
   it (`LaidMore`), a sort composes it with a permutation (`LaidSorted`); a bijection preserves
   cardinalities, so every candidate is validated as often as it was offered (`LaidCounts`).
   That the *sets* agree would not do: an append that is made twice keeps the set.
5. `PageIsFetchedOnce`: `Fetched` says that while the providers search, `fetches` is the number
   of those that look at the page; `PageProviders` that the names `FindImages` looks for are
   found in the configuration exactly if there is one.

**`ContentProofs`**: `Core` says that every bucket entry is usable, seen under its key, and
that no key is in two places; `Reached` that every usable image a pass has gone over is in
some bucket; `Result` carries both through the merge and the cut. `NothingUsableLost` needs
the point on which the code may look wrong: two images with the same key
differ in a size suffix alone, and no filter looks at that (`NormalKeeps`), so an unusable
image never takes the place of a usable one. `SlugComesFirst` rests on `Filed`: the
priority bucket holds matching images only, the normal one no matching image, the other two
only what the head of the page names. Two variants of an image match the slug alike
(`VariantsMatch`), so it does not matter which of them came first. `NoImageTwice` adds that a
name with at most one suffix has the picture itself for its key (`KeyIsPicture`).

**`ProvidersProofs`**: `Filtering` (what the filter kept so far is the clean part of what it
has read), `Progress` (providers before `pos` ended in error or empty, later ones are
untouched, `lastErr` is the latest error), `Sending` (which requests, with which replies, can
be in the log at which step). They give `FiltersAreExact`, `FallbackIsCorrect` and `RequestsFollowProtocol`.

**`ClassifyProofs`**: `Causes` (every result reached, and every cache entry, is explained by
an answer about that image or by a failed attempt), `Reported` (every answer is in the
audit log), `Kept` (a cache that loses nothing holds an entry for every call that returned).

**`TextProofs`**: for `containsWord`, `Cut` says that no bounded occurrence begins in what was
cut off, and that the cut went through an occurrence. The second part is what makes the loop
right: the occurrence it finds next might begin just where the text was cut, and count as
bounded on the left. It cannot, since then the keyword's first two characters would be equal
(`NoNeighbours`). For the metadata, `Reading` says that after `k` tags each field holds its
last text among them and `found` whether there was one, `Flagging` that `marked` is the last
bool among them; they give `MetadataFaithful` and `NilOnlyForNothing`. For the licence scan, `Trying` says that the first match of no
pattern before the present one is a licence; it gives `LicenceIsFound`. `ReadersCorrect`
carries the four to `Text`.

**`SharedConfigProofs`**: `Filling` says that a goroutine in `defaults()` has the fields before
its own filled in, and that all fields are once two goroutines have begun. It gives `DefaultsRaceFree`.

Every `TypeOK` is proved as well.

Only model-checked: the liveness properties `EventuallyReturns`, `DeadlineReturns` and
`DeadlineEnds`, which rest on fairness and so on `ENABLED`, out of the prover's reach; and the
three runs that exhibit a behaviour, which is what a counterexample does and a proof cannot.
The library's induction theorems take an operator as a parameter, which none of the provers
instantiates; where a proof here needs induction over data it uses the least-number principle
(`Least`), which follows from the well-foundedness of the naturals.

## Not modelled

Left out: wording, logging, metrics callbacks, HTTP headers, the URLs of requests, JSON,
HTML and regular expressions (the models start from what they extract), and the download
options the pipeline does not use. `MinImageWidth` has its default. The
image decoders, the hash library, the metadata decoder, the native engines, the cache, the
classifier and all servers are external.

- `query.go` picks words out of a title by stop-word lists and lengths. It is a text function
  of one pass, without state, and nothing in the package calls it.
- `helpers.go`: base64, and the og:image regular expression, whose result is the `og` field
  of a document in `Content`.
- `prefilter.go` is one comparison that nothing calls.
- `ParseVisionResponse` is deprecated and called by nothing.
- A `FallbackProvider` that wraps a page provider hides its name from `FindImages`, which then
  fetches the page again (`find.go:77`). No text says that it must not, so no property does.
