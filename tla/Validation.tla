----------------------------- MODULE Validation ------------------------------
(***************************************************************************)
(* validateCandidates and validateOne (validate_pipeline.go) with the      *)
(* dedup filter (dedup.go) and the classification of a downloaded image    *)
(* (classify.go): one call, from its arguments to its return.              *)
(*                                                                         *)
(* The caller's loop starts a goroutine per candidate and waits for all of *)
(* them; each goroutine takes a semaphore slot and walks its candidate     *)
(* through the stages.  pc[i] is where goroutine i stands.  A step is one  *)
(* call that leaves the goroutine (a request, the cache, the classifier)   *)
(* or one critical section; the sections of mu and dedup.mu neither block  *)
(* nor panic, so each is a single step.                                    *)
(***************************************************************************)
EXTENDS Fetch, Sequences, FiniteSets, Functions

CONSTANTS
    URLs, Configs,        \* the URLs and configurations of the instance
    Calls,                \* arguments [toValidate, maxResults, cfg]
    Replies(_),           \* answers of the web server that holds a URL
    Labels,               \* the class, or other text, an answer starts with
    CachedBefore,         \* what earlier calls may have left in the cache
    validationSemaphore   \* 3 in the code

ImageCandidate == [ImgURL : URLs, Source : URLs, License : ImageLicense]

classificationClasses == {"ILLUSTRATION", "PLACEHOLDER", "SCREENSHOT",
                          "REJECT", "PHOTO", "STOCK", "MAP"}
Classes   == classificationClasses \cup {""}
NotCached == "not cached"
Events    == [class : Classes, source : {"license_assessment", "reverse_stock", "llm"}]

ASSUME InstanceAssumption ==
    /\ \A c \in Calls : /\ c.toValidate \in Seq(ImageCandidate)
                        /\ c.maxResults \in Int
                        /\ c.cfg \in Configs
    /\ \A u \in URLs : \A r \in Replies(u) :
          r.look \in Hashes \cup {NoImage} /\ r.meta \in ImageMetadata
    /\ CachedBefore \subseteq Classes \cup {NotCached}
    /\ validationSemaphore \in Nat \ {0}

VARIABLES
    call,       \* the arguments; never changes
    ctxDone,    \* the context was cancelled or its deadline passed
    main, next, \* the caller's loop: its phase and the index it is at
    wg, sem,    \* the WaitGroup's counter; the tokens in the channel
    pc,         \* stage of each goroutine
    data,       \* its download
    class,      \* its classification result
    audit,      \* the events it sent to OnClassification
    fate,       \* history: why its candidate left the pipeline
    heard,      \* history: what servers said of its picture
    hashes,     \* dedup.hashes; each entry remembers who stored it
    cache,      \* the injected cache, keyed by image URL
    validated   \* the shared result slice, as indices of toValidate

vars == <<call, ctxDone, main, next, wg, sem, pc, data, class, audit, fate,
          heard, hashes, cache, validated>>
caller == <<call, ctxDone, main, next>>
locals == <<data, class, audit, fate, heard>>
shared == <<hashes, cache, validated>>

Idx        == 1..Len(call.toValidate)
cand(i)    == call.toValidate[i]
imgURL(i)  == cand(i).ImgURL
cacheKeys  == {u.text : u \in URLs}

Stages  == {"probe", "download", "dedup", "assess", "reverse", "lookup",
            "classify", "store", "append"}
Holding == Stages \cup {"release"}                 \* owns a slot
Running == Holding \cup {"acquire", "wgdone"}      \* counted by wg
Fates   == {"open", "unreachable", "stock", "duplicate", "laundered",
            "not a photo", "panicked", "passed"}

Init ==
    /\ call \in Calls
    /\ ctxDone = FALSE
    /\ main = "loop" /\ next = 1
    /\ wg = 0 /\ sem = 0
    /\ pc = [i \in Idx |-> "unstarted"]
    /\ data = [i \in Idx |-> NoData]
    /\ class = [i \in Idx |-> ""]
    /\ audit = [i \in Idx |-> <<>>]
    /\ fate = [i \in Idx |-> "open"]
    /\ heard = [i \in Idx |-> {}]
    /\ hashes = {}
    /\ cache \in [cacheKeys -> IF call.cfg.Cache THEN CachedBefore ELSE {NotCached}]
    /\ validated = <<>>

-----------------------------------------------------------------------------
(* The caller *)

enough == Len(validated) >= call.maxResults

Spawn ==
    /\ main = "loop" /\ next \in Idx /\ ~enough
    /\ wg' = wg + 1
    /\ pc' = [pc EXCEPT ![next] = "acquire"]
    /\ next' = next + 1
    /\ UNCHANGED <<call, ctxDone, main, sem, locals, shared>>

LeaveLoop ==
    /\ main = "loop" /\ (next \notin Idx \/ enough)
    /\ main' = "wait"
    /\ UNCHANGED <<call, ctxDone, next, wg, sem, pc, locals, shared>>

\* Mutation: the caller does not wait for its goroutines.
ReturnAtOnce ==
    /\ main = "wait"
    /\ main' = "returned"
    /\ UNCHANGED <<call, ctxDone, next, wg, sem, pc, locals, shared>>

Return ==
    /\ main = "wait" /\ wg = 0
    /\ main' = "returned"
    /\ UNCHANGED <<call, ctxDone, next, wg, sem, pc, locals, shared>>

\* The deadline passes, or whoever holds the context cancels it.
Cancel ==
    /\ ~ctxDone /\ main # "returned"
    /\ ctxDone' = TRUE
    /\ UNCHANGED <<call, main, next, wg, sem, pc, locals, shared>>

-----------------------------------------------------------------------------
(* A goroutine: the slot, the stages of validateOne, and the way out *)

Goto(i, stage) == pc' = [pc EXCEPT ![i] = stage]
Leave(i, why)  == Goto(i, "release") /\ fate' = [fate EXCEPT ![i] = why]
emitClassification(i, cls, src) ==
    audit' = [audit EXCEPT ![i] = Append(@, [class |-> cls, source |-> src])]

\* No request is answered once the context is done.
Answers(u) == IF ctxDone THEN {NoReply} ELSE Replies(u) \cup {NoReply}

\* What the servers told goroutine i: "fit", its probe was answered with status 200 and
\* an image that is wide enough if it can be told; "stock", the reverse search was asked,
\* did answer, and knew the picture from a stock site.
Hear(i, fact, holds) == heard' = [heard EXCEPT ![i] = IF holds THEN @ \cup {fact} ELSE @]
usable(r) == r.status = StatusOK /\ r.image /\ r.width \notin 1..(MinImageWidth - 1)

\* Mutation: the channel has room for one more token.
AcquireOneMore(i) ==
    /\ pc[i] = "acquire" /\ sem <= validationSemaphore
    /\ sem' = sem + 1
    /\ Goto(i, "probe")
    /\ UNCHANGED <<caller, wg, locals, shared>>

Acquire(i) ==
    /\ pc[i] = "acquire" /\ sem < validationSemaphore
    /\ sem' = sem + 1
    /\ Goto(i, "probe")
    /\ UNCHANGED <<caller, wg, locals, shared>>

\* Mutation: the pre-check drops a candidate without telling the audit log.
ProbeSilent(i) ==
    /\ pc[i] = "probe"
    /\ \E r \in Answers(imgURL(i)) :
       /\ Hear(i, "fit", usable(r))
       /\ \/ ~ValidateImageURL(imgURL(i), r) /\ Leave(i, "unreachable")
          \/ /\ ValidateImageURL(imgURL(i), r)
             /\ isBlockedByExtraDomains(call.cfg, cand(i))
             /\ Leave(i, "stock")
          \/ /\ ValidateImageURL(imgURL(i), r)
             /\ ~isBlockedByExtraDomains(call.cfg, cand(i))
             /\ Goto(i, "download") /\ UNCHANGED fate
    /\ UNCHANGED <<caller, wg, sem, data, class, audit, shared>>

\* ValidateImageURL, then the extra-domain pre-check.
Probe(i) ==
    /\ pc[i] = "probe"
    /\ \E r \in Answers(imgURL(i)) :
       /\ Hear(i, "fit", usable(r))
       /\ \/ ~ValidateImageURL(imgURL(i), r) /\ Leave(i, "unreachable") /\ UNCHANGED audit
          \/ /\ ValidateImageURL(imgURL(i), r)
             /\ isBlockedByExtraDomains(call.cfg, cand(i))
             /\ emitClassification(i, "STOCK", "license_assessment")
             /\ Leave(i, "stock")
          \/ /\ ValidateImageURL(imgURL(i), r)
             /\ ~isBlockedByExtraDomains(call.cfg, cand(i))
             /\ Goto(i, "download") /\ UNCHANGED <<fate, audit>>
    /\ UNCHANGED <<caller, wg, sem, data, class, shared>>

DownloadImage(i) ==
    /\ pc[i] = "download"
    /\ \E direct, stealth \in Answers(imgURL(i)) :
          data' = [data EXCEPT ![i] = downloadForValidation(call.cfg, direct, stealth)]
    /\ Goto(i, "dedup")
    /\ UNCHANGED <<caller, wg, sem, heard, class, audit, fate, shared>>

\* Mutation: a hash is remembered only with the result it leads to, i.e. not here.
isDuplicateForgetful(i) ==
    /\ pc[i] = "dedup"
    /\ LET img == data[i].img
           twin == img # NoImage /\ \E h \in hashes : Near(img, h.hash)
       IN IF twin THEN Leave(i, "duplicate") ELSE Goto(i, "assess") /\ UNCHANGED fate
    /\ UNCHANGED <<caller, wg, sem, heard, data, class, audit, hashes, cache, validated>>

\* Mutation: the hash is stored before the comparison says it is a duplicate.
isDuplicateStoreFirst(i) ==
    /\ pc[i] = "dedup"
    /\ LET img == data[i].img
           twin == img # NoImage /\ \E h \in hashes : Near(img, h.hash)
       IN /\ IF twin THEN Leave(i, "duplicate") ELSE Goto(i, "assess") /\ UNCHANGED fate
          /\ hashes' = IF img = NoImage THEN hashes
                       ELSE hashes \cup {[by |-> i, hash |-> img]}
    /\ UNCHANGED <<caller, wg, sem, heard, data, class, audit, cache, validated>>

\* Compare with every hash seen so far and remember a new one, in one critical
\* section.  An image that did not decode is neither compared nor remembered.
isDuplicate(i) ==
    /\ pc[i] = "dedup"
    /\ LET img == data[i].img
           twin == img # NoImage /\ \E h \in hashes : Near(img, h.hash)
       IN /\ IF twin THEN Leave(i, "duplicate") ELSE Goto(i, "assess") /\ UNCHANGED fate
          /\ hashes' = IF twin \/ img = NoImage THEN hashes
                       ELSE hashes \cup {[by |-> i, hash |-> img]}
    /\ UNCHANGED <<caller, wg, sem, heard, data, class, audit, cache, validated>>

assessment(i) == AssessLicense(call.cfg, cand(i), data[i].meta)

assessAndAccept(i) ==
    /\ pc[i] = "assess"
    /\ \/ /\ assessment(i) = LicenseBlocked
          /\ emitClassification(i, "STOCK", "license_assessment")
          /\ Leave(i, "stock")
       \/ /\ assessment(i) = LicenseSafe
          /\ emitClassification(i, "PHOTO", "license_assessment")
          /\ Goto(i, "append") /\ UNCHANGED fate
       \/ /\ assessment(i) = LicenseUnknown
          /\ Goto(i, "reverse") /\ UNCHANGED <<audit, fate>>
    /\ UNCHANGED <<caller, wg, sem, heard, data, class, shared>>

Reverse(i) ==
    /\ pc[i] = "reverse"
    /\ \E isStock \in BOOLEAN :
       /\ Hear(i, "stock", call.cfg.OxBrowserURL /\ ~ctxDone /\ isStock)
       /\ \/ /\ ReverseCheck(call.cfg, ~ctxDone, isStock)
             /\ emitClassification(i, "STOCK", "reverse_stock")
             /\ Leave(i, "laundered")
          \/ /\ ~ReverseCheck(call.cfg, ~ctxDone, isStock)
             /\ Goto(i, "lookup") /\ UNCHANGED <<audit, fate>>
    /\ UNCHANGED <<caller, wg, sem, data, class, shared>>

ParseClassificationResult(label) == IF label \in classificationClasses THEN label ELSE ""

\* Mutation: only STOCK is a reason to reject.
JudgeStockOnly(i, cls) ==
    IF cls # "STOCK" THEN Goto(i, "append") /\ UNCHANGED fate ELSE Leave(i, "not a photo")

\* validateOne's use of the class: PHOTO passes, and so does no class at all.
Judge(i, cls) ==
    IF cls \in {"PHOTO", ""} THEN Goto(i, "append") /\ UNCHANGED fate
                             ELSE Leave(i, "not a photo")

\* classifyPredownloaded up to the cache's answer; the cache may have lost what
\* was stored in it.
Lookup(i) ==
    /\ pc[i] = "lookup"
    /\ \/ /\ ~call.cfg.Classifier
          /\ Goto(i, "append") /\ UNCHANGED <<class, fate>>
       \/ /\ call.cfg.Classifier
          /\ Goto(i, "classify") /\ UNCHANGED <<class, fate>>
       \/ /\ call.cfg.Classifier /\ call.cfg.Cache
          /\ cache[imgURL(i).text] # NotCached
          /\ class' = [class EXCEPT ![i] = cache[imgURL(i).text]]
          /\ Judge(i, cache[imgURL(i).text])
    /\ UNCHANGED <<caller, wg, sem, heard, data, audit, shared>>

Classified(i, cls) ==
    /\ class' = [class EXCEPT ![i] = cls]
    /\ IF call.cfg.Cache THEN Goto(i, "store") /\ UNCHANGED fate ELSE Judge(i, cls)

\* classifyFromData: without bytes, or when the classifier fails, no class.
classifyFromData(i) ==
    /\ pc[i] = "classify"
    /\ \/ Classified(i, "") /\ UNCHANGED audit
       \/ /\ data[i].bytes
          /\ \E label \in Labels :
                /\ Classified(i, ParseClassificationResult(label))
                /\ emitClassification(i, ParseClassificationResult(label), "llm")
    /\ UNCHANGED <<caller, wg, sem, heard, data, shared>>

\* Cache.Set, which may be lost; then the verdict of the goroutine's own result.
Store(i) ==
    /\ pc[i] = "store"
    /\ cache' \in {cache, [cache EXCEPT ![imgURL(i).text] = class[i]]}
    /\ Judge(i, class[i])
    /\ UNCHANGED <<caller, wg, sem, heard, data, class, audit, hashes, validated>>

\* Mutation: the length is not checked again under the lock.
appendUnchecked(i) ==
    /\ pc[i] = "append"
    /\ validated' = Append(validated, i)
    /\ Leave(i, "passed")
    /\ UNCHANGED <<caller, wg, sem, heard, data, class, audit, hashes, cache>>

\* Mutation: the last place in the result list is never filled.
appendOneShort(i) ==
    /\ pc[i] = "append"
    /\ validated' = IF Len(validated) + 1 < call.maxResults
                    THEN Append(validated, i) ELSE validated
    /\ Leave(i, "passed")
    /\ UNCHANGED <<caller, wg, sem, heard, data, class, audit, hashes, cache>>

appendValidated(i) ==
    /\ pc[i] = "append"
    /\ validated' = IF Len(validated) < call.maxResults
                    THEN Append(validated, i) ELSE validated
    /\ Leave(i, "passed")
    /\ UNCHANGED <<caller, wg, sem, heard, data, class, audit, hashes, cache>>

\* Whatever a stage calls (a transport, a decoder, the cache, the classifier, a
\* callback) may panic: validateOne recovers, and the candidate is dropped.  At
\* "append" the panic is the one of the callback that was told of the event.
Panic(i) ==
    /\ pc[i] \in Stages /\ (pc[i] = "append" => audit[i] # <<>>)
    /\ Leave(i, "panicked")
    /\ UNCHANGED <<caller, wg, sem, heard, data, class, audit, shared>>

\* Mutation: the slot is not given back when validateOne panicked.
ReleaseUnlessPanicked(i) ==
    /\ pc[i] = "release"
    /\ sem' = IF fate[i] = "panicked" THEN sem ELSE sem - 1
    /\ Goto(i, "wgdone")
    /\ UNCHANGED <<caller, wg, locals, shared>>

\* The deferred calls: first the slot, then the WaitGroup.
Release(i) ==
    /\ pc[i] = "release"
    /\ sem' = sem - 1
    /\ Goto(i, "wgdone")
    /\ UNCHANGED <<caller, wg, locals, shared>>

\* Mutation: wg.Done is skipped when validateOne panicked.
DoneUnlessPanicked(i) ==
    /\ pc[i] = "wgdone"
    /\ wg' = IF fate[i] = "panicked" THEN wg ELSE wg - 1
    /\ Goto(i, "done")
    /\ UNCHANGED <<caller, sem, locals, shared>>

Done(i) ==
    /\ pc[i] = "wgdone"
    /\ wg' = wg - 1
    /\ Goto(i, "done")
    /\ UNCHANGED <<caller, sem, locals, shared>>

-----------------------------------------------------------------------------

Step(i) ==
    \/ Acquire(i) \/ Probe(i) \/ DownloadImage(i) \/ isDuplicate(i)
    \/ assessAndAccept(i) \/ Reverse(i) \/ Lookup(i) \/ classifyFromData(i)
    \/ Store(i) \/ appendValidated(i) \/ Release(i) \/ Done(i)

Main == Spawn \/ LeaveLoop \/ Return

Next ==
    \/ Main \/ Cancel
    \/ \E i \in Idx : Step(i) \/ Panic(i)
    \/ main = "returned" /\ UNCHANGED vars

Spec == Init /\ [][Next]_vars

\* Some goroutine that can take a step eventually takes one, and so does the
\* caller: every request has a timeout, and the injected classifier and cache
\* are taken to return.
FairSpec == Spec /\ WF_vars(Main) /\ WF_vars(\E i \in Idx : Step(i))

-----------------------------------------------------------------------------
(* Properties *)

\* The types of the variables.
TypeOK ==
    /\ call \in Calls
    /\ ctxDone \in BOOLEAN
    /\ main \in {"loop", "wait", "returned"}
    /\ next \in 1..Len(call.toValidate) + 1
    /\ wg \in Nat /\ sem \in 0..validationSemaphore
    /\ pc \in [Idx -> Running \cup {"unstarted", "done"}]
    /\ data \in [Idx -> Download]
    /\ class \in [Idx -> Classes]
    /\ audit \in [Idx -> Seq(Events)]
    /\ fate \in [Idx -> Fates]
    /\ heard \in [Idx -> SUBSET {"fit", "stock"}]
    /\ hashes \in SUBSET [by : Idx, hash : Hashes]
    /\ cache \in [cacheKeys -> Classes \cup {NotCached}]
    /\ validated \in Seq(Idx)

returned(i) == i \in Range(validated)

\* validateCandidates: the loop's test of len(validated) is out of date as soon as
\* the lock is released, yet there are never more results than asked for, and no
\* candidate is among them twice.
ResultBound ==
    /\ Len(validated) <= call.maxResults \/ validated = <<>>
    /\ \A j, k \in 1..Len(validated) : validated[j] = validated[k] => j = k

\* The semaphore: at most validationSemaphore candidates are in validateOne at any
\* time, and panics leak no slot: the channel is empty when the call returns.
BoundedParallelism ==
    /\ Cardinality({i \in Idx : pc[i] \in Holding}) <= validationSemaphore
    /\ main = "returned" => sem = 0

\* The dedup filter: of the returned images that could be decoded, no two look
\* alike, however their goroutines interleave.
NoVisualDuplicates ==
    \A i, j \in Idx :
        /\ i # j /\ returned(i) /\ returned(j)
        /\ data[i].img # NoImage /\ data[j].img # NoImage
        => ~Near(data[i].img, data[j].img)

\* An image dropped as a duplicate looks like one that passed the filter itself:
\* two images never eliminate each other.
DuplicateHasTwin ==
    \A i \in Idx : fate[i] = "duplicate" =>
        \E h \in hashes : /\ h.by # i /\ fate[h.by] # "duplicate"
                          /\ Near(data[i].img, h.hash)

\* validateCandidates leaves nothing out: when fewer images are returned than were
\* asked for, every other candidate was examined and dropped for a reason.
NothingLost ==
    main = "returned" /\ ~enough =>
        \A i \in Idx : returned(i) \/ fate[i] \notin {"open", "passed"}

\* Every gate's own condition holds of a returned image, whatever happened on its way
\* through the stages: it is no logo; the probe was answered with status 200 and an
\* image not known to be narrower than MinImageWidth; its licence, domains and metadata
\* do not block it; the reverse search, where it was enabled and did answer, did not
\* call it stock; and unless the licence is safe, the class its goroutine was given, if
\* any, is PHOTO.  A gate that got no answer stops nothing.
OnlyCleared ==
    \A i \in Idx : returned(i) =>
        /\ ~imgURL(i).logo /\ "fit" \in heard[i]
        /\ assessment(i) # LicenseBlocked
        /\ "stock" \notin heard[i]
        /\ assessment(i) = LicenseSafe \/ class[i] \in {"PHOTO", ""}

\* The audit log: a candidate has at most one event, the event of a returned image
\* does not reject it, and a stock verdict is always reported.
AuditAgrees ==
    \A i \in Idx :
        /\ Len(audit[i]) <= 1
        /\ returned(i) => \A e \in Range(audit[i]) : e.class \in {"PHOTO", ""}
        /\ fate[i] \in {"stock", "laundered"} => audit[i] # <<>>

\* wg.Wait: nothing the call shares changes after it has returned.
ResultFrozen == [][main = "returned" => UNCHANGED <<shared, audit>>]_vars

\* The call returns: neither a panic, a cancellation nor a full result list leaves
\* a goroutine waiting for a slot or the caller waiting for a goroutine.
EventuallyReturns == <>(main = "returned")

-----------------------------------------------------------------------------
(* The abstract specification *)

Sel == INSTANCE Selection WITH
    chosen <- [k \in 1..Len(validated) |->
                  [idx |-> validated[k], look |-> data[validated[k]].img]],
    closed <- main = "returned",
    Looks <- Hashes \cup {NoImage}

\* validateCandidates implements Selection: seen through the shared slice, every
\* step of a goroutine or of the caller chooses one more admissible picture unlike
\* the others, closes the selection, or changes nothing.
ImplementsSelection == Sel!Spec

-----------------------------------------------------------------------------
(* What documents and tests say *)

\* search.go: "Results are sorted with LicenseSafe first, then LicenseUnknown."
SafeFirst ==
    main = "returned" =>
        \A j, k \in 1..Len(validated) :
            j < k => cand(validated[j]).License <= cand(validated[k]).License

\* validate_candidates_test.go: a candidate on a blocked domain "should be filtered
\* out" of ValidateCandidates, its License field left unset.
BlockedDomainFiltered ==
    \A i \in Idx : returned(i) => CheckLicense(imgURL(i), cand(i).Source) # LicenseBlocked

\* imagefy.go: OnClassification is an "audit log for every classification decision".
RejectionsAudited ==
    \A i \in Idx : fate[i] = "not a photo" => audit[i] # <<>>

\* README.md: dedup "eliminates visually identical images"; one picture, downloaded
\* for two candidates of the same URL, is returned once.
ReturnedOnce ==
    \A i, j \in Idx :
        returned(i) /\ returned(j) /\ data[i].bytes /\ data[j].bytes
            /\ imgURL(i) = imgURL(j) => i = j
==============================================================================
