------------------------------ MODULE Classify -------------------------------
(***************************************************************************)
(* Vision classification (classify.go, classify_types.go): concurrent      *)
(* calls of ClassifyImageFull and classifyPredownloaded, made through      *)
(* configurations that may have different prompts, over one injected       *)
(* cache.  A step is one call that leaves the package: the cache, the      *)
(* download, the classifier.  The classifier is a language model: it may   *)
(* fail, and need not say the same thing twice.                            *)
(*                                                                         *)
(* A response is the word it starts with and what ParseFloat makes of the  *)
(* word after that: hundredths, NaN, or NoNumber.                          *)
(***************************************************************************)
EXTENDS Integers

CONSTANTS
    Callers,               \* goroutines, each making one call
    Requests,              \* [entry, url, VisionPrompt, Classifier, Cache, bytes]
    Responses,             \* [label, number] the classifier may answer
    Prompts, DefaultVisionPrompt, NoPrompt,
    NaN, NoNumber

classificationClasses == {"ILLUSTRATION", "PLACEHOLDER", "SCREENSHOT",
                          "REJECT", "PHOTO", "STOCK", "MAP"}
URLs == {r.url : r \in Requests}

Result    == [Class : classificationClasses \cup {""}, Confidence : 0..100 \cup {NaN}]
Empty     == [Class |-> "", Confidence |-> 0]
NotCached == [Class |-> "not cached", Confidence |-> 0]

ASSUME ClassifyAssumption ==
    /\ \A r \in Requests : /\ r.entry \in {"full", "predownloaded"}
                           /\ r.VisionPrompt \in Prompts \cup {NoPrompt}
                           /\ {r.Classifier, r.Cache, r.bytes} \subseteq BOOLEAN
    /\ \A a \in Responses : a.number \in Int \cup {NaN, NoNumber}
    /\ NaN \notin Int /\ NoNumber \notin Int \cup {NaN}
    /\ NoPrompt \notin Prompts /\ DefaultVisionPrompt \in Prompts

VARIABLES
    req,      \* the request of each caller; never changes
    lossy,    \* the injected cache may drop entries; never changes
    pc,       \* "start", "fetch", "ask", "store", "done"
    result,   \* what the call is about to store and return
    cache,    \* key |-> result
    audit,    \* the events sent to OnClassification
    heard,    \* history: what the classifier said, to which prompt, about what
    failed,   \* history: URLs one attempt on which ended without an answer
    missed,   \* history: callers whose lookup found nothing
    after     \* history: for each caller, the calls that had returned when it began

vars == <<req, lossy, pc, result, cache, audit, heard, failed, missed, after>>
given   == <<req, lossy>>
history == <<heard, failed, missed, after>>

\* Mutation: the key does not depend on the image.
cacheKeyPrefix(r) == CHOOSE u \in URLs : TRUE

\* cfg.Cache.Key("vision_cls_v2", imageURL): the image, and nothing else.
cacheKey(r) == r.url

Init ==
    /\ req \in [Callers -> Requests]
    /\ lossy \in BOOLEAN
    /\ pc = [c \in Callers |-> "start"]
    /\ result = [c \in Callers |-> Empty]
    /\ cache = [u \in URLs |-> NotCached]
    /\ audit = {} /\ heard = {} /\ failed = {} /\ missed = {}
    /\ after = [c \in Callers |-> {}]

-----------------------------------------------------------------------------
(* ParseClassificationResult *)

\* The comparisons of the code, in which NaN is neither <= 0 nor > 1.
outOfRange(x) == x # NaN /\ (x <= 0 \/ x > 100)

confidence(x) == IF x = NoNumber \/ outOfRange(x) THEN 0 ELSE x

\* No class is a prefix of another, so a response starts with at most one.
ParseClassificationResult(a) ==
    IF a.label \in classificationClasses
    THEN [Class |-> a.label, Confidence |-> confidence(a.number)]
    ELSE Empty

\* ClassPhoto, or no class.
IsRealPhoto(c) == result[c].Class \in {"PHOTO", ""}

-----------------------------------------------------------------------------
(* A call *)

Goto(c, stage) == pc' = [pc EXCEPT ![c] = stage]
returned       == {c \in Callers : pc[c] = "done"}

\* The early return of both entry points.
NoClassifier(c) ==
    /\ pc[c] = "start" /\ ~req[c].Classifier
    /\ Goto(c, "done")
    /\ UNCHANGED <<given, result, cache, audit, history>>

\* Mutation: a cached failure is used once, then dropped for the next call to retry.
HitDropsFailure(c) ==
    /\ pc[c] = "start" /\ req[c].Classifier /\ req[c].Cache
    /\ cache[cacheKey(req[c])] # NotCached
    /\ result' = [result EXCEPT ![c] = cache[cacheKey(req[c])]]
    /\ cache' = [cache EXCEPT ![cacheKey(req[c])] = IF @ = Empty THEN NotCached ELSE @]
    /\ Goto(c, "done")
    /\ UNCHANGED <<given, audit, history>>

Hit(c) ==
    /\ pc[c] = "start" /\ req[c].Classifier /\ req[c].Cache
    /\ cache[cacheKey(req[c])] # NotCached
    /\ result' = [result EXCEPT ![c] = cache[cacheKey(req[c])]]
    /\ Goto(c, "done")
    /\ UNCHANGED <<given, cache, audit, history>>

\* Nothing cached, or no cache.
Miss(c) ==
    /\ pc[c] = "start" /\ req[c].Classifier
    /\ req[c].Cache => cache[cacheKey(req[c])] = NotCached
    /\ missed' = missed \cup {c}
    /\ after' = [after EXCEPT ![c] = returned]
    /\ Goto(c, "fetch")
    /\ UNCHANGED <<given, result, cache, audit, heard, failed>>

NoAnswer(c) ==
    /\ failed' = failed \cup {req[c].url}
    /\ Goto(c, "store")
    /\ UNCHANGED <<given, result, cache, audit, heard, missed, after>>

\* doClassifyFull downloads the image; classifyPredownloaded was given the bytes
\* of the pipeline's download, none when that failed.
doClassifyFull(c) ==
    /\ pc[c] = "fetch"
    /\ \/ /\ req[c].entry = "full" \/ req[c].bytes
          /\ Goto(c, "ask")
          /\ UNCHANGED <<given, result, cache, audit, history>>
       \/ /\ req[c].entry = "full" \/ ~req[c].bytes
          /\ NoAnswer(c)

prompt(r) == IF r.VisionPrompt = NoPrompt THEN DefaultVisionPrompt ELSE r.VisionPrompt

event(u, res) == [URL |-> u, Class |-> res.Class, Confidence |-> res.Confidence]

Told(c, a) ==
    /\ heard' = heard \cup {[url |-> req[c].url, prompt |-> prompt(req[c]), answer |-> a]}
    /\ result' = [result EXCEPT ![c] = ParseClassificationResult(a)]
    /\ Goto(c, "store")
    /\ UNCHANGED <<given, cache, failed, missed, after>>

\* Mutation: answers are not reported to the audit log.
AnswerUnreported(c, a) == pc[c] = "ask" /\ Told(c, a) /\ UNCHANGED audit

\* classifyFromData, answered: parse, then emitClassification.
Answer(c, a) ==
    /\ pc[c] = "ask"
    /\ Told(c, a)
    /\ audit' = audit \cup {event(req[c].url, ParseClassificationResult(a))}

\* classifyFromData, the classifier returns an error.
ClassifierFails(c) == pc[c] = "ask" /\ NoAnswer(c)

\* Mutation: only a result with a class is worth storing.
StoreIfClass(c) ==
    /\ pc[c] = "store"
    /\ cache' = IF req[c].Cache /\ result[c] # Empty
                THEN [cache EXCEPT ![cacheKey(req[c])] = result[c]] ELSE cache
    /\ Goto(c, "done")
    /\ UNCHANGED <<given, result, audit, history>>

\* Whatever came out is stored, an empty result too, over what others stored since.
Store(c) ==
    /\ pc[c] = "store"
    /\ cache' = IF req[c].Cache
                THEN [cache EXCEPT ![cacheKey(req[c])] = result[c]] ELSE cache
    /\ Goto(c, "done")
    /\ UNCHANGED <<given, result, audit, history>>

\* External: an entry expires, or was never written.
Evict(u) ==
    /\ lossy /\ cache[u] # NotCached
    /\ cache' = [cache EXCEPT ![u] = NotCached]
    /\ UNCHANGED <<given, pc, result, audit, history>>

Finished == returned = Callers /\ UNCHANGED vars

Step(c) ==
    \/ NoClassifier(c) \/ Hit(c) \/ Miss(c) \/ doClassifyFull(c)
    \/ (\E a \in Responses : Answer(c, a)) \/ ClassifierFails(c) \/ Store(c)

Next == (\E c \in Callers : Step(c)) \/ (\E u \in URLs : Evict(u)) \/ Finished

Spec == Init /\ [][Next]_vars

-----------------------------------------------------------------------------
(* Properties *)

\* Results and cache entries are classes of the library with a confidence.
TypeOK ==
    /\ req \in [Callers -> Requests]
    /\ lossy \in BOOLEAN
    /\ pc \in [Callers -> {"start", "fetch", "ask", "store", "done"}]
    /\ result \in [Callers -> Result]
    /\ cache \in [URLs -> Result \cup {NotCached}]
    /\ audit \subseteq [URL : URLs, Class : classificationClasses \cup {""},
                        Confidence : 0..100 \cup {NaN}]
    /\ heard \subseteq [url : URLs, prompt : Prompts, answer : Responses]
    /\ failed \subseteq URLs /\ missed \subseteq Callers
    /\ after \in [Callers -> SUBSET Callers]

\* What the classifier was heard to say about an image.
saidOf(u) == {ParseClassificationResult(h.answer) : h \in {x \in heard : x.url = u}}

\* Whatever a call returns, from the cache or not, is what the classifier said of
\* this very image to some call, or is empty because an attempt on this image
\* failed or there is no classifier.  In particular nothing but an answer about
\* the image makes IsRealPhoto false: failures never block.
ResultHasCause ==
    \A c \in returned :
        \/ result[c] \in saidOf(req[c].url)
        \/ result[c] = Empty /\ (req[c].Classifier => req[c].url \in failed)

\* An image is only turned down for a class that the audit log holds with the
\* same confidence: the callback of the call that asked was told, even when
\* another call is the one that uses the class.
RejectionAudited ==
    \A c \in returned : ~IsRealPhoto(c) => event(req[c].url, result[c]) \in audit

usesCache(c) == req[c].Classifier /\ req[c].Cache

\* As long as the cache keeps its entries, a call that begins after one on the
\* same image returned never downloads or asks again, even when that one failed.
AskedOnceSettled ==
    lossy \/ \A c \in missed : \A d \in after[c] :
                 ~(usesCache(c) /\ usesCache(d) /\ req[c].url = req[d].url)

inFlight(u) == {c \in Callers : /\ usesCache(c) /\ req[c].url = u
                                /\ pc[c] \in {"fetch", "ask", "store"}}
settled(u)  == cache[u] # NotCached /\ inFlight(u) = {}

\* Calls that overlap may overwrite each other's verdict, an answer with a failure
\* included.  That ends with the last of them: once the cache holds a verdict and
\* no call on the image is under way, every later call gets that verdict.
VerdictSettles ==
    [][\A u \in URLs : ~lossy /\ settled(u) => settled(u)' /\ cache'[u] = cache[u]]_vars

\* classify.go:11, "Uses Config.VisionPrompt if set, otherwise DefaultVisionPrompt":
\* the class a call returns was given to the prompt of its configuration.
OwnPromptDecides ==
    \A c \in returned : result[c].Class # "" =>
        \E h \in heard : /\ h.url = req[c].url /\ h.prompt = prompt(req[c])
                         /\ ParseClassificationResult(h.answer) = result[c]

\* README.md:110 shows a custom prompt and the classes its caller reads from the
\* result, SAFE, NSFW and VIOLENCE: an answer heard for a call without a cache
\* reaches the caller with its label.
CustomLabelReturned ==
    \A c \in missed : pc[c] = "done" /\ ~req[c].Cache /\ req[c].url \notin failed =>
        \E h \in heard : h.url = req[c].url /\ h.answer.label = result[c].Class

\* classify_types.go:100, "Confidence must be in (0, 1]; otherwise it is set to 0".
ConfidenceInRange == \A c \in returned : result[c].Confidence \in 0..100
==============================================================================
