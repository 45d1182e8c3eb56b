---------------------------- MODULE ClassifyProofs ----------------------------
(***************************************************************************)
(* Classification over a shared cache, for any number of callers, every    *)
(* request, every response of the classifier and a cache that keeps or     *)
(* loses its entries.                                                      *)
(***************************************************************************)
EXTENDS Classify, TLAPS

\* Why a result about an image is what it is.
explained(u, r) == r \in saidOf(u) \/ (r = Empty /\ u \in failed)

\* Every result that was reached, and every one that is cached, is explained.
Causes ==
    /\ \A c \in Callers : pc[c] \in {"start", "fetch", "ask"} => result[c] = Empty
    /\ \A c \in Callers : pc[c] \in {"fetch", "ask", "store"} => req[c].Classifier
    /\ \A c \in Callers : pc[c] = "store" => explained(req[c].url, result[c])
    /\ \A c \in Callers : pc[c] = "done" =>
          \/ explained(req[c].url, result[c])
          \/ result[c] = Empty /\ ~req[c].Classifier
    /\ \A u \in URLs : cache[u] # NotCached => explained(u, cache[u])

\* Every answer was reported.
Reported == \A h \in heard : event(h.url, ParseClassificationResult(h.answer)) \in audit

\* A cache that loses nothing holds an entry for every call that returned.
Kept == ~lossy => \A d \in Callers : pc[d] = "done" /\ usesCache(d) => cache[req[d].url] # NotCached

Inv == TypeOK /\ Causes /\ Reported /\ Kept /\ AskedOnceSettled

-----------------------------------------------------------------------------

\* What is known of a request.
LEMMA RequestFacts ==
    ASSUME NEW r \in Requests
    PROVE  /\ r.url \in URLs /\ cacheKey(r) = r.url /\ prompt(r) \in Prompts
           /\ r.Classifier \in BOOLEAN /\ r.Cache \in BOOLEAN
<1>1. r.url \in URLs /\ cacheKey(r) = r.url
  BY DEF URLs, cacheKey
<1>2. prompt(r) \in Prompts
  BY ClassifyAssumption DEF prompt
<1>3. r.Classifier \in BOOLEAN /\ r.Cache \in BOOLEAN
  BY ClassifyAssumption
<1> QED
  BY <1>1, <1>2, <1>3

\* ParseClassificationResult returns a class of the library, or nothing.
LEMMA ParseType ==
    ASSUME NEW a \in Responses
    PROVE  ParseClassificationResult(a) \in Result
<1>1. a.number \in Int \cup {NaN, NoNumber}
  BY ClassifyAssumption
<1>2. confidence(a.number) \in 0..100 \cup {NaN}
  BY <1>1, ClassifyAssumption DEF confidence, outOfRange
<1>3. Empty \in Result
  BY DEF Empty, Result
<1> QED
  BY <1>2, <1>3 DEF ParseClassificationResult, Result

\* A result is not the mark of an absent entry.
LEMMA ResultIsNotAbsent == Empty \in Result /\ NotCached \notin Result
BY DEF Empty, NotCached, Result, classificationClasses

\* Init establishes the invariant.
LEMMA InitInv == Init => Inv
<1> SUFFICES ASSUME Init PROVE Inv
  OBVIOUS
<1>1. TypeOK
  BY ResultIsNotAbsent DEF Init, TypeOK
<1>2. Causes
  BY <1>1 DEF Init, Causes, TypeOK
<1>3. Reported /\ Kept /\ AskedOnceSettled
  BY DEF Init, Reported, Kept, AskedOnceSettled
<1> QED
  BY <1>1, <1>2, <1>3 DEF Inv

\* The explanations of the next state.
explainedNext(u, r) ==
    \/ r \in {ParseClassificationResult(h.answer) : h \in {x \in heard' : x.url = u}}
    \/ r = Empty /\ u \in failed'

\* What explains a result goes on explaining it.
LEMMA ExplainedStays ==
    ASSUME heard \subseteq heard', failed \subseteq failed'
    PROVE  \A u, r : explained(u, r) => explainedNext(u, r)
BY DEF explained, explainedNext, saidOf

\* Causes in the next state, with the explanations of the next state.
LEMMA CausesNext ==
    ASSUME \A c \in Callers : pc'[c] \in {"start", "fetch", "ask"} => result'[c] = Empty,
           \A c \in Callers : pc'[c] \in {"fetch", "ask", "store"} => req'[c].Classifier,
           \A c \in Callers : pc'[c] = "store" => explainedNext(req'[c].url, result'[c]),
           \A c \in Callers : pc'[c] = "done" =>
              \/ explainedNext(req'[c].url, result'[c])
              \/ result'[c] = Empty /\ ~req'[c].Classifier,
           \A u \in URLs : cache'[u] # NotCached => explainedNext(u, cache'[u])
    PROVE  Causes'
BY Zenon DEF Causes, explained, explainedNext, saidOf

\* Every step keeps the types.
LEMMA TypeStep == TypeOK /\ [Next]_vars => TypeOK'
<1> SUFFICES ASSUME TypeOK, [Next]_vars PROVE TypeOK'
  OBVIOUS
<1> USE ResultIsNotAbsent DEF TypeOK, given, history
<1>1. CASE \E c \in Callers : Step(c)
  <2>1. PICK c \in Callers : Step(c)
    BY <1>1
  <2>r. req[c] \in Requests /\ req[c].url \in URLs /\ cacheKey(req[c]) = req[c].url
        /\ prompt(req[c]) \in Prompts
    BY RequestFacts
  <2>2. CASE NoClassifier(c)
    BY <2>2 DEF NoClassifier, Goto
  <2>3. CASE Hit(c)
    BY <2>3, <2>r DEF Hit, Goto
  <2>4. CASE Miss(c)
    BY <2>4, <2>r DEF Miss, Goto, returned
  <2>5. CASE doClassifyFull(c)
    BY <2>5, <2>r DEF doClassifyFull, NoAnswer, Goto
  <2>6. CASE \E a \in Responses : Answer(c, a)
    <3>1. PICK a \in Responses : Answer(c, a)
      BY <2>6
    <3>2. ParseClassificationResult(a) \in Result
      BY ParseType
    <3>3. event(req[c].url, ParseClassificationResult(a))
            \in [URL : URLs, Class : classificationClasses \cup {""}, Confidence : 0..100 \cup {NaN}]
      BY <3>2, <2>r DEF event, Result
    <3>4. heard' \subseteq [url : URLs, prompt : Prompts, answer : Responses]
      <4>1. [url |-> req[c].url, prompt |-> prompt(req[c]), answer |-> a]
              \in [url : URLs, prompt : Prompts, answer : Responses]
        BY <2>r
      <4> QED
        BY <3>1, <4>1, Zenon DEF Answer, Told
    <3>5. result' \in [Callers -> Result] /\ pc' \in [Callers -> {"start", "fetch", "ask", "store", "done"}]
      BY <3>1, <3>2 DEF Answer, Told, Goto
    <3>6. audit' \subseteq [URL : URLs, Class : classificationClasses \cup {""}, Confidence : 0..100 \cup {NaN}]
      BY <3>1, <3>3, Zenon DEF Answer
    <3> QED
      BY <3>1, <3>4, <3>5, <3>6 DEF Answer, Told
  <2>7. CASE ClassifierFails(c)
    BY <2>7, <2>r DEF ClassifierFails, NoAnswer, Goto
  <2>8. CASE Store(c)
    BY <2>8, <2>r DEF Store, Goto
  <2> QED
    BY <2>1, <2>2, <2>3, <2>4, <2>5, <2>6, <2>7, <2>8 DEF Step
<1>2. CASE \E u \in URLs : Evict(u)
  BY <1>2 DEF Evict
<1>3. CASE Finished \/ UNCHANGED vars
  BY <1>3 DEF Finished, vars
<1> QED
  BY <1>1, <1>2, <1>3 DEF Next

\* Every step keeps results and cache entries explained.
LEMMA CausesStep == TypeOK /\ Causes /\ [Next]_vars => Causes'
<1> SUFFICES ASSUME TypeOK, Causes, [Next]_vars PROVE Causes'
  OBVIOUS
<1> USE ResultIsNotAbsent DEF TypeOK, given, history, Causes
<1>1. CASE \E c \in Callers : Step(c)
  <2>1. PICK c \in Callers : Step(c)
    BY <1>1
  <2>r. req[c] \in Requests /\ req[c].url \in URLs /\ cacheKey(req[c]) = req[c].url
    BY RequestFacts
  <2>h. heard \subseteq heard' /\ failed \subseteq failed'
    BY <2>1 DEF Step, NoClassifier, Hit, Miss, doClassifyFull, NoAnswer, Answer, Told,
                ClassifierFails, Store
  <2>e. \A u, r : explained(u, r) => explainedNext(u, r)
    BY <2>h, ExplainedStays
  <2>f. req[c].url \in failed' => explainedNext(req[c].url, Empty)
    BY DEF explainedNext
  <2>2. CASE NoClassifier(c)
    BY <2>2, <2>e, CausesNext DEF NoClassifier, Goto
  <2>3. CASE Hit(c)
    BY <2>3, <2>r, <2>e, CausesNext DEF Hit, Goto
  <2>4. CASE Miss(c)
    BY <2>4, <2>r, <2>e, CausesNext DEF Miss, Goto
  <2>5. CASE doClassifyFull(c)
    BY <2>5, <2>r, <2>e, <2>f, CausesNext DEF doClassifyFull, NoAnswer, Goto
  <2>6. CASE \E a \in Responses : Answer(c, a)
    <3>1. PICK a \in Responses : Answer(c, a)
      BY <2>6
    <3>2. explainedNext(req[c].url, ParseClassificationResult(a))
      <4> DEFINE h == [url |-> req[c].url, prompt |-> prompt(req[c]), answer |-> a]
      <4>1. h \in heard' /\ h.url = req[c].url /\ h.answer = a
        BY <3>1 DEF Answer, Told
      <4> QED
        BY <4>1, Zenon DEF explainedNext
    <3> QED
      BY <3>1, <3>2, <2>r, <2>e, CausesNext DEF Answer, Told, Goto
  <2>7. CASE ClassifierFails(c)
    BY <2>7, <2>r, <2>e, <2>f, CausesNext DEF ClassifierFails, NoAnswer, Goto
  <2>8. CASE Store(c)
    <3>1. \A d \in Callers : pc'[d] \in {"start", "fetch", "ask"} => result'[d] = Empty
      BY <2>8 DEF Store, Goto
    <3>2. \A d \in Callers : pc'[d] \in {"fetch", "ask", "store"} => req'[d].Classifier
      BY <2>8 DEF Store, Goto
    <3>3. explainedNext(req[c].url, result[c])
      BY <2>8, <2>e DEF Store
    <3>4. \A d \in Callers : pc'[d] = "store" => explainedNext(req'[d].url, result'[d])
      BY <2>8, <2>e DEF Store, Goto
    <3>5. \A d \in Callers : pc'[d] = "done" =>
              \/ explainedNext(req'[d].url, result'[d])
              \/ result'[d] = Empty /\ ~req'[d].Classifier
      BY <2>8, <2>e, <3>3 DEF Store, Goto
    <3>6. \A u \in URLs : cache'[u] # NotCached => explainedNext(u, cache'[u])
      BY <2>8, <2>e, <2>r, <3>3 DEF Store
    <3> QED
      BY <3>1, <3>2, <3>4, <3>5, <3>6, CausesNext, Zenon
  <2> QED
    BY <2>1, <2>2, <2>3, <2>4, <2>5, <2>6, <2>7, <2>8 DEF Step
<1>2. CASE \E u \in URLs : Evict(u)
  <2>1. \A u, r : explained(u, r) => explainedNext(u, r)
    BY <1>2, ExplainedStays DEF Evict
  <2> QED
    BY <1>2, <2>1, CausesNext DEF Evict
<1>3. CASE Finished \/ UNCHANGED vars
  <2>1. \A u, r : explained(u, r) => explainedNext(u, r)
    BY <1>3, ExplainedStays DEF Finished, vars
  <2> QED
    BY <1>3, <2>1, CausesNext DEF Finished, vars
<1> QED
  BY <1>1, <1>2, <1>3 DEF Next

\* Every step keeps the audit log complete.
LEMMA ReportedStep == Reported /\ [Next]_vars => Reported'
<1> SUFFICES ASSUME Reported, [Next]_vars PROVE Reported'
  OBVIOUS
<1> USE DEF given, history, Reported
<1>1. ASSUME NEW c \in Callers, NEW a \in Responses, Answer(c, a)
      PROVE  Reported'
  <2> DEFINE h == [url |-> req[c].url, prompt |-> prompt(req[c]), answer |-> a]
  <2>1. heard' = heard \cup {h} /\ audit' = audit \cup {event(req[c].url, ParseClassificationResult(a))}
    BY <1>1 DEF Answer, Told
  <2>2. h.url = req[c].url /\ h.answer = a
    OBVIOUS
  <2> HIDE DEF h
  <2>3. SUFFICES ASSUME NEW x \in heard' PROVE event(x.url, ParseClassificationResult(x.answer)) \in audit'
    BY Zenon DEF event
  <2>4. CASE x \in heard
    BY <2>1, <2>4
  <2>5. CASE x = h
    BY <2>1, <2>2, <2>5
  <2> QED
    BY <2>1, <2>4, <2>5
<1>2. heard' = heard /\ audit' = audit => Reported'
  BY DEF event
<1> QED
  BY <1>1, <1>2 DEF Next, Step, NoClassifier, Hit, Miss, doClassifyFull, NoAnswer, ClassifierFails,
                    Store, Evict, Finished, vars

\* A cache that loses nothing: an entry stays, and every call that uses the cache
\* leaves one; so no call after it misses.
LEMMA KeptStep == TypeOK /\ Causes /\ Kept /\ [Next]_vars => Kept'
<1> SUFFICES ASSUME TypeOK, Causes, Kept, [Next]_vars, ~lossy',
                    NEW d \in Callers, pc'[d] = "done", usesCache(d)'
             PROVE  cache'[req'[d].url] # NotCached
  BY DEF Kept
<1>g. UNCHANGED given
  BY DEF Next, Step, NoClassifier, Hit, Miss, doClassifyFull, NoAnswer, Answer, Told,
         ClassifierFails, Store, Evict, Finished, vars, given
<1>0. /\ ~lossy /\ usesCache(d) /\ req' = req
      /\ \A x \in Callers : req[x] \in Requests /\ req[x].url \in URLs /\ cacheKey(req[x]) = req[x].url
  BY <1>g, RequestFacts DEF usesCache, given, TypeOK
<1>1. pc[d] = "done" => cache[req[d].url] # NotCached
  BY <1>0 DEF Kept
<1> USE ResultIsNotAbsent DEF TypeOK
<1>2. CASE \E c \in Callers : Store(c)
  <2>1. PICK c \in Callers : Store(c)
    BY <1>2
  <2>2. result[c] # NotCached
    BY <2>1
  <2>3. CASE d = c
    BY <2>1, <2>2, <2>3, <1>0 DEF Store, usesCache
  <2>4. CASE d # c
    BY <2>1, <2>2, <2>4, <1>0, <1>1 DEF Store, Goto
  <2> QED
    BY <2>3, <2>4
<1>3. CASE UNCHANGED cache /\ (pc[d] = "done" \/ cache[req[d].url] # NotCached)
  BY <1>0, <1>1, <1>3
<1>4. ASSUME NEW c \in Callers, Step(c), ~Store(c)
      PROVE  UNCHANGED cache /\ (pc[d] = "done" \/ cache[req[d].url] # NotCached)
  BY <1>4, <1>0 DEF Step, NoClassifier, Hit, Miss, doClassifyFull, NoAnswer, Answer, Told,
                    ClassifierFails, Goto, given, history, usesCache
<1>5. CASE Finished \/ UNCHANGED vars
  BY <1>5, <1>3 DEF Finished, vars
<1> QED
  BY <1>0, <1>2, <1>3, <1>4, <1>5 DEF Next, Evict

\* So no call misses after a call on the same image returned.
LEMMA AskedStep == TypeOK /\ Kept /\ AskedOnceSettled /\ [Next]_vars => AskedOnceSettled'
<1> SUFFICES ASSUME TypeOK, Kept, AskedOnceSettled, [Next]_vars PROVE AskedOnceSettled'
  OBVIOUS
<1>1. ASSUME NEW c \in Callers, Miss(c) PROVE AskedOnceSettled'
  <2>0. req' = req /\ lossy' = lossy
    BY <1>1 DEF Miss, given
  <2>1. SUFFICES ASSUME ~lossy, NEW x \in missed', NEW d \in after'[x],
                        usesCache(x), usesCache(d), req[x].url = req[d].url
                 PROVE  FALSE
    BY <2>0 DEF AskedOnceSettled, usesCache
  <2>2. CASE x = c
    <3>1. d \in Callers /\ pc[d] = "done"
      BY <1>1, <2>2 DEF Miss, returned, TypeOK
    <3>2. cache[req[d].url] # NotCached
      BY <3>1, <2>1 DEF Kept
    <3>3. cache[req[c].url] = NotCached
      BY <1>1, <2>1, <2>2 DEF Miss, usesCache, cacheKey
    <3> QED
      BY <2>1, <2>2, <3>2, <3>3
  <2>3. CASE x # c
    <3>1. x \in missed /\ d \in after[x]
      BY <1>1, <2>3 DEF Miss, TypeOK
    <3> QED
      BY <2>1, <3>1 DEF AskedOnceSettled
  <2> QED
    BY <2>2, <2>3
<1>2. CASE UNCHANGED <<req, lossy, missed, after>>
  BY <1>2 DEF AskedOnceSettled, usesCache
<1>3. (\E c \in Callers : Miss(c)) \/ UNCHANGED <<req, lossy, missed, after>>
  BY DEF Next, Step, NoClassifier, Hit, doClassifyFull, NoAnswer, Answer, Told,
         ClassifierFails, Store, Evict, Finished, vars, given, history
<1> QED
  BY <1>1, <1>2, <1>3

\* Inv is an invariant of the specification.
LEMMA Invariant == Spec => []Inv
<1>1. Inv /\ [Next]_vars => Inv'
  BY TypeStep, CausesStep, ReportedStep, KeptStep, AskedStep DEF Inv
<1> QED
  BY InitInv, <1>1, PTL DEF Spec

-----------------------------------------------------------------------------

\* Results and cache entries have the types TypeOK gives them, whatever the
\* classifier answers (ParseClassificationResult).
THEOREM ClassifyTypeCorrect == Spec => []TypeOK
<1>1. Inv => TypeOK
  BY DEF Inv
<1> QED
  BY Invariant, <1>1, PTL

\* Whatever ClassifyImageFull or classifyPredownloaded returns was said of this
\* image, or is empty for a reason.
THEOREM ResultsHaveCauses == Spec => []ResultHasCause
<1>1. Inv => ResultHasCause
  BY DEF Inv, Causes, explained, ResultHasCause, returned
<1> QED
  BY Invariant, <1>1, PTL

\* No image is turned down for a class the audit log (OnClassification) was not told.
THEOREM RejectionsAreAudited == Spec => []RejectionAudited
<1>1. ASSUME Inv, NEW c \in returned, ~IsRealPhoto(c)
      PROVE  event(req[c].url, result[c]) \in audit
  <2>1. result[c] # Empty
    <3>1. Empty.Class = ""
      BY DEF Empty
    <3>2. result[c].Class # ""
      BY <1>1, Zenon DEF IsRealPhoto
    <3> QED
      BY <3>1, <3>2, Zenon
  <2>2. PICK h \in heard : h.url = req[c].url /\ ParseClassificationResult(h.answer) = result[c]
    BY <1>1, <2>1, Zenon DEF Inv, Causes, explained, saidOf, returned
  <2> QED
    BY <1>1, <2>2 DEF Inv, Reported
<1>2. Inv => RejectionAudited
  BY <1>1 DEF RejectionAudited
<1> QED
  BY Invariant, <1>2, PTL

\* With a cache that keeps its entries, no call that begins after another on the
\* same image has returned downloads it or asks the classifier again.
THEOREM SettledIsNotAskedAgain == Spec => []AskedOnceSettled
<1>1. Inv => AskedOnceSettled
  BY DEF Inv
<1> QED
  BY Invariant, <1>1, PTL

\* With such a cache, the verdict on an image does not change any more once no
\* call on it is between its miss and its store.
THEOREM VerdictsSettle == Spec => VerdictSettles
<1>1. ASSUME Inv, Inv', [Next]_vars, NEW u \in URLs, ~lossy, settled(u)
      PROVE  settled(u)' /\ cache'[u] = cache[u]
  <2>0. /\ TypeOK /\ cache[u] # NotCached
        /\ \A c \in Callers : usesCache(c) /\ req[c].url = u => pc[c] \notin {"fetch", "ask", "store"}
        /\ \A c \in Callers : cacheKey(req[c]) = req[c].url
    BY <1>1 DEF Inv, settled, inFlight, cacheKey
  <2>1. SUFFICES /\ req' = req /\ cache'[u] = cache[u]
                 /\ \A c \in Callers : usesCache(c) /\ req[c].url = u
                                       => pc'[c] \notin {"fetch", "ask", "store"}
    BY <2>0 DEF settled, inFlight, usesCache
  <2>2. req' = req
    BY <1>1 DEF Next, Step, NoClassifier, Hit, Miss, doClassifyFull, NoAnswer, Answer, Told,
                ClassifierFails, Store, Evict, Finished, vars, given
  <2>3. cache'[u] = cache[u]
    <3>1. ASSUME NEW c \in Callers, Store(c) PROVE cache'[u] = cache[u]
      <4>1. req[c].Cache => req[c].url # u
        BY <3>1, <2>0, <1>1 DEF Store, usesCache, Inv, Causes
      <4> QED
        BY <3>1, <4>1, <2>0 DEF Store, TypeOK
    <3>2. (\E c \in Callers : Store(c)) \/ UNCHANGED cache
      BY <1>1 DEF Next, Step, NoClassifier, Hit, Miss, doClassifyFull, NoAnswer, Answer, Told,
                  ClassifierFails, Evict, Finished, vars, given, history
    <3> QED
      BY <3>1, <3>2
  <2>4. ASSUME NEW d \in Callers, usesCache(d), req[d].url = u
        PROVE  pc'[d] \notin {"fetch", "ask", "store"}
    <3>1. ~Miss(d) /\ pc[d] \notin {"fetch", "ask", "store"}
      BY <2>0, <2>4 DEF Miss, usesCache
    <3>2. ASSUME NEW c \in Callers, Step(c) PROVE pc'[d] = pc[d] \/ pc'[d] = "done"
      BY <3>1, <3>2, <2>0 DEF TypeOK, Step, NoClassifier, Hit, Miss, doClassifyFull, NoAnswer,
             Answer, Told, ClassifierFails, Store, Goto
    <3> QED
      BY <1>1, <3>1, <3>2 DEF Next, Evict, Finished, vars
  <2> QED
    BY <2>2, <2>3, <2>4
<1>2. Inv /\ Inv' /\ [Next]_vars =>
        [\A u \in URLs : ~lossy /\ settled(u) => settled(u)' /\ cache'[u] = cache[u]]_vars
  BY <1>1
<1> QED
  BY Invariant, <1>2, PTL DEF Spec, VerdictSettles
==============================================================================
