---------------------------- MODULE SearchProofs -----------------------------
(***************************************************************************)
(* The entry points for every list of providers, every answer and every    *)
(* order in which the answers arrive.  Gather says where the provider      *)
(* goroutines can be and that the merged list is the answers of those that *)
(* are done; Handed carries this to validation and through its choices.    *)
(* Placed says that each answer stands in the merged list unbroken: with   *)
(* what the sort does to such a block this gives the ranking.  Laid says   *)
(* that the list holds nothing but those answers, each place once.         *)
(* Fetched counts the requests for the page.                               *)
(***************************************************************************)
EXTENDS Search, SequenceTheorems, FiniteSetTheorems, TLAPS

doneProcs   == {p \in Procs : gpc[p] = "done"}
answersOf(P) == UNION {Range(found[p]) : p \in P}

Gather ==
    /\ TypeOK
    /\ main \in {"begin", "merging", "validating", "returned"} =>
          \A p \in Procs : gpc[p] \in {"unstarted", "done"}
    /\ main = "begin" => \A p \in Procs : gpc[p] = "unstarted"
    /\ req.entry = "ValidateCandidates" => \A p \in Procs : gpc[p] = "unstarted"
    /\ \A p \in Procs : gpc[p] \in {"unstarted", "searching"} => found[p] = <<>>
    /\ Range(all) = answersOf(doneProcs)
    /\ req.entry # "FindImages" \/ main \in {"begin", "gathering"} => page = <<>>
    /\ req.entry = "ValidateCandidates" => main \in {"begin", "validating", "returned"}
    /\ main = "merging" => req.entry = "FindImages"

Handed ==
    /\ main \in {"begin", "gathering", "merging", "crashed"} => ~handedOver
    /\ ~handedOver => chosen = <<>>
    /\ handedOver => /\ Range(call.toValidate) = offered
                     /\ call.toValidate \in Seq(Candidates)
                     /\ call.maxResults = effectiveMax
    /\ chosen \in Seq([idx : Nat, look : Hashes \cup {NoImage}])
    /\ \A k \in 1..Len(chosen) :
          /\ chosen[k].idx \in 1..Len(call.toValidate)
          /\ Admissible(call.cfg, call.toValidate[chosen[k].idx])
    /\ chosen = <<>> \/ Len(chosen) <= call.maxResults

-----------------------------------------------------------------------------
(* Facts about the call, and about lists *)

\* The providers of a request, and what they may answer.
LEMMA RequestFacts ==
    ASSUME req \in Requests
    PROVE  /\ providers \in Seq(Names) /\ Len(providers) \in Nat
           /\ \A p \in Procs : Answers(providers[p]) \subseteq Seq(Candidates)
           /\ req.External \in Seq(Candidates)
           /\ effectiveMax \in Int
<1>1. req.cfg.Providers \in Seq(Names) /\ req.External \in Seq(Candidates) /\ req.maxResults \in Int
  BY RequestAssumption
<1>2. <<"searxng">> \in Seq(Names) /\ <<>> \in Seq(Names)
  BY AnswerAssumption
<1>3. providers \in Seq(Names) /\ Len(providers) \in Nat
  BY <1>1, <1>2, LenProperties DEF providers, resolveProviders
<1>4. \A p \in Procs : providers[p] \in Names
  BY <1>3, ElementOfSeq DEF Procs
<1>5. \A p \in Procs : Answers(providers[p]) \subseteq Seq(Candidates)
  BY <1>4, AnswerAssumption
<1>6. effectiveMax \in Int
  BY <1>1 DEF effectiveMax, findDefaultMaxResults
<1> QED BY <1>1, <1>3, <1>5, <1>6

\* Joining two lists joins what is in them.
LEMMA RangeConcat ==
    ASSUME NEW S, NEW s \in Seq(S), NEW t \in Seq(S)
    PROVE  s \o t \in Seq(S) /\ Range(s \o t) = Range(s) \cup Range(t)
<1>1. s \o t \in Seq(S) /\ Len(s \o t) = Len(s) + Len(t)
  OBVIOUS
<1>2. \A k \in 1..Len(s) : (s \o t)[k] = s[k]
  OBVIOUS
<1>3. \A k \in 1..Len(t) : (s \o t)[Len(s) + k] = t[k]
  OBVIOUS
<1>4. ASSUME NEW k \in 1..(Len(s) + Len(t)) PROVE (s \o t)[k] \in Range(s) \cup Range(t)
  <2>1. CASE k \in 1..Len(s)
    BY <1>2, <2>1 DEF Range
  <2>2. CASE k \notin 1..Len(s)
    <3>1. k - Len(s) \in 1..Len(t) /\ k = Len(s) + (k - Len(s))
      BY <2>2
    <3> QED BY <1>3, <3>1 DEF Range
  <2> QED BY <2>1, <2>2
<1>5. ASSUME NEW k \in 1..Len(s) PROVE s[k] \in Range(s \o t)
  BY <1>1, <1>2 DEF Range
<1>6. ASSUME NEW k \in 1..Len(t) PROVE t[k] \in Range(s \o t)
  <2>1. Len(s) + k \in 1..Len(s \o t)
    BY <1>1
  <2> QED BY <1>1, <1>3, <2>1 DEF Range
<1>7. DOMAIN s = 1..Len(s) /\ DOMAIN t = 1..Len(t) /\ DOMAIN (s \o t) = 1..(Len(s) + Len(t))
  BY <1>1
<1> QED BY <1>1, <1>4, <1>5, <1>6, <1>7, Zenon DEF Range

\* Sorting a list changes neither its length nor what is in it.
LEMMA RangeSorted ==
    ASSUME NEW S, NEW s \in Seq(S), s # <<>>, NEW f \in stableOrders(s)
    PROVE  LET t == [k \in 1..Len(s) |-> s[f[k]]]
           IN t \in Seq(S) /\ Range(t) = Range(s) /\ t # <<>>
<1> DEFINE D == 1..Len(s)
           t == [k \in D |-> s[f[k]]]
<1>1. f \in Bijection(D, D)
  BY DEF stableOrders
<1>2. f \in [D -> D] /\ \A d \in D : \E k \in D : f[k] = d
  BY <1>1 DEF Bijection, Injection, Surjection
<1>3. \A k \in D : s[k] \in S
  BY ElementOfSeq
<1>4. Len(s) \in Nat /\ Len(s) > 0 /\ DOMAIN s = D
  BY EmptySeq
<1>5. t \in Seq(S) /\ Len(t) = Len(s)
  BY <1>2, <1>3, <1>4
<1>6. Range(t) = Range(s)
  BY <1>2, <1>4 DEF Range
<1> QED BY <1>4, <1>5, <1>6

\* What a call offers, source by source.
LEMMA OfferedParts ==
    ASSUME TypeOK
    PROVE  offered = answersOf(Procs) \cup Range(page)
                     \cup (IF req.entry = "SearchImagesWithOpts" THEN {} ELSE Range(req.External))
<1> DEFINE own == IF req.entry = "SearchImagesWithOpts" THEN {} ELSE {req.External}
<1>1. Range(found) = {found[p] : p \in Procs}
  BY DEF TypeOK, Range
<1>2. sources = {found[p] : p \in Procs} \cup {page} \cup own
  BY <1>1 DEF sources
<1> HIDE DEF own
<1>3. offered = answersOf(Procs) \cup Range(page) \cup UNION {Range(s) : s \in own}
  BY <1>2, Zenon DEF offered, answersOf
<1>4. UNION {Range(s) : s \in own}
         = IF req.entry = "SearchImagesWithOpts" THEN {} ELSE Range(req.External)
  BY Zenon DEF own
<1> QED BY <1>3, <1>4

-----------------------------------------------------------------------------
(* Gathering *)

\* A step that moves no provider goroutine and leaves the lists alone.
Idle == UNCHANGED <<req, gpc, found, all>>

\* A finished goroutine whose answer is in the list: the list is still the answers.
LEMMA AppendKeepsAnswers ==
    ASSUME TypeOK, NEW p \in Procs, gpc[p] # "done", Range(all) = answersOf(doneProcs),
           gpc' = [gpc EXCEPT ![p] = "done"], UNCHANGED <<req, found>>,
           Range(all') = Range(all) \cup Range(found[p])
    PROVE  Range(all') = answersOf(doneProcs)'
<1>1. Procs' = Procs /\ p \in DOMAIN gpc
  BY DEF Procs, providers, resolveProviders, TypeOK
<1>2. doneProcs' = doneProcs \cup {p}
  BY <1>1 DEF doneProcs, TypeOK
<1>3. answersOf(doneProcs)' = answersOf(doneProcs) \cup Range(found[p])
  BY <1>2, Zenon DEF answersOf
<1> QED BY <1>3

\* Init establishes Gather.
LEMMA GatherInit == Init => Gather
<1> SUFFICES ASSUME Init PROVE Gather
  OBVIOUS
<1>0. /\ req \in Requests /\ expired = FALSE /\ main = "begin" /\ blind = FALSE
      /\ gpc = [p \in Procs |-> "unstarted"] /\ found = [p \in Procs |-> <<>>]
      /\ all = <<>> /\ page = <<>> /\ fetches = 0 /\ closed = FALSE
  BY DEF Init, NoAnswer, Sel!Init
<1>1. <<>> \in Seq(Candidates) /\ Range(<<>>) = {}
  BY DEF Range
<1>2. TypeOK
  BY <1>0, <1>1, Zenon DEF TypeOK
<1>3. doneProcs = {}
  BY <1>0 DEF doneProcs
<1>4. Range(all) = answersOf(doneProcs)
  BY <1>0, <1>1, <1>3 DEF answersOf
<1> QED BY <1>0, <1>2, <1>4 DEF Gather

\* Every step keeps Gather.
LEMMA GatherNext == Gather /\ [Next]_vars => Gather'
<1> SUFFICES ASSUME Gather, [Next]_vars PROVE Gather'
  OBVIOUS
<1> USE DEF selection
<1>0. TypeOK /\ req \in Requests
  BY DEF Gather, TypeOK
<1>a. ASSUME req' = req PROVE Procs' = Procs /\ providers' = providers /\ asks' = asks
  BY <1>a DEF Procs, providers, resolveProviders, asks
<1>b. ASSUME Idle
      PROVE  /\ Procs' = Procs /\ Range(all') = answersOf(doneProcs)'
             /\ \A p \in Procs : gpc'[p] \in {"unstarted", "searching"} => found'[p] = <<>>
             /\ found' \in [Procs' -> Seq(Candidates)] /\ all' \in Seq(Candidates)
             /\ gpc' \in [Procs' -> {"unstarted", "searching", "append", "done"}]
  BY <1>a, <1>b DEF Idle, Gather, TypeOK, doneProcs, answersOf, Procs
<1>1. CASE ValidateCandidates \/ EmptyQuery
  <2>1. /\ Idle /\ main = "begin" /\ main' \in {"validating", "returned"}
        /\ closed' = closed /\ blind' \in {blind, expired}
        /\ UNCHANGED <<expired, page, fetches>>
    BY <1>1 DEF ValidateCandidates, EmptyQuery, Validate, ReturnNil, Idle
  <2> QED BY <1>b, <2>1 DEF Gather, TypeOK, Idle
<1>2. CASE StartProviders
  <2>0. /\ UNCHANGED <<req, expired, found, all, page, blind, closed>>
        /\ main = "begin" /\ main' = "gathering" /\ asks
        /\ gpc' = [p \in Procs |-> "searching"]
        /\ fetches' \in {0, Cardinality({p \in Procs : providers[p] \in {"content", "og"}})}
    BY <1>2, Zenon DEF StartProviders
  <2>1. fetches' \in Nat
    <3>1. IsFiniteSet(Procs)
      BY <1>0, RequestFacts, FS_Interval DEF Procs
    <3> QED BY <2>0, <3>1, FS_Subset, FS_CardinalityType
  <2>2. doneProcs = {} /\ doneProcs' = {}
    BY <2>0, <1>a DEF Gather, doneProcs
  <2>3. Range(all') = answersOf(doneProcs)'
    <3>1. Range(all) = {}
      BY <2>2 DEF Gather, answersOf
    <3> QED BY <2>0, <2>2, <3>1 DEF answersOf
  <2> QED BY <1>a, <2>0, <2>1, <2>3 DEF Gather, TypeOK, asks
<1>3. ASSUME NEW p \in Procs, Answer(p) PROVE Gather'
  <2>0. /\ UNCHANGED <<req, expired, main, all, page, fetches, blind, closed>>
        /\ gpc[p] = "searching" /\ gpc' = [gpc EXCEPT ![p] = "append"]
    BY <1>3 DEF Answer
  <2>1. PICK list \in Seq(Candidates) : found' = [found EXCEPT ![p] = list]
    BY <1>0, <1>3, RequestFacts, Zenon DEF Answer
  <2>2. doneProcs' = doneProcs
    BY <1>a, <2>0, <1>0 DEF doneProcs, TypeOK
  <2>3. \A q \in doneProcs : found'[q] = found[q]
    BY <2>0, <2>1, <1>0 DEF doneProcs, TypeOK
  <2>4. Range(all') = answersOf(doneProcs)'
    <3>1. answersOf(doneProcs)' = UNION {Range(found'[q]) : q \in doneProcs}
      BY <2>2 DEF answersOf
    <3> QED BY <2>0, <2>3, <3>1 DEF Gather, answersOf
  <2>5. TypeOK'
    BY <1>a, <2>0, <2>1 DEF Gather, TypeOK
  <2> QED BY <1>a, <2>0, <2>1, <2>4, <2>5 DEF Gather, TypeOK
<1>4. ASSUME NEW p \in Procs, Fail(p) PROVE Gather'
  <2>0. /\ UNCHANGED <<req, expired, main, found, all, page, fetches, blind, closed>>
        /\ gpc[p] = "searching" /\ gpc' = [gpc EXCEPT ![p] = "done"]
    BY <1>4 DEF Fail
  <2>1. Range(found[p]) = {}
    BY <2>0 DEF Gather, Range
  <2>2. Range(all') = Range(all) \cup Range(found[p])
    BY <2>0, <2>1
  <2>3. Range(all') = answersOf(doneProcs)'
    BY <1>0, <2>0, <2>2, AppendKeepsAnswers, Zenon DEF Gather
  <2> QED BY <1>a, <2>0, <2>3 DEF Gather, TypeOK
<1>5. ASSUME NEW p \in Procs, AppendAnswer(p) PROVE Gather'
  <2>0. /\ UNCHANGED <<req, expired, main, found, page, fetches, blind, closed>>
        /\ gpc[p] = "append" /\ gpc' = [gpc EXCEPT ![p] = "done"]
        /\ all' = all \o found[p]
    BY <1>5 DEF AppendAnswer
  <2>1. all \in Seq(Candidates) /\ found[p] \in Seq(Candidates)
    BY <1>0 DEF TypeOK
  <2>2. all' \in Seq(Candidates) /\ Range(all') = Range(all) \cup Range(found[p])
    BY <2>0, <2>1, RangeConcat
  <2>3. Range(all') = answersOf(doneProcs)'
    BY <1>0, <2>0, <2>2, AppendKeepsAnswers, Zenon DEF Gather
  <2> QED BY <1>a, <2>0, <2>2, <2>3 DEF Gather, TypeOK
<1>6. ASSUME NEW p \in Procs, Panic(p) PROVE Gather'
  <2>1. /\ Idle /\ gpc[p] = "searching" /\ main' = "crashed"
        /\ UNCHANGED <<expired, page, fetches, blind, closed>>
    BY <1>6 DEF Panic, Idle
  <2> QED BY <1>b, <2>1 DEF Gather, TypeOK, Idle
<1>7. CASE FinishSearch \/ FinishFind
  <2>1. /\ Idle /\ main' \in {"validating", "returned"} /\ UNCHANGED <<expired, page, fetches, closed>>
        /\ blind' \in {blind, expired}
        /\ main = "merging" \/ (gathered /\ req.entry = "SearchImagesWithOpts")
    BY <1>7, Zenon DEF FinishSearch, FinishFind, SortAndValidate, Validate, ReturnNil, Idle
  <2> QED BY <1>b, <2>1 DEF Gather, TypeOK, Idle, gathered
<1>8. CASE FetchPage
  <2>1. /\ Idle /\ main' = "merging" /\ req.entry = "FindImages"
        /\ main = "begin" \/ gathered
        /\ UNCHANGED <<expired, blind, closed>>
    BY <1>8, Zenon DEF FetchPage, Idle
  <2>2. page' \in Seq(Candidates) /\ fetches' \in Nat
    <3>1. <<>> \in Seq(Candidates) /\ page \in Seq(Candidates) /\ fetches \in Nat
      BY <1>0 DEF TypeOK
    <3>2. Pages \subseteq Seq(Candidates)
      BY AnswerAssumption
    <3>3. CASE req.PageURL # "" /\ ~hasPageProvider
      <4>1. page' \in Pages \cup {<<>>} /\ fetches' = fetches + 1
        BY <1>8, <3>3, Zenon DEF FetchPage
      <4>2. page' \in Seq(Candidates)
        BY <3>1, <3>2, <4>1, Zenon
      <4>3. fetches' \in Nat
        BY <3>1, <4>1
      <4> QED BY <4>2, <4>3
    <3>4. CASE ~(req.PageURL # "" /\ ~hasPageProvider)
      <4>1. UNCHANGED <<page, fetches>>
        BY <1>8, <3>4, Zenon DEF FetchPage
      <4> QED BY <3>1, <4>1
    <3> QED BY <3>3, <3>4, Zenon
  <2> QED BY <1>b, <2>1, <2>2 DEF Gather, TypeOK, Idle, gathered
<1>9. CASE Select \/ ReturnResults \/ Expire
  <2>1. /\ Idle /\ UNCHANGED <<page, fetches, blind>> /\ closed' \in BOOLEAN /\ expired' \in BOOLEAN
        /\ main' = main \/ (main = "validating" /\ main' = "returned")
    BY <1>9, <1>0, Zenon DEF Select, ReturnResults, Expire, Sel!Choose, Sel!Close, Idle, TypeOK
  <2> QED BY <1>b, <2>1 DEF Gather, TypeOK, Idle
<1>10. CASE UNCHANGED vars
  <2>1. Idle /\ UNCHANGED <<expired, main, page, fetches, blind, closed>>
    BY <1>10 DEF vars, Idle
  <2> QED BY <1>b, <2>1 DEF Gather, TypeOK, Idle
<1> QED BY <1>1, <1>2, <1>3, <1>4, <1>5, <1>6, <1>7, <1>8, <1>9, <1>10 DEF Next, Main

\* Gather holds throughout.
LEMMA GatherInvariant == Spec => []Gather
BY GatherInit, GatherNext, PTL DEF Spec

\* For every list of providers, the variables have their types.
THEOREM SearchTypeCorrect == Spec => []TypeOK
BY GatherInvariant, PTL DEF Gather

\* For every list of providers, no goroutine writes the merged list once the caller
\* has gone on.
THEOREM MergeIsFrozen == Spec => MergeFrozen
<1>1. Gather /\ [Next]_vars => [main \notin {"gathering", "crashed"} => UNCHANGED <<all, found>>]_vars
  <2> SUFFICES ASSUME Gather, [Next]_vars, main \notin {"gathering", "crashed"}
               PROVE  UNCHANGED <<all, found>>
    OBVIOUS
  <2>1. \A p \in Procs : gpc[p] \notin {"searching", "append"}
    BY DEF Gather, TypeOK
  <2>2. \A p \in Procs : ~Answer(p) /\ ~Fail(p) /\ ~Panic(p) /\ ~AppendAnswer(p)
    BY <2>1 DEF Answer, Fail, Panic, AppendAnswer
  <2> QED BY <2>2, Zenon DEF Next, Main, ValidateCandidates, EmptyQuery, StartProviders, FinishSearch,
             FetchPage, FinishFind, ReturnResults, Expire, Select, vars
<1> QED BY <1>1, GatherInvariant, PTL DEF MergeFrozen, Spec

-----------------------------------------------------------------------------
(* Handing over, and the choices *)

\* What is offered does not change with a step that leaves the sources alone.
LEMMA OfferedSame ==
    ASSUME UNCHANGED <<req, found, page>>
    PROVE  offered' = offered /\ effectiveMax' = effectiveMax /\ NoCall' = NoCall
BY DEF offered, sources, effectiveMax, NoCall

\* A list that holds what is offered is handed over whole, sorted or not.
LEMMA HandOver ==
    ASSUME Gather, Handed, ~handedOver, NEW list \in Seq(Candidates), list # <<>>,
           Range(list) = offered, UNCHANGED <<req, found, page>>,
           main' = "validating", UNCHANGED <<chosen, closed>>,
           call' = [toValidate |-> list, maxResults |-> effectiveMax, cfg |-> req.cfg]
    PROVE  Handed'
<1>1. handedOver'
  BY DEF handedOver, NoCall
<1>2. chosen' = <<>>
  BY DEF Handed
<1> QED BY <1>1, <1>2, OfferedSame DEF Handed

\* The two ways a search ends.
LEMMA SortAndValidateHands ==
    ASSUME Gather, Handed, ~handedOver, NEW list \in Seq(Candidates), Range(list) = offered,
           UNCHANGED <<req, found, page>>, SortAndValidate(list)
    PROVE  Handed'
<1>1. CASE list = <<>> /\ ReturnNil
  <2>1. UNCHANGED <<call, chosen>> /\ main' = "returned"
    BY <1>1 DEF ReturnNil, selection
  <2> QED BY <2>1, OfferedSame DEF Handed, handedOver
<1>2. CASE list # <<>> /\ \E f \in stableOrders(list) : Validate([k \in 1..Len(list) |-> list[f[k]]])
  <2>1. PICK f \in stableOrders(list) : Validate([k \in 1..Len(list) |-> list[f[k]]])
    BY <1>2, Zenon
  <2>2. PICK t : t = [k \in 1..Len(list) |-> list[f[k]]]
    BY Zenon
  <2>3. t \in Seq(Candidates) /\ Range(t) = offered /\ t # <<>>
    BY <1>2, <2>2, RangeSorted
  <2>4. /\ call' = [toValidate |-> t, maxResults |-> effectiveMax, cfg |-> req.cfg]
        /\ main' = "validating" /\ UNCHANGED <<chosen, closed>>
    BY <2>1, <2>2 DEF Validate
  <2> QED BY <2>3, <2>4, HandOver
<1> QED BY <1>1, <1>2 DEF SortAndValidate

\* Once all goroutines are done, the merged list is what the providers offer.
LEMMA AllIsOffered ==
    ASSUME Gather, \A p \in Procs : gpc[p] \in {"done", "unstarted"}
    PROVE  answersOf(Procs) = Range(all)
<1>1. \A p \in Procs : p \notin doneProcs => Range(found[p]) = {}
  BY DEF Gather, doneProcs, Range
<1>2. doneProcs \subseteq Procs
  BY DEF doneProcs
<1>3. answersOf(Procs) = answersOf(doneProcs)
  BY <1>1, <1>2 DEF answersOf
<1> QED BY <1>3 DEF Gather

\* A step that touches neither the sources nor the selection keeps Handed.
LEMMA HandedSame ==
    ASSUME Handed, UNCHANGED <<req, found, page, call, chosen>>,
           main' \in {"begin", "gathering", "merging", "crashed"} =>
               main \in {"begin", "gathering", "merging", "crashed"}
    PROVE  Handed'
BY OfferedSame DEF Handed, handedOver

\* Every step keeps Handed.
LEMMA HandedNext == Gather /\ Handed /\ [Next]_vars => Handed'
<1> SUFFICES ASSUME Gather, Handed, [Next]_vars PROVE Handed'
  OBVIOUS
<1> USE DEF selection
<1>0. TypeOK /\ req \in Requests /\ all \in Seq(Candidates) /\ page \in Seq(Candidates)
  BY DEF Gather, TypeOK
<1>1. CASE ValidateCandidates
  <2>0. /\ req.entry = "ValidateCandidates" /\ main = "begin" /\ ~handedOver
        /\ UNCHANGED <<req, found, page>>
        /\ page = <<>> /\ \A p \in Procs : gpc[p] = "unstarted"
    BY <1>1 DEF ValidateCandidates, Handed, Gather
  <2>1. CASE req.External = <<>> /\ ReturnNil
    BY <2>0, <2>1, HandedSame DEF ReturnNil
  <2>2. CASE req.External # <<>> /\ Validate(req.External)
    <3>1. PICK list \in Seq(Candidates) : list = req.External
      BY <1>0, RequestFacts
    <3>2. \A p \in Procs : Range(found[p]) = {}
      BY <2>0 DEF Gather, Range
    <3>3. answersOf(Procs) = {}
      BY <3>2, Zenon DEF answersOf
    <3>4. Range(page) = {}
      BY <2>0 DEF Range
    <3>5. Range(list) = offered
      BY <1>0, <2>0, <3>1, <3>3, <3>4, OfferedParts, Zenon
    <3>6. /\ call' = [toValidate |-> list, maxResults |-> effectiveMax, cfg |-> req.cfg]
          /\ main' = "validating" /\ UNCHANGED <<chosen, closed>>
      BY <2>2, <3>1 DEF Validate
    <3> QED BY <2>0, <2>2, <3>1, <3>5, <3>6, HandOver
  <2> QED BY <1>1, <2>1, <2>2 DEF ValidateCandidates
<1>2. CASE EmptyQuery
  BY <1>2, HandedSame DEF EmptyQuery, ReturnNil
<1>3. CASE StartProviders
  BY <1>3, HandedSame, Zenon DEF StartProviders
<1>4. ASSUME NEW p \in Procs, Answer(p) \/ Fail(p) \/ Panic(p) \/ AppendAnswer(p) PROVE Handed'
  <2>1. /\ gpc[p] \in {"searching", "append"} /\ main # "crashed"
        /\ UNCHANGED <<req, page, call, chosen>> /\ main' \in {main, "crashed"}
    BY <1>4 DEF Answer, Fail, Panic, AppendAnswer, running
  <2>2. main = "gathering"
    BY <2>1, <1>0 DEF Gather, TypeOK
  <2>3. ~handedOver /\ ~handedOver'
    BY <2>1, <2>2 DEF Handed, handedOver, NoCall
  <2> QED BY <2>1, <2>2, <2>3 DEF Handed
<1>5. CASE FinishSearch
  <2>1. /\ gathered /\ req.entry = "SearchImagesWithOpts" /\ SortAndValidate(all)
        /\ UNCHANGED <<req, found, page>> /\ page = <<>>
    BY <1>5 DEF FinishSearch, Gather
  <2>2. ~handedOver
    BY <2>1 DEF Handed, gathered
  <2>3. Range(all) = offered
    <3>1. Range(page) = {}
      BY <2>1 DEF Range
    <3> QED BY <1>0, <2>1, <3>1, OfferedParts, AllIsOffered, Zenon DEF gathered
  <2>4. PICK list \in Seq(Candidates) : list = all
    BY <1>0
  <2>5. SortAndValidate(list)
    BY <2>1, <2>4 DEF SortAndValidate, Validate
  <2> QED BY <2>1, <2>2, <2>3, <2>4, <2>5, SortAndValidateHands
<1>6. CASE FetchPage
  <2>1. /\ main \in {"begin", "gathering"} /\ main' = "merging" /\ UNCHANGED <<req, call, chosen>>
    BY <1>6, Zenon DEF FetchPage, gathered
  <2>2. ~handedOver /\ ~handedOver'
    BY <2>1 DEF Handed, handedOver, NoCall
  <2> QED BY <2>1, <2>2 DEF Handed
<1>7. CASE FinishFind
  <2>1. /\ main = "merging" /\ req.entry = "FindImages" /\ UNCHANGED <<req, found, page>>
        /\ SortAndValidate(all \o page \o req.External) /\ ~handedOver
    BY <1>7 DEF FinishFind, Gather, Handed
  <2>2. req.External \in Seq(Candidates)
    BY <1>0, RequestFacts
  <2>3. all \o page \in Seq(Candidates) /\ Range(all \o page) = Range(all) \cup Range(page)
    BY <1>0, RangeConcat
  <2>4. /\ (all \o page) \o req.External \in Seq(Candidates)
        /\ Range((all \o page) \o req.External) = Range(all) \cup Range(page) \cup Range(req.External)
    <3>1. PICK ap \in Seq(Candidates) : ap = all \o page
      BY <2>3, Zenon
    <3>2. PICK e \in Seq(Candidates) : e = req.External
      BY <2>2
    <3>3. ap \o e \in Seq(Candidates) /\ Range(ap \o e) = Range(ap) \cup Range(e)
      BY RangeConcat
    <3>4. Range(ap) = Range(all) \cup Range(page)
      BY <2>3, <3>1
    <3>5. Range(ap \o e) = Range(all) \cup Range(page) \cup Range(e)
      BY <3>3, <3>4
    <3> QED BY <3>1, <3>2, <3>3, <3>5
  <2>5. answersOf(Procs) = Range(all)
    BY <2>1, AllIsOffered DEF Gather
  <2>6. PICK list \in Seq(Candidates) : list = all \o page \o req.External
    BY <2>4, Zenon
  <2>7. Range(list) = offered
    BY <1>0, <2>1, <2>4, <2>5, <2>6, OfferedParts, Zenon
  <2>8. SortAndValidate(list)
    BY <2>1, <2>6, Zenon DEF SortAndValidate, Validate
  <2> QED BY <2>1, <2>7, <2>8, SortAndValidateHands
<1>8. CASE Select
  <2>1. PICK i \in 1..Len(call.toValidate), look \in Hashes \cup {NoImage} : Sel!Choose(i, look)
    BY <1>8 DEF Select
  <2>2. /\ UNCHANGED <<req, found, page, call, main>> /\ main = "validating"
        /\ Len(chosen) < call.maxResults /\ Admissible(call.cfg, call.toValidate[i])
        /\ chosen' = Append(chosen, [idx |-> i, look |-> look])
    BY <1>8, <2>1 DEF Select, Sel!Choose
  <2>3. chosen \in Seq([idx : Nat, look : Hashes \cup {NoImage}])
    BY DEF Handed
  <2>4. handedOver
    <3>1. CASE ~handedOver
      <4>1. call.toValidate = <<>>
        BY <3>1 DEF handedOver, NoCall
      <4> QED BY <2>1, <4>1
    <3> QED BY <3>1
  <2>5. handedOver' /\ effectiveMax' = effectiveMax /\ offered' = offered
    BY <2>2, <2>4, OfferedSame DEF handedOver
  <2>6. call.toValidate \in Seq(Candidates) /\ call.maxResults \in Int
    BY <1>0, <2>4, RequestFacts DEF Handed
  <2>7. i \in Nat /\ [idx |-> i, look |-> look] \in [idx : Nat, look : Hashes \cup {NoImage}]
    BY <2>6
  <2>8. /\ chosen' \in Seq([idx : Nat, look : Hashes \cup {NoImage}])
        /\ Len(chosen') = Len(chosen) + 1 /\ Len(chosen) \in Nat
        /\ \A k \in 1..Len(chosen) : chosen'[k] = chosen[k]
        /\ chosen'[Len(chosen) + 1] = [idx |-> i, look |-> look]
    BY <2>2, <2>3, <2>7, AppendProperties
  <2>9. ASSUME NEW k \in 1..Len(chosen')
        PROVE  /\ chosen'[k].idx \in 1..Len(call.toValidate)
               /\ Admissible(call.cfg, call.toValidate[chosen'[k].idx])
    <3>1. CASE k \in 1..Len(chosen)
      BY <2>8, <3>1, Zenon DEF Handed
    <3>2. CASE k = Len(chosen) + 1
      BY <2>1, <2>2, <2>8, <3>2
    <3> QED BY <2>8, <3>1, <3>2
  <2>10. Len(chosen') <= call'.maxResults
    BY <2>2, <2>6, <2>8
  <2> QED BY <2>2, <2>4, <2>5, <2>8, <2>9, <2>10 DEF Handed
<1>9. CASE ReturnResults
  BY <1>9, HandedSame DEF ReturnResults, Sel!Close
<1>10. CASE Expire
  BY <1>10, HandedSame DEF Expire
<1>11. CASE UNCHANGED vars
  BY <1>11, HandedSame DEF vars
<1> QED BY <1>1, <1>2, <1>3, <1>4, <1>5, <1>6, <1>7, <1>8, <1>9, <1>10, <1>11 DEF Next, Main

\* Handed holds throughout.
LEMMA HandedInvariant == Spec => []Handed
<1>1. Init => Handed
  BY DEF Init, Handed, handedOver, Sel!Init
<1> QED BY <1>1, HandedNext, GatherInvariant, PTL DEF Spec

\* For every entry point, the results are among what was offered, are neither logos
\* nor marked as blocked, and are no more than were asked for.
THEOREM ResultsAreSound == Spec => []ResultsSound
<1>1. Gather /\ Handed => ResultsSound
  <2> SUFFICES ASSUME Gather, Handed PROVE ResultsSound
    OBVIOUS
  <2>1. ASSUME NEW k \in 1..Len(chosen)
        PROVE  LET c == call.toValidate[chosen[k].idx]
               IN c \in offered /\ ~c.ImgURL.logo /\ (hasURL(c) => c.License # LicenseBlocked)
    <3> DEFINE c == call.toValidate[chosen[k].idx]
    <3>1. handedOver
      BY <2>1 DEF Handed
    <3>2. chosen[k].idx \in 1..Len(call.toValidate) /\ Admissible(call.cfg, c)
      BY <2>1 DEF Handed
    <3>3. c \in offered
      BY <3>1, <3>2 DEF Handed, Range
    <3>4. ~c.ImgURL.logo /\ AssessLicense(call.cfg, c, NoMetadata) # LicenseBlocked
      BY <3>2 DEF Admissible
    <3> HIDE DEF c
    <3>5. ~Says(Signals(call.cfg, c, NoMetadata), LicenseBlocked)
      BY <3>4, Zenon DEF AssessLicense, Resolve
    <3>6. ASSUME hasURL(c), c.License = LicenseBlocked PROVE FALSE
      <4>1. <<"domain", LicenseBlocked>> \in Signals(call.cfg, c, NoMetadata)
        BY <3>6 DEF Signals, ImageLicense, LicenseBlocked, LicenseUnknown, LicenseSafe
      <4> QED BY <3>5, <4>1 DEF Says
    <3>7. c \in offered /\ ~c.ImgURL.logo /\ (hasURL(c) => c.License # LicenseBlocked)
      BY <3>3, <3>4, <3>6
    <3> QED BY <3>7 DEF c
  <2>2. chosen # <<>> => Len(chosen) <= effectiveMax
    BY DEF Handed
  <2> QED BY <2>1, <2>2 DEF ResultsSound
<1> QED BY <1>1, GatherInvariant, HandedInvariant, PTL

-----------------------------------------------------------------------------
(* The sort *)

\* A non-empty set of places has a first one.
LEMMA Least ==
    ASSUME NEW T \in SUBSET Nat, T # {}
    PROVE  \E x \in T : \A y \in T : x <= y
<1> DEFINE R == OpToRel(<, Nat)
<1>1. IsWellFoundedOn(R, Nat)
  BY NatLessThanWellFounded, Zenon
<1>2. \A x, y \in Nat : x < y => <<x, y>> \in R
  BY DEF OpToRel
<1> HIDE DEF R
<1>3. PICK x \in T : \A y \in T : ~(<<y, x>> \in R)
  BY <1>1, WFMin, Zenon
<1>4. ASSUME NEW y \in T PROVE x <= y
  <2>1. x \in Nat /\ y \in Nat /\ ~(y < x)
    BY <1>2, <1>3, Zenon
  <2> QED BY <2>1
<1> QED BY <1>4

\* The candidate at place x goes before the one at place y.
before(s, x, y) == \/ s[x].License < s[y].License
                   \/ s[x].License = s[y].License /\ x < y

\* What an order of s is.
LEMMA OrderFacts ==
    ASSUME NEW s \in Seq(Candidates), NEW f
    PROVE  f \in stableOrders(s) <=>
               /\ f \in [1..Len(s) -> 1..Len(s)]
               /\ \A j, k \in 1..Len(s) : f[j] = f[k] => j = k
               /\ \A x \in 1..Len(s) : \E j \in 1..Len(s) : f[j] = x
               /\ \A j, k \in 1..Len(s) : j < k => before(s, f[j], f[k])
BY Zenon DEF stableOrders, before, Bijection, Injection, Surjection, IsInjective

\* No two places go before one another.
LEMMA BeforeAsymmetric ==
    ASSUME NEW s \in Seq(Candidates), NEW x \in 1..Len(s), NEW y \in 1..Len(s),
           before(s, x, y), before(s, y, x)
    PROVE  FALSE
<1>1. s[x].License \in Int /\ s[y].License \in Int
  BY AnswerAssumption
<1> QED BY <1>1 DEF before

\* There is at most one way to sort: where two first differ, each would have the
\* other's candidate later.
LEMMA OrderUnique ==
    ASSUME NEW s \in Seq(Candidates), NEW f \in stableOrders(s), NEW g \in stableOrders(s)
    PROVE  f = g
<1> DEFINE D == 1..Len(s)
           T == {j \in D : f[j] # g[j]}
<1>0. /\ f \in [D -> D] /\ g \in [D -> D]
      /\ \A j, k \in D : f[j] = f[k] => j = k
      /\ \A j, k \in D : g[j] = g[k] => j = k
      /\ \A x \in D : \E j \in D : f[j] = x
      /\ \A x \in D : \E j \in D : g[j] = x
      /\ \A j, k \in D : j < k => before(s, f[j], f[k])
      /\ \A j, k \in D : j < k => before(s, g[j], g[k])
  BY OrderFacts, Zenon
<1>1. SUFFICES ASSUME T # {} PROVE FALSE
  <2>1. ASSUME T = {} PROVE f = g
    <3>1. \A j \in D : f[j] = g[j]
      BY <2>1
    <3> QED BY <1>0, <3>1
  <2> QED BY <2>1
<1>2. PICK k \in T : \A j \in T : k <= j
  <2>1. T \in SUBSET Nat
    BY LenProperties
  <2> QED BY <1>1, <2>1, Least, Zenon
<1>3. k \in D /\ f[k] # g[k] /\ \A j \in D : j < k => f[j] = g[j]
  BY <1>2, LenProperties
<1>4. PICK i \in D : g[i] = f[k]
  BY <1>0, <1>3, Zenon
<1>5. PICK j \in D : f[j] = g[k]
  BY <1>0, <1>3, Zenon
<1>6. i > k /\ j > k
  <2>1. Len(s) \in Nat
    BY LenProperties
  <2>2. i # k /\ j # k
    BY <1>3, <1>4, <1>5
  <2>3. ~(i < k)
    BY <1>0, <1>3, <1>4, <2>1, <2>2
  <2>4. ~(j < k)
    BY <1>0, <1>3, <1>5, <2>1, <2>2
  <2> QED BY <2>1, <2>2, <2>3, <2>4
<1>7. before(s, g[k], f[k]) /\ before(s, f[k], g[k])
  BY <1>0, <1>3, <1>4, <1>5, <1>6
<1>8. f[k] \in D /\ g[k] \in D
  BY <1>0, <1>3, Zenon
<1> QED BY <1>7, <1>8, BeforeAsymmetric

\* A list that can be sorted can be sorted with one more candidate at its end: it goes
\* before the first that has a larger licence.
LEMMA OrderInsert ==
    ASSUME NEW s \in Seq(Candidates), Len(s) > 0,
           NEW f \in stableOrders(SubSeq(s, 1, Len(s) - 1))
    PROVE  stableOrders(s) # {}
<1>a. PICK n : n = Len(s)
  OBVIOUS
<1>b. PICK r : r = SubSeq(s, 1, n - 1)
  BY Zenon
<1> DEFINE C == 1..(n - 1)
           D == 1..n
           T == {k \in D : k = n \/ s[f[k]].License > s[n].License}
<1>0. n \in Nat /\ n > 0 /\ r \in Seq(Candidates) /\ Len(r) = n - 1 /\ \A k \in C : r[k] = s[k]
  <2>1. n \in Nat /\ n > 0 /\ s \in [1..n -> Candidates]
    BY <1>a, LenProperties
  <2>2. n - 1 \in 0..Len(s) /\ 1 \in 1..(Len(s) + 1)
    BY <1>a, <2>1
  <2>3. /\ r \in Seq(Candidates)
        /\ Len(r) = IF 1 <= n - 1 THEN (n - 1) - 1 + 1 ELSE 0
        /\ \A k \in 1..((n - 1) - 1 + 1) : r[k] = s[1 + k - 1]
    BY <1>a, <1>b, <2>1, <2>2
  <2> QED BY <2>1, <2>3
<1>0a. s \in [D -> Candidates] /\ f \in stableOrders(r)
  BY <1>a, <1>b, LenProperties
<1>1. /\ f \in [C -> C]
      /\ \A j, k \in C : f[j] = f[k] => j = k
      /\ \A x \in C : \E j \in C : f[j] = x
      /\ \A j, k \in C : j < k => before(s, f[j], f[k])
  <2>1. /\ f \in [C -> C]
        /\ \A j, k \in C : f[j] = f[k] => j = k
        /\ \A x \in C : \E j \in C : f[j] = x
        /\ \A j, k \in C : j < k => before(r, f[j], f[k])
    <3>1. /\ f \in [1..Len(r) -> 1..Len(r)]
          /\ \A j, k \in 1..Len(r) : f[j] = f[k] => j = k
          /\ \A x \in 1..Len(r) : \E j \in 1..Len(r) : f[j] = x
          /\ \A j, k \in 1..Len(r) : j < k => before(r, f[j], f[k])
      <4>1. r \in Seq(Candidates)
        BY <1>0
      <4> QED BY <1>0a, <4>1, OrderFacts
    <3>2. 1..Len(r) = C
      BY <1>0
    <3> QED BY <3>1, <3>2, Zenon
  <2>2. \A j, k \in C : before(r, f[j], f[k]) = before(s, f[j], f[k])
    BY <1>0, <2>1, Zenon DEF before
  <2> QED BY <2>1, <2>2
<1>2. \A k \in D : s[k].License \in Int
  BY <1>0a, AnswerAssumption
<1>2a. \A k \in C : f[k] \in D /\ f[k] \in Nat /\ f[k] < n
  <2>1. n \in Nat /\ \A k \in C : f[k] \in C
    BY <1>0, <1>1, Zenon
  <2> QED BY <2>1
<1>2b. n \in D
  BY <1>0
<1>3. PICK q \in T : \A k \in T : q <= k
  <2>1. T \in SUBSET Nat /\ n \in T
    BY <1>0
  <2> QED BY <2>1, Least, Zenon
<1> DEFINE g == [k \in D |-> IF k < q THEN f[k] ELSE IF k = q THEN n ELSE f[k - 1]]
<1>4. q \in D /\ (q = n \/ s[f[q]].License > s[n].License)
  BY <1>3
<1>5. \A k \in D : k < q => k \in C /\ s[f[k]].License <= s[n].License
  <2> TAKE k \in D
  <2> HAVE k < q
  <2>1. k \notin T /\ k \in C
    BY <1>0, <1>3, <1>4
  <2>2. f[k] \in D
    BY <1>2a, <1>2b, <2>1
  <2> QED BY <1>0, <1>2, <2>1, <2>2
<1>6. \A k \in C : k >= q => s[f[k]].License > s[n].License
  <2> TAKE k \in C
  <2> HAVE k >= q
  <2>1. q \in C /\ s[f[q]].License > s[n].License
    BY <1>0, <1>4
  <2>2. f[q] \in D /\ f[k] \in D /\ n \in D
    BY <1>2a, <1>2b, <2>1
  <2>3. k = q \/ before(s, f[q], f[k])
    BY <1>1, <1>4, <2>1
  <2>4. s[f[q]].License <= s[f[k]].License
    BY <1>2, <2>2, <2>3 DEF before
  <2> QED BY <1>2, <2>1, <2>2, <2>4
<1>7. /\ \A k \in D : k < q => g[k] = f[k] /\ k \in C
      /\ g[q] = n
      /\ \A k \in D : k > q => g[k] = f[k - 1] /\ k - 1 \in C
  BY <1>0, <1>4
<1> HIDE DEF g, T
<1>8. DOMAIN g = D /\ g \in [D -> D]
  BY <1>0, <1>2a, <1>2b, <1>4 DEF g
<1>9. ASSUME NEW j \in D, NEW k \in D, j < k PROVE before(s, g[j], g[k])
  <2>1. CASE k < q
    BY <1>0, <1>1, <1>4, <1>7, <1>9, <2>1
  <2>2. CASE k = q
    <3>1. g[k] = n /\ g[j] = f[j] /\ j \in C /\ s[f[j]].License <= s[n].License
      BY <1>5, <1>7, <1>9, <2>2
    <3>2. f[j] \in D /\ f[j] < n /\ n \in D
      BY <1>2a, <1>2b, <3>1
    <3> QED BY <1>2, <3>1, <3>2 DEF before
  <2>3. CASE k > q /\ j = q
    <3>1. g[j] = n /\ g[k] = f[k - 1] /\ k - 1 \in C /\ k - 1 >= q
      BY <1>0, <1>4, <1>7, <1>9, <2>3
    <3>2. s[f[k - 1]].License > s[n].License /\ f[k - 1] \in D /\ n \in D
      BY <1>2a, <1>2b, <1>6, <3>1
    <3> QED BY <1>2, <3>1, <3>2 DEF before
  <2>4. CASE k > q /\ j < q
    <3>1. g[j] = f[j] /\ j \in C /\ g[k] = f[k - 1] /\ k - 1 \in C /\ j < k - 1
      BY <1>0, <1>4, <1>7, <1>9, <2>4
    <3> QED BY <1>1, <3>1
  <2>5. CASE k > q /\ j > q
    <3>1. g[j] = f[j - 1] /\ j - 1 \in C /\ g[k] = f[k - 1] /\ k - 1 \in C /\ j - 1 < k - 1
      BY <1>0, <1>4, <1>7, <1>9, <2>5
    <3> QED BY <1>1, <3>1
  <2> QED BY <1>0, <1>4, <2>1, <2>2, <2>3, <2>4, <2>5
<1>10. ASSUME NEW j \in D, NEW k \in D, g[j] = g[k] PROVE j = k
  <2>1. ASSUME NEW x \in D, NEW y \in D, x < y, g[x] = g[y] PROVE FALSE
    BY <1>a, <1>8, <1>9, <2>1, BeforeAsymmetric
  <2> QED BY <1>0, <1>10, <2>1
<1>11. ASSUME NEW x \in D PROVE \E j \in D : g[j] = x
  <2>1. CASE x = n
    BY <1>4, <1>7, <2>1
  <2>2. CASE x # n
    <3>1. PICK j \in C : f[j] = x
      BY <1>0, <1>1, <2>2
    <3>2. CASE j < q
      BY <1>0, <1>7, <3>1, <3>2
    <3>3. CASE j >= q
      <4>1. j + 1 \in D /\ j + 1 > q /\ (j + 1) - 1 = j
        BY <1>0, <1>4, <3>3
      <4> QED BY <1>7, <3>1, <4>1
    <3> QED BY <1>0, <1>4, <3>2, <3>3
  <2> QED BY <2>1, <2>2
<1>12. g \in stableOrders(s)
  BY <1>a, <1>8, <1>9, <1>10, <1>11, OrderFacts, Zenon
<1> QED BY <1>12

\* sort.SliceStable: every list of candidates has exactly one order that respects the
\* licence and, among equals, the order of the list.
THEOREM SortIsAFunction == \A s \in Seq(Candidates) : \E f : stableOrders(s) = {f}
<1> DEFINE Bad == {n \in Nat : \E s \in Seq(Candidates) : Len(s) = n /\ stableOrders(s) = {}}
<1>1. Bad = {}
  <2> SUFFICES ASSUME Bad # {} PROVE FALSE
    OBVIOUS
  <2>1. PICK n \in Bad : \A m \in Bad : n <= m
    <3>1. Bad \in SUBSET Nat
      OBVIOUS
    <3> QED BY <3>1, Least, Zenon
  <2>2. PICK s \in Seq(Candidates) : Len(s) = n /\ stableOrders(s) = {}
    BY <2>1
  <2>3. CASE n = 0
    <3>1. PICK f : f = [j \in 1..Len(s) |-> j]
      BY Zenon
    <3>2. 1..Len(s) = {}
      BY <2>2, <2>3
    <3>3. f \in stableOrders(s)
      BY <3>1, <3>2, OrderFacts, Zenon
    <3> QED BY <2>2, <3>3
  <2>4. CASE n > 0
    <3>1. PICK r : r = SubSeq(s, 1, Len(s) - 1)
      BY Zenon
    <3>2. r \in Seq(Candidates) /\ Len(r) = n - 1 /\ n - 1 \in Nat
      BY <2>1, <2>2, <2>4, <3>1, SubSeqProperties
    <3>3. n - 1 \notin Bad
      BY <2>1, <2>4
    <3>4. PICK f : f \in stableOrders(r)
      BY <3>2, <3>3
    <3> QED BY <2>2, <2>4, <3>1, <3>4, OrderInsert
  <2> QED BY <2>1, <2>3, <2>4
<1>2. ASSUME NEW s \in Seq(Candidates) PROVE \E f : stableOrders(s) = {f}
  <2>1. Len(s) \in Nat /\ Len(s) \notin Bad
    BY <1>1, LenProperties
  <2>2. PICK f : f \in stableOrders(s)
    BY <2>1
  <2>3. \A g \in stableOrders(s) : g = f
    BY <2>2, OrderUnique
  <2> QED BY <2>2, <2>3, Zenon
<1> QED BY <1>2

-----------------------------------------------------------------------------
(* The ranking *)

\* s stands in t, unbroken.
block(s, t) ==
    \E o \in Nat : o + Len(s) <= Len(t) /\ \A a \in 1..Len(s) : t[o + a] = s[a]

\* The candidates of s that have the same licence are in t in the order of s.
ranked(s, t) ==
    \A a, b \in 1..Len(s) :
        a < b /\ s[a].License = s[b].License =>
            \E j, k \in 1..Len(t) : j < k /\ t[j] = s[a] /\ t[k] = s[b]

\* append under mu: the answer of a goroutine that is done stands in the list.
Placed == \A p \in Procs : gpc[p] = "done" => block(found[p], all)

\* What stands in a list stands in it when more is appended, and so does what is
\* appended.
LEMMA BlockConcat ==
    ASSUME NEW S, NEW t \in Seq(S), NEW u \in Seq(S)
    PROVE  /\ block(u, t \o u)
           /\ \A s \in Seq(S) : block(s, t) => block(s, t \o u)
           /\ block(t, t)
           /\ block(<<>>, t)
<1>1. t \o u \in Seq(S) /\ Len(t \o u) = Len(t) + Len(u) /\ Len(t) \in Nat /\ Len(u) \in Nat
  OBVIOUS
<1>2. \A k \in 1..Len(t) : (t \o u)[k] = t[k]
  OBVIOUS
<1>3. \A k \in 1..Len(u) : (t \o u)[Len(t) + k] = u[k]
  OBVIOUS
<1>4. block(u, t \o u)
  BY <1>1, <1>3 DEF block
<1>5. ASSUME NEW s \in Seq(S), block(s, t) PROVE block(s, t \o u)
  <2>1. PICK o \in Nat : o + Len(s) <= Len(t) /\ \A a \in 1..Len(s) : t[o + a] = s[a]
    BY <1>5, Zenon DEF block
  <2>2. Len(s) \in Nat /\ o + Len(s) <= Len(t \o u)
    BY <1>1, <2>1, LenProperties
  <2>3. ASSUME NEW a \in 1..Len(s) PROVE (t \o u)[o + a] = s[a]
    <3>1. o + a \in 1..Len(t)
      BY <1>1, <2>1, <2>2
    <3> QED BY <1>2, <2>1, <3>1
  <2> QED BY <2>2, <2>3, Zenon DEF block
<1>6. block(t, t)
  <2>1. 0 + Len(t) <= Len(t) /\ \A a \in 1..Len(t) : t[0 + a] = t[a]
    BY <1>1
  <2> QED BY <2>1, Zenon DEF block
<1>7. block(<<>>, t)
  <2>1. 0 + Len(<<>>) <= Len(t) /\ \A a \in 1..Len(<<>>) : t[0 + a] = <<>>[a]
    BY <1>1
  <2> QED BY <2>1 DEF block
<1> QED BY <1>4, <1>5, <1>6, <1>7

\* sort.SliceStable: the sorted list ascends by licence, and whatever stood unbroken in
\* the list keeps its ranking.
LEMMA SortKeepsRank ==
    ASSUME NEW list \in Seq(Candidates), NEW f \in stableOrders(list),
           NEW t, t = [k \in 1..Len(list) |-> list[f[k]]]
    PROVE  /\ \A j, k \in 1..Len(t) : j < k => t[j].License <= t[k].License
           /\ \A s \in Seq(Candidates) : block(s, list) => ranked(s, t)
<1> DEFINE D == 1..Len(list)
<1>0. Len(list) \in Nat /\ \A k \in D : list[k] \in Candidates /\ list[k].License \in Int
  BY AnswerAssumption, LenProperties
<1>1. /\ f \in [D -> D]
      /\ \A j, k \in D : f[j] = f[k] => j = k
      /\ \A x \in D : \E j \in D : f[j] = x
      /\ \A j, k \in D : j < k => before(list, f[j], f[k])
  BY OrderFacts
<1>2. Len(t) = Len(list) /\ \A k \in D : t[k] = list[f[k]]
  <2>1. \A k \in D : list[f[k]] \in Candidates
    BY <1>0, <1>1
  <2> QED BY <1>0, <2>1
<1>3. \A j, k \in 1..Len(t) : j < k => t[j].License <= t[k].License
  <2> SUFFICES ASSUME NEW j \in D, NEW k \in D, j < k PROVE t[j].License <= t[k].License
    BY <1>2
  <2>1. before(list, f[j], f[k]) /\ f[j] \in D /\ f[k] \in D
    BY <1>1, Zenon
  <2>2. list[f[j]].License <= list[f[k]].License
    BY <1>0, <2>1 DEF before
  <2> QED BY <1>2, <2>2
<1>4. ASSUME NEW s \in Seq(Candidates), block(s, list),
             NEW a \in 1..Len(s), NEW b \in 1..Len(s), a < b, s[a].License = s[b].License
      PROVE  \E j, k \in 1..Len(t) : j < k /\ t[j] = s[a] /\ t[k] = s[b]
  <2>1. PICK o \in Nat : o + Len(s) <= Len(list) /\ \A c \in 1..Len(s) : list[o + c] = s[c]
    BY <1>4, Zenon DEF block
  <2>2. PICK x, y : x = o + a /\ y = o + b
    OBVIOUS
  <2>3. x \in D /\ y \in D /\ x < y
    BY <1>0, <1>4, <2>1, <2>2, LenProperties
  <2>4. list[x] = s[a] /\ list[y] = s[b] /\ list[x].License = list[y].License
    BY <1>4, <2>1, <2>2
  <2>5. PICK j \in D : f[j] = x
    BY <1>1, <2>3
  <2>6. PICK k \in D : f[k] = y
    BY <1>1, <2>3
  <2>7. j # k
    BY <1>0, <2>3, <2>5, <2>6
  <2>8. ~(k < j)
    <3>1. ASSUME before(list, y, x) PROVE FALSE
      BY <1>0, <2>3, <2>4, <3>1 DEF before
    <3> QED BY <1>1, <2>5, <2>6, <3>1
  <2>9. j < k
    BY <1>0, <2>7, <2>8
  <2> QED BY <1>2, <2>4, <2>5, <2>6, <2>9, Zenon
<1> QED BY <1>3, <1>4, Zenon DEF ranked

\* Every step keeps Placed.
LEMMA PlacedNext == Gather /\ Placed /\ [Next]_vars => Placed'
<1> SUFFICES ASSUME Gather, Placed, [Next]_vars PROVE Placed'
  OBVIOUS
<1> USE DEF selection
<1>0. TypeOK /\ req \in Requests /\ all \in Seq(Candidates) /\ \A p \in Procs : found[p] \in Seq(Candidates)
  BY DEF Gather, TypeOK
<1>a. ASSUME req' = req PROVE Procs' = Procs
  BY <1>a DEF Procs, providers, resolveProviders
<1>b. ASSUME Idle PROVE Placed'
  BY <1>a, <1>b DEF Idle, Placed
<1>1. CASE StartProviders
  <2>1. req' = req /\ gpc' = [p \in Procs |-> "searching"]
    BY <1>1, Zenon DEF StartProviders
  <2> QED BY <1>a, <2>1 DEF Placed
<1>2. ASSUME NEW p \in Procs, Answer(p) PROVE Placed'
  <2>1. /\ req' = req /\ all' = all /\ gpc' = [gpc EXCEPT ![p] = "append"]
    BY <1>2 DEF Answer
  <2>2. PICK list : found' = [found EXCEPT ![p] = list]
    BY <1>2, Zenon DEF Answer
  <2>3. ASSUME NEW q \in Procs, gpc'[q] = "done" PROVE block(found'[q], all')
    <3>1. q # p /\ gpc[q] = "done" /\ found'[q] = found[q]
      BY <1>0, <2>1, <2>2, <2>3 DEF TypeOK
    <3> QED BY <2>1, <3>1 DEF Placed
  <2> QED BY <1>a, <2>1, <2>3 DEF Placed
<1>3. ASSUME NEW p \in Procs, Fail(p) PROVE Placed'
  <2>1. /\ UNCHANGED <<req, found, all>> /\ gpc[p] = "searching" /\ gpc' = [gpc EXCEPT ![p] = "done"]
    BY <1>3 DEF Fail
  <2>2. found[p] = <<>>
    BY <2>1 DEF Gather
  <2>3. ASSUME NEW q \in Procs, gpc'[q] = "done" PROVE block(found'[q], all')
    <3>1. CASE q = p
      BY <1>0, <2>1, <2>2, <3>1, BlockConcat
    <3>2. CASE q # p
      BY <1>0, <2>1, <2>3, <3>2 DEF Placed, TypeOK
    <3> QED BY <3>1, <3>2
  <2> QED BY <1>a, <2>1, <2>3 DEF Placed
<1>4. ASSUME NEW p \in Procs, AppendAnswer(p) PROVE Placed'
  <2>1. /\ UNCHANGED <<req, found>> /\ all' = all \o found[p] /\ gpc' = [gpc EXCEPT ![p] = "done"]
    BY <1>4 DEF AppendAnswer
  <2>2. ASSUME NEW q \in Procs, gpc'[q] = "done" PROVE block(found'[q], all')
    <3>0. found[p] \in Seq(Candidates) /\ found[q] \in Seq(Candidates)
      BY <1>0
    <3>1. CASE q = p
      BY <1>0, <2>1, <3>0, <3>1, BlockConcat
    <3>2. CASE q # p
      <4>1. block(found[q], all)
        BY <1>0, <2>1, <2>2, <3>2 DEF Placed, TypeOK
      <4> QED BY <1>0, <2>1, <3>0, <4>1, BlockConcat
    <3> QED BY <3>1, <3>2
  <2> QED BY <1>a, <2>1, <2>2 DEF Placed
<1>5. ASSUME NEW p \in Procs, Panic(p) PROVE Placed'
  BY <1>b, <1>5 DEF Panic, Idle
<1>6. CASE ValidateCandidates \/ EmptyQuery \/ FinishSearch \/ FetchPage \/ FinishFind
  BY <1>b, <1>6, Zenon DEF ValidateCandidates, EmptyQuery, FinishSearch, FetchPage, FinishFind, Idle
<1>7. CASE ReturnResults \/ Select \/ Expire \/ UNCHANGED vars
  BY <1>b, <1>7 DEF ReturnResults, Select, Expire, vars, Idle
<1> QED BY <1>1, <1>2, <1>3, <1>4, <1>5, <1>6, <1>7 DEF Next, Main

\* The two ways a search ends, when every source stands in the list.
LEMMA SortAndValidateRanks ==
    ASSUME NEW list \in Seq(Candidates), ~handedOver, UNCHANGED <<req, found, page>>,
           \A s \in sources : s \in Seq(Candidates) /\ block(s, list), SortAndValidate(list)
    PROVE  RankKept'
<1>1. CASE list = <<>> /\ ReturnNil
  <2>1. ~handedOver'
    BY <1>1 DEF ReturnNil, selection, handedOver, NoCall
  <2> QED BY <2>1 DEF RankKept
<1>2. CASE list # <<>> /\ \E f \in stableOrders(list) : Validate([k \in 1..Len(list) |-> list[f[k]]])
  <2>1. PICK f \in stableOrders(list) : Validate([k \in 1..Len(list) |-> list[f[k]]])
    BY <1>2, Zenon
  <2>2. PICK t : t = [k \in 1..Len(list) |-> list[f[k]]]
    BY Zenon
  <2>3. call'.toValidate = t
    BY <2>1, <2>2 DEF Validate
  <2>4. /\ \A j, k \in 1..Len(t) : j < k => t[j].License <= t[k].License
        /\ \A s \in sources : ranked(s, t)
    BY <2>2, SortKeepsRank, Zenon
  <2>5. sources' = sources
    BY DEF sources
  <2> QED BY <2>3, <2>4, <2>5 DEF RankKept, ranked
<1> QED BY <1>1, <1>2 DEF SortAndValidate

\* A step that touches neither the sources nor the selection keeps the ranking.
LEMMA RankSame ==
    ASSUME RankKept, UNCHANGED <<req, found, page, call>>
    PROVE  RankKept'
BY DEF RankKept, handedOver, NoCall, sorts, sources

\* Every step keeps the ranking.
LEMMA RankNext == Gather /\ Handed /\ Placed /\ RankKept /\ [Next]_vars => RankKept'
<1> SUFFICES ASSUME Gather, Handed, Placed, RankKept, [Next]_vars PROVE RankKept'
  OBVIOUS
<1> USE DEF selection
<1>0. /\ TypeOK /\ req \in Requests /\ all \in Seq(Candidates) /\ page \in Seq(Candidates)
      /\ DOMAIN found = Procs /\ \A p \in Procs : found[p] \in Seq(Candidates)
  BY DEF Gather, TypeOK
<1>b. ASSUME \A p \in Procs : gpc[p] \in {"done", "unstarted"}
      PROVE  \A p \in Procs : block(found[p], all)
  <2> TAKE p \in Procs
  <2>1. CASE gpc[p] = "done"
    BY <2>1 DEF Placed
  <2>2. CASE gpc[p] = "unstarted"
    <3>1. found[p] = <<>>
      BY <2>2 DEF Gather
    <3> QED BY <1>0, <3>1, BlockConcat
  <2> QED BY <1>b, <2>1, <2>2
<1>1. CASE ValidateCandidates
  <2>1. ~sorts'
    BY <1>1 DEF ValidateCandidates, sorts
  <2> QED BY <2>1 DEF RankKept
<1>2. CASE EmptyQuery \/ StartProviders
  BY <1>2, RankSame, Zenon DEF EmptyQuery, StartProviders, ReturnNil
<1>3. ASSUME NEW p \in Procs, Answer(p) \/ Fail(p) \/ Panic(p) \/ AppendAnswer(p) PROVE RankKept'
  <2>1. /\ gpc[p] \in {"searching", "append"} /\ main # "crashed" /\ UNCHANGED <<req, call>>
    BY <1>3 DEF Answer, Fail, Panic, AppendAnswer, running
  <2>2. main = "gathering"
    BY <2>1, <1>0 DEF Gather, TypeOK
  <2>3. ~handedOver'
    BY <2>1, <2>2 DEF Handed, handedOver, NoCall
  <2> QED BY <2>3 DEF RankKept
<1>4. CASE FinishSearch
  <2>1. /\ gathered /\ req.entry = "SearchImagesWithOpts" /\ SortAndValidate(all)
        /\ UNCHANGED <<req, found, page>> /\ page = <<>>
    BY <1>4 DEF FinishSearch, Gather
  <2>2. ~handedOver
    BY <2>1 DEF Handed, gathered
  <2>3. PICK list \in Seq(Candidates) : list = all
    BY <1>0
  <2>4. SortAndValidate(list)
    BY <2>1, <2>3 DEF SortAndValidate, Validate
  <2>5. \A p \in Procs : block(found[p], list)
    BY <1>b, <2>1, <2>3 DEF gathered
  <2>6. block(page, list)
    BY <2>1, BlockConcat
  <2>7. sources = Range(found) \cup {page}
    BY <2>1 DEF sources
  <2>8. \A s \in sources : s \in Seq(Candidates) /\ block(s, list)
    BY <1>0, <2>5, <2>6, <2>7 DEF Range
  <2> QED BY <2>1, <2>2, <2>4, <2>8, SortAndValidateRanks
<1>5. CASE FetchPage
  <2>1. /\ main \in {"begin", "gathering"} /\ UNCHANGED <<req, call>>
    BY <1>5, Zenon DEF FetchPage, gathered
  <2>2. ~handedOver'
    BY <2>1 DEF Handed, handedOver, NoCall
  <2> QED BY <2>2 DEF RankKept
<1>6. CASE FinishFind
  <2>1. /\ main = "merging" /\ req.entry = "FindImages" /\ UNCHANGED <<req, found, page>>
        /\ SortAndValidate(all \o page \o req.External) /\ ~handedOver
    BY <1>6 DEF FinishFind, Gather, Handed
  <2>2. PICK e \in Seq(Candidates) : e = req.External
    BY <1>0, RequestFacts
  <2>3. PICK ap \in Seq(Candidates) : ap = all \o page
    BY <1>0, RangeConcat, Zenon
  <2>4. PICK list \in Seq(Candidates) : list = ap \o e
    BY RangeConcat, Zenon
  <2>5. SortAndValidate(list)
    BY <2>1, <2>2, <2>3, <2>4, Zenon DEF SortAndValidate, Validate
  <2>6. \A p \in Procs : block(found[p], all)
    BY <1>b, <2>1 DEF Gather
  <2>7. block(page, ap) /\ \A p \in Procs : block(found[p], ap)
    BY <1>0, <2>3, <2>6, BlockConcat
  <2>8. block(e, list) /\ block(page, list) /\ \A p \in Procs : block(found[p], list)
    BY <1>0, <2>4, <2>7, BlockConcat
  <2>9. sources = Range(found) \cup {page} \cup {e}
    BY <2>1, <2>2 DEF sources
  <2>10. \A s \in sources : s \in Seq(Candidates) /\ block(s, list)
    BY <1>0, <2>8, <2>9 DEF Range
  <2> QED BY <2>1, <2>5, <2>10, SortAndValidateRanks
<1>7. CASE ReturnResults \/ Select \/ Expire \/ UNCHANGED vars
  BY <1>7, RankSame, Zenon DEF ReturnResults, Select, Expire, vars, Sel!Choose, Sel!Close
<1> QED BY <1>1, <1>2, <1>3, <1>4, <1>5, <1>6, <1>7 DEF Next, Main

\* For every list of providers and every order of their answers, the list handed to
\* validation has the safe candidates first and keeps each source's own ranking among
\* candidates of one licence.
THEOREM RankingIsKept == Spec => []RankKept
<1>1. Init => Placed
  <2>1. Init => gpc = [p \in Procs |-> "unstarted"]
    BY Zenon DEF Init
  <2> QED BY <2>1 DEF Placed
<1>2. Init => RankKept
  BY DEF Init, RankKept, handedOver
<1> QED BY <1>1, <1>2, PlacedNext, RankNext, GatherInvariant, HandedInvariant, PTL DEF Spec

-----------------------------------------------------------------------------
(* Every offer, as often as it was made *)

\* list holds each place of a family of lists once.
layout(at, list, P) ==
    /\ at \in [1..Len(list) -> slots(P)]
    /\ \A x, y \in 1..Len(list) : at[x] = at[y] => x = y
    /\ \A s \in slots(P) : \E x \in 1..Len(list) : at[x] = s
    /\ \A x \in 1..Len(list) : list[x] = P[at[x][1]][at[x][2]]
laid(list, P) == \E at : layout(at, list, P)

\* append under mu: the merged list holds the answers of the goroutines that are done,
\* each as often as it was given.
delivered == [p \in Procs |-> IF gpc[p] = "done" THEN found[p] ELSE <<>>]
Laid == laid(all, delivered)

\* The places of a family.
LEMMA SlotFacts ==
    ASSUME NEW P, NEW s
    PROVE  s \in slots(P) <=> /\ s = <<s[1], s[2]>> /\ s[1] \in DOMAIN P
                              /\ s[2] \in 1..Len(P[s[1]])
<1>1. ASSUME s \in slots(P)
      PROVE  s = <<s[1], s[2]>> /\ s[1] \in DOMAIN P /\ s[2] \in 1..Len(P[s[1]])
  <2>1. PICK q \in DOMAIN P : s \in {q} \X (1..Len(P[q]))
    BY <1>1, Zenon DEF slots
  <2> QED BY <2>1
<1>2. ASSUME s = <<s[1], s[2]>>, s[1] \in DOMAIN P, s[2] \in 1..Len(P[s[1]])
      PROVE  s \in slots(P)
  <2>1. s \in {s[1]} \X (1..Len(P[s[1]]))
    BY <1>2
  <2> QED BY <1>2, <2>1, Zenon DEF slots
<1> QED BY <1>1, <1>2

\* The empty list holds a family of empty ones.
LEMMA LaidEmpty ==
    ASSUME NEW P, \A q \in DOMAIN P : P[q] = <<>>
    PROVE  laid(<<>>, P)
<1>1. slots(P) = {} /\ 1..Len(<<>>) = {}
  BY SlotFacts
<1>2. PICK at : at = [x \in 1..Len(<<>>) |-> x]
  BY Zenon
<1>3. at \in [1..Len(<<>>) -> slots(P)]
  BY <1>1, <1>2
<1> QED BY <1>1, <1>3, Zenon DEF laid, layout

\* Appending the answer of one that had given none.
LEMMA LaidMore ==
    ASSUME NEW C, NEW list \in Seq(C), NEW Q, NEW P \in [Q -> Seq(C)], NEW q \in Q,
           P[q] = <<>>, NEW e \in Seq(C), laid(list, P)
    PROVE  laid(list \o e, [P EXCEPT ![q] = e])
<1>0. PICK at : layout(at, list, P)
  BY DEF laid
<1>1. /\ at \in [1..Len(list) -> slots(P)]
      /\ \A x, y \in 1..Len(list) : at[x] = at[y] => x = y
      /\ \A s \in slots(P) : \E x \in 1..Len(list) : at[x] = s
      /\ \A x \in 1..Len(list) : list[x] = P[at[x][1]][at[x][2]]
  BY <1>0 DEF layout
<1>2. PICK R : R = [P EXCEPT ![q] = e]
  BY Zenon
<1>3. R \in [Q -> Seq(C)] /\ R[q] = e /\ \A p \in Q : p # q => R[p] = P[p]
  BY <1>2
<1>4. PICK n, m, t : n = Len(list) /\ m = Len(e) /\ t = list \o e
  BY Zenon
<1>5. /\ n \in Nat /\ m \in Nat /\ Len(t) = n + m
      /\ \A x \in 1..n : t[x] = list[x]
      /\ \A x \in 1..m : t[n + x] = e[x]
  BY <1>4
<1>6. \A s \in slots(P) : s \in slots(R) /\ s[1] \in Q /\ s[1] # q
  BY <1>3, SlotFacts
<1>7. \A x \in 1..m : <<q, x>> \in slots(R)
  BY <1>3, <1>4, SlotFacts, Zenon
<1>8. ASSUME NEW s \in slots(R) PROVE s \in slots(P) \/ \E x \in 1..m : s = <<q, x>>
  <2>1. s = <<s[1], s[2]>> /\ s[1] \in Q /\ s[2] \in 1..Len(R[s[1]])
    BY <1>3, SlotFacts
  <2>2. CASE s[1] = q
    <3>1. s[2] \in 1..m /\ s = <<q, s[2]>>
      BY <1>3, <1>4, <2>1, <2>2
    <3> QED BY <3>1
  <2>3. CASE s[1] # q
    BY <1>3, <2>1, <2>3, SlotFacts
  <2> QED BY <2>2, <2>3
<1>9. PICK to : to = [x \in 1..(n + m) |-> IF x \in 1..n THEN at[x] ELSE <<q, x - n>>]
  BY Zenon
<1>10. \A x \in 1..n : x \in 1..(n + m) /\ to[x] = at[x] /\ at[x] \in slots(P)
  <2>1. \A x \in 1..n : x \in 1..(n + m)
    BY <1>5
  <2>2. \A x \in 1..n : to[x] = at[x]
    BY <1>9, <2>1, Zenon
  <2>3. \A x \in 1..n : at[x] \in slots(P)
    BY <1>1, <1>4, Zenon
  <2> QED BY <2>1, <2>2, <2>3, Zenon
<1>11. \A x \in 1..(n + m) : x \notin 1..n => x - n \in 1..m /\ to[x] = <<q, x - n>>
  BY <1>5, <1>9
<1>12. to \in [1..(n + m) -> slots(R)]
  <2>1. \A x \in 1..(n + m) : to[x] \in slots(R)
    BY <1>6, <1>7, <1>10, <1>11, Zenon
  <2> QED BY <1>9, <2>1
<1>13. ASSUME NEW x \in 1..(n + m), NEW y \in 1..(n + m), to[x] = to[y] PROVE x = y
  <2>1. CASE x \in 1..n /\ y \in 1..n
    BY <1>1, <1>4, <1>10, <1>13, <2>1
  <2>2. CASE x \notin 1..n /\ y \notin 1..n
    <3>1. x - n = y - n
      BY <1>11, <1>13, <2>2
    <3> QED BY <1>5, <3>1
  <2>3. CASE x \in 1..n /\ y \notin 1..n
    <3>1. to[x][1] # q
      BY <1>6, <1>10, <2>3, Zenon
    <3>2. to[y][1] = q
      BY <1>11, <2>3
    <3> QED BY <1>13, <3>1, <3>2
  <2>4. CASE x \notin 1..n /\ y \in 1..n
    <3>1. to[x][1] = q
      BY <1>11, <2>4
    <3>2. to[y][1] # q
      BY <1>6, <1>10, <2>4, Zenon
    <3> QED BY <1>13, <3>1, <3>2
  <2> QED BY <2>1, <2>2, <2>3, <2>4
<1>14. ASSUME NEW s \in slots(R) PROVE \E x \in 1..(n + m) : to[x] = s
  <2>1. CASE s \in slots(P)
    BY <1>1, <1>4, <1>10, <2>1, Zenon
  <2>2. ASSUME NEW x \in 1..m, s = <<q, x>> PROVE \E y \in 1..(n + m) : to[y] = s
    <3>1. n + x \in 1..(n + m) /\ n + x \notin 1..n /\ (n + x) - n = x
      BY <1>5
    <3> QED BY <1>11, <2>2, <3>1
  <2> QED BY <1>8, <2>1, <2>2
<1>15. ASSUME NEW x \in 1..(n + m) PROVE t[x] = R[to[x][1]][to[x][2]]
  <2>1. CASE x \in 1..n
    BY <1>1, <1>3, <1>4, <1>5, <1>6, <1>10, <2>1
  <2>2. CASE x \notin 1..n
    <3>1. x - n \in 1..m /\ to[x][1] = q /\ to[x][2] = x - n
      BY <1>11, <2>2
    <3>2. t[x] = e[x - n]
      <4>1. x = n + (x - n)
        BY <1>5
      <4> QED BY <1>5, <3>1, <4>1
    <3> QED BY <1>3, <3>1, <3>2
  <2> QED BY <2>1, <2>2
<1>16. laid(t, R)
  <2>1. 1..Len(t) = 1..(n + m)
    BY <1>5
  <2>2. \A x, y \in 1..(n + m) : to[x] = to[y] => x = y
    BY <1>13, Zenon
  <2>3. \A s \in slots(R) : \E x \in 1..(n + m) : to[x] = s
    BY <1>14, Zenon
  <2>4. \A x \in 1..(n + m) : t[x] = R[to[x][1]][to[x][2]]
    BY <1>15, Zenon
  <2>5. layout(to, t, R)
    BY <1>12, <2>1, <2>2, <2>3, <2>4, Zenon DEF layout
  <2> QED BY <2>5 DEF laid
<1> QED BY <1>2, <1>4, <1>16

\* A family with more members, which are empty, has no more places.
LEMMA LaidWiden ==
    ASSUME NEW list, NEW P, NEW R, DOMAIN P \subseteq DOMAIN R,
           \A q \in DOMAIN R : R[q] = IF q \in DOMAIN P THEN P[q] ELSE <<>>,
           laid(list, P)
    PROVE  laid(list, R)
<1>1. slots(P) = slots(R)
  <2>1. \A q \in DOMAIN R : q \notin DOMAIN P => 1..Len(R[q]) = {}
    OBVIOUS
  <2>2. ASSUME NEW s PROVE s \in slots(P) <=> s \in slots(R)
    BY <2>1, SlotFacts
  <2> QED BY <2>2, Zenon
<1>2. \A s \in slots(P) : R[s[1]] = P[s[1]]
  BY SlotFacts
<1>3. PICK at : layout(at, list, P)
  BY DEF laid
<1>4. layout(at, list, R)
  BY <1>1, <1>2, <1>3 DEF layout
<1> QED BY <1>4 DEF laid

\* Sorting moves what a list holds and drops nothing.
LEMMA LaidSorted ==
    ASSUME NEW list \in Seq(Candidates), NEW f \in stableOrders(list), NEW P, laid(list, P),
           NEW t, t = [k \in 1..Len(list) |-> list[f[k]]]
    PROVE  laid(t, P)
<1>0. PICK D : D = 1..Len(list)
  BY Zenon
<1>a. PICK at : layout(at, list, P)
  BY DEF laid
<1>1. /\ at \in [D -> slots(P)]
      /\ \A x, y \in D : at[x] = at[y] => x = y
      /\ \A s \in slots(P) : \E x \in D : at[x] = s
      /\ \A x \in D : list[x] = P[at[x][1]][at[x][2]]
  BY <1>0, <1>a DEF layout
<1>2. /\ f \in [D -> D]
      /\ \A j, k \in D : f[j] = f[k] => j = k
      /\ \A x \in D : \E j \in D : f[j] = x
  BY <1>0, OrderFacts
<1>3. Len(t) = Len(list)
  <2>1. Len(list) \in Nat /\ \A k \in D : list[f[k]] \in Candidates
    BY <1>0, <1>2, LenProperties
  <2> QED BY <1>0, <2>1
<1>4. PICK to : to = [k \in D |-> at[f[k]]]
  BY Zenon
<1>5. to \in [D -> slots(P)] /\ \A k \in D : to[k] = at[f[k]] /\ t[k] = list[f[k]] /\ f[k] \in D
  BY <1>0, <1>1, <1>2, <1>4, Zenon
<1>6. ASSUME NEW x \in D, NEW y \in D, to[x] = to[y] PROVE x = y
  <2>1. at[f[x]] = at[f[y]] /\ f[x] \in D /\ f[y] \in D
    BY <1>5, <1>6, Zenon
  <2>2. f[x] = f[y]
    BY <1>1, <2>1, Zenon
  <2> QED BY <1>2, <2>2, Zenon
<1>7. ASSUME NEW s \in slots(P) PROVE \E x \in D : to[x] = s
  <2>1. PICK y \in D : at[y] = s
    BY <1>1, Zenon
  <2>2. PICK x \in D : f[x] = y
    BY <1>2, Zenon
  <2>3. to[x] = s
    BY <1>5, <2>1, <2>2, Zenon
  <2> QED BY <2>3, Zenon
<1>8. ASSUME NEW x \in D PROVE t[x] = P[to[x][1]][to[x][2]]
  <2>1. PICK y \in D : y = f[x]
    BY <1>5, Zenon
  <2>2. to[x] = at[y] /\ t[x] = list[y]
    BY <1>5, <2>1, Zenon
  <2>3. list[y] = P[at[y][1]][at[y][2]]
    BY <1>1, Zenon
  <2> QED BY <2>2, <2>3, Zenon
<1>9. layout(to, t, P)
  BY <1>0, <1>3, <1>5, <1>6, <1>7, <1>8 DEF layout
<1> QED BY <1>9, Zenon DEF laid

\* Every step keeps Laid.
LEMMA LaidNext == Gather /\ Laid /\ [Next]_vars => Laid'
<1> SUFFICES ASSUME Gather, Laid, [Next]_vars PROVE Laid'
  OBVIOUS
<1> USE DEF selection
<1>0. /\ TypeOK /\ req \in Requests /\ all \in Seq(Candidates)
      /\ DOMAIN found = Procs /\ DOMAIN gpc = Procs /\ \A p \in Procs : found[p] \in Seq(Candidates)
  BY DEF Gather, TypeOK
<1>a. ASSUME req' = req PROVE Procs' = Procs
  BY <1>a, Zenon DEF Procs, providers, resolveProviders
<1>b. ASSUME req' = req, all' = all,
             \A p \in Procs : (IF gpc'[p] = "done" THEN found'[p] ELSE <<>>)
                                  = (IF gpc[p] = "done" THEN found[p] ELSE <<>>)
      PROVE  Laid'
  <2>1. delivered' = delivered
    BY <1>a, <1>b DEF delivered
  <2> QED BY <1>b, <2>1 DEF Laid
<1>c. ASSUME Idle PROVE Laid'
  BY <1>b, <1>c DEF Idle
<1>1. CASE StartProviders
  <2>1. /\ UNCHANGED <<req, all>> /\ gpc' = [p \in Procs |-> "searching"]
        /\ \A p \in Procs : gpc[p] = "unstarted"
    BY <1>1, Zenon DEF StartProviders, Gather
  <2> QED BY <1>b, <2>1
<1>2. ASSUME NEW p \in Procs, Answer(p) PROVE Laid'
  <2>1. UNCHANGED <<req, all>> /\ gpc' = [gpc EXCEPT ![p] = "append"] /\ gpc[p] = "searching"
    BY <1>2 DEF Answer
  <2>2. PICK list : found' = [found EXCEPT ![p] = list]
    BY <1>2, Zenon DEF Answer
  <2>3. \A q \in Procs : (IF gpc'[q] = "done" THEN found'[q] ELSE <<>>)
                             = (IF gpc[q] = "done" THEN found[q] ELSE <<>>)
    BY <1>0, <2>1, <2>2
  <2> QED BY <1>b, <2>1, <2>3
<1>3. ASSUME NEW p \in Procs, Fail(p) PROVE Laid'
  <2>1. /\ UNCHANGED <<req, found, all>> /\ gpc[p] = "searching" /\ gpc' = [gpc EXCEPT ![p] = "done"]
    BY <1>3 DEF Fail
  <2>2. found[p] = <<>>
    BY <2>1 DEF Gather
  <2>3. \A q \in Procs : (IF gpc'[q] = "done" THEN found'[q] ELSE <<>>)
                             = (IF gpc[q] = "done" THEN found[q] ELSE <<>>)
    BY <1>0, <2>1, <2>2
  <2> QED BY <1>b, <2>1, <2>3
<1>4. ASSUME NEW p \in Procs, AppendAnswer(p) PROVE Laid'
  <2>1. /\ UNCHANGED <<req, found>> /\ all' = all \o found[p] /\ gpc[p] = "append"
        /\ gpc' = [gpc EXCEPT ![p] = "done"]
    BY <1>4 DEF AppendAnswer
  <2>2. PICK P, R, Q : P = delivered /\ R = delivered' /\ Q = Procs
    OBVIOUS
  <2>3. P \in [Q -> Seq(Candidates)] /\ p \in Q /\ P[p] = <<>>
    BY <1>0, <2>1, <2>2 DEF delivered
  <2>4. R = [q \in Q |-> IF gpc'[q] = "done" THEN found[q] ELSE <<>>]
    BY <1>a, <2>1, <2>2 DEF delivered
  <2>5. R = [P EXCEPT ![p] = found[p]]
    <3>1. R[p] = found[p]
      BY <1>0, <2>1, <2>2, <2>4
    <3>2. \A q \in Q : q # p => R[q] = P[q]
      BY <1>0, <2>1, <2>2, <2>4 DEF delivered
    <3>3. DOMAIN R = Q /\ R = [q \in Q |-> R[q]]
      BY <2>4
    <3> QED BY <2>3, <3>1, <3>2, <3>3, Zenon
  <2>6. laid(all \o found[p], R)
    <3>1. PICK list \in Seq(Candidates), e \in Seq(Candidates) : list = all /\ e = found[p]
      BY <1>0
    <3>2. laid(list, P)
      BY <2>2, <3>1 DEF Laid
    <3>3. laid(list \o e, [P EXCEPT ![p] = e])
      BY <2>3, <3>2, LaidMore, Zenon
    <3> QED BY <2>5, <3>1, <3>3
  <2> QED BY <2>1, <2>2, <2>6 DEF Laid
<1>5. ASSUME NEW p \in Procs, Panic(p) PROVE Laid'
  BY <1>c, <1>5 DEF Panic, Idle
<1>6. CASE ValidateCandidates \/ EmptyQuery \/ FinishSearch \/ FetchPage \/ FinishFind
  BY <1>c, <1>6, Zenon DEF ValidateCandidates, EmptyQuery, FinishSearch, FetchPage, FinishFind, Idle
<1>7. CASE ReturnResults \/ Select \/ Expire \/ UNCHANGED vars
  BY <1>c, <1>7 DEF ReturnResults, Select, Expire, vars, Idle
<1> QED BY <1>1, <1>2, <1>3, <1>4, <1>5, <1>6, <1>7 DEF Next, Main

\* The list handed to validation holds every place of every list that was offered,
\* exactly once.
Counted == handedOver => laid(call.toValidate, offers)

\* A step that touches neither the sources nor the call.
LEMMA CountedSame ==
    ASSUME Counted, UNCHANGED <<req, found, page, call>>
    PROVE  Counted'
<1>1. offers' = offers /\ handedOver' = handedOver
  BY Zenon DEF offers, feeds, Procs, providers, resolveProviders, handedOver, NoCall
<1> QED BY <1>1 DEF Counted

\* The two ways a search ends.
LEMMA SortAndValidateCounts ==
    ASSUME NEW list \in Seq(Candidates), ~handedOver, UNCHANGED <<req, found, page>>,
           laid(list, offers), SortAndValidate(list)
    PROVE  Counted'
<1>1. CASE list = <<>> /\ ReturnNil
  <2>1. ~handedOver'
    BY <1>1 DEF ReturnNil, selection, handedOver, NoCall
  <2> QED BY <2>1 DEF Counted
<1>2. CASE list # <<>> /\ \E f \in stableOrders(list) : Validate([k \in 1..Len(list) |-> list[f[k]]])
  <2>1. PICK f \in stableOrders(list) : Validate([k \in 1..Len(list) |-> list[f[k]]])
    BY <1>2, Zenon
  <2>2. PICK t, P : t = [k \in 1..Len(list) |-> list[f[k]]] /\ P = offers
    BY Zenon
  <2>3. call'.toValidate = t
    BY <2>1, <2>2 DEF Validate
  <2>4. laid(t, P)
    BY <2>2, LaidSorted
  <2>5. offers' = P
    BY <2>2, Zenon DEF offers, feeds, Procs, providers, resolveProviders
  <2> QED BY <2>3, <2>4, <2>5 DEF Counted
<1> QED BY <1>1, <1>2 DEF SortAndValidate

\* Every step keeps the count.
LEMMA CountedNext == Gather /\ Handed /\ Laid /\ Counted /\ [Next]_vars => Counted'
<1> SUFFICES ASSUME Gather, Handed, Laid, Counted, [Next]_vars PROVE Counted'
  OBVIOUS
<1> USE DEF selection
<1>0. /\ TypeOK /\ req \in Requests /\ all \in Seq(Candidates) /\ page \in Seq(Candidates)
      /\ DOMAIN found = Procs /\ found \in [Procs -> Seq(Candidates)]
  BY DEF Gather, TypeOK
<1>e. req.External \in Seq(Candidates) /\ Len(providers) \in Nat
  BY <1>0, RequestFacts
<1>p. Procs \subseteq feeds /\ 0 \notin Procs /\ -1 \notin Procs
  BY <1>e DEF feeds, Procs
<1>b. ASSUME \A p \in Procs : gpc[p] \in {"done", "unstarted"}
      PROVE  laid(all, found)
  <2>1. \A p \in Procs : (IF gpc[p] = "done" THEN found[p] ELSE <<>>) = found[p]
    BY <1>b DEF Gather
  <2>2. delivered = found
    BY <1>0, <2>1 DEF delivered
  <2> QED BY <2>2 DEF Laid
<1>1. CASE ValidateCandidates
  <2>1. /\ main = "begin" /\ req.entry = "ValidateCandidates" /\ UNCHANGED <<req, found, page>>
        /\ page = <<>> /\ \A p \in Procs : found[p] = <<>>
    BY <1>1 DEF ValidateCandidates, Gather
  <2>2. CASE req.External = <<>> /\ ReturnNil
    BY <2>1, <2>2, CountedSame DEF ReturnNil
  <2>3. CASE req.External # <<>> /\ Validate(req.External)
    <3>1. call'.toValidate = req.External
      BY <2>3 DEF Validate
    <3>2. PICK e \in Seq(Candidates) : e = req.External
      BY <1>e
    <3>3. PICK P : P = [q \in feeds |-> <<>>]
      BY Zenon
    <3>4. -1 \in feeds
      BY <2>1 DEF feeds
    <3>5. laid(<<>>, P) /\ P \in [feeds -> Seq(Candidates)] /\ P[-1] = <<>>
      BY <3>3, <3>4, LaidEmpty
    <3>6. laid(<<>> \o e, [P EXCEPT ![-1] = e])
      <4>1. <<>> \in Seq(Candidates)
        OBVIOUS
      <4> QED BY <3>4, <3>5, <4>1, LaidMore, Zenon
    <3>7. <<>> \o e = e
      OBVIOUS
    <3>8. [P EXCEPT ![-1] = e] = offers
      <4>1. \A q \in feeds : q # 0 /\ q # -1 => found[q] = <<>>
        BY <2>1 DEF feeds
      <4> QED BY <1>p, <2>1, <3>2, <3>3, <3>4, <4>1 DEF offers
    <3>9. offers' = offers
      BY <2>1, Zenon DEF offers, feeds, Procs, providers, resolveProviders
    <3> QED BY <3>1, <3>2, <3>6, <3>7, <3>8, <3>9, Zenon DEF Counted
  <2> QED BY <1>1, <2>2, <2>3 DEF ValidateCandidates
<1>2. CASE EmptyQuery \/ StartProviders
  BY <1>2, CountedSame, Zenon DEF EmptyQuery, StartProviders, ReturnNil
<1>3. ASSUME NEW p \in Procs, Answer(p) \/ Fail(p) \/ Panic(p) \/ AppendAnswer(p) PROVE Counted'
  <2>1. /\ gpc[p] \in {"searching", "append"} /\ main # "crashed" /\ UNCHANGED <<req, call>>
    BY <1>3 DEF Answer, Fail, Panic, AppendAnswer, running
  <2>2. main = "gathering"
    BY <2>1, <1>0 DEF Gather, TypeOK
  <2>3. ~handedOver'
    BY <2>1, <2>2 DEF Handed, handedOver, NoCall
  <2> QED BY <2>3 DEF Counted
<1>4. CASE FinishSearch
  <2>1. /\ gathered /\ req.entry = "SearchImagesWithOpts" /\ SortAndValidate(all)
        /\ UNCHANGED <<req, found, page>>
    BY <1>4 DEF FinishSearch
  <2>2. ~handedOver
    BY <2>1 DEF Handed, gathered
  <2>3. PICK list \in Seq(Candidates) : list = all
    BY <1>0
  <2>4. SortAndValidate(list)
    BY <2>1, <2>3 DEF SortAndValidate, Validate
  <2>5. offers = found
    <3>1. feeds = Procs /\ \A q \in feeds : q # 0 /\ q # -1
      BY <1>p, <2>1 DEF feeds
    <3> QED BY <1>0, <3>1 DEF offers
  <2>6. laid(list, offers)
    BY <1>b, <2>1, <2>3, <2>5 DEF gathered
  <2> QED BY <2>1, <2>2, <2>4, <2>6, SortAndValidateCounts
<1>5. CASE FetchPage
  <2>1. /\ main \in {"begin", "gathering"} /\ UNCHANGED <<req, call>>
    BY <1>5, Zenon DEF FetchPage, gathered
  <2>2. ~handedOver'
    BY <2>1 DEF Handed, handedOver, NoCall
  <2> QED BY <2>2 DEF Counted
<1>6. CASE FinishFind
  <2>1. /\ main = "merging" /\ req.entry = "FindImages" /\ UNCHANGED <<req, found, page>>
        /\ SortAndValidate(all \o page \o req.External) /\ ~handedOver
    BY <1>6 DEF FinishFind, Gather, Handed
  <2>2. PICK e \in Seq(Candidates), g \in Seq(Candidates), a \in Seq(Candidates) :
            e = req.External /\ g = page /\ a = all
    BY <1>0, <1>e
  <2>3. PICK ag \in Seq(Candidates) : ag = a \o g
    BY RangeConcat, Zenon
  <2>4. PICK list \in Seq(Candidates) : list = ag \o e
    BY RangeConcat, Zenon
  <2>5. SortAndValidate(list)
    BY <2>1, <2>2, <2>3, <2>4, Zenon DEF SortAndValidate, Validate
  <2>6. laid(a, found)
    BY <1>b, <2>1, <2>2 DEF Gather
  <2>7. PICK F, P0, P1, P2 :
            /\ F = feeds
            /\ P0 = [q \in F |-> IF q \in Procs THEN found[q] ELSE <<>>]
            /\ P1 = [P0 EXCEPT ![0] = g]
            /\ P2 = [P1 EXCEPT ![-1] = e]
    BY Zenon
  <2>8. 0 \in F /\ -1 \in F /\ Procs \subseteq F /\ F = Procs \cup {0, -1}
    BY <1>p, <2>1, <2>7 DEF feeds
  <2>9. P0 \in [F -> Seq(Candidates)] /\ P0[0] = <<>> /\ P0[-1] = <<>>
    BY <1>0, <1>p, <2>7, <2>8
  <2>10. P1 \in [F -> Seq(Candidates)] /\ P1[-1] = <<>>
    <3>1. -1 # 0
      OBVIOUS
    <3> QED BY <2>7, <2>8, <2>9, <3>1, Zenon
  <2>11. laid(a, P0)
    BY <1>0, <2>6, <2>7, <2>8, <2>9, LaidWiden, Zenon
  <2>12. laid(ag, P1)
    BY <2>3, <2>7, <2>8, <2>9, <2>11, LaidMore, Zenon
  <2>13. laid(list, P2)
    BY <2>4, <2>7, <2>8, <2>10, <2>12, LaidMore, Zenon
  <2>14. P2 = offers
    <3>1. \A q \in F : P2[q] = IF q = 0 THEN g ELSE IF q = -1 THEN e ELSE found[q]
      <4>1. P2[-1] = e
        BY <2>7, <2>8, <2>10
      <4>2. P2[0] = g
        <5>1. -1 # 0
          OBVIOUS
        <5>2. P2[0] = P1[0]
          BY <2>7, <2>8, <2>10, <5>1
        <5> QED BY <2>7, <2>8, <2>9, <5>2
      <4>3. ASSUME NEW q \in Procs PROVE P2[q] = found[q]
        <5>1. q # 0 /\ q # -1 /\ q \in F
          BY <1>p, <2>8
        <5>2. P2[q] = P1[q]
          BY <2>7, <2>10, <5>1
        <5>3. P1[q] = P0[q]
          BY <2>7, <2>9, <5>1
        <5> QED BY <2>7, <5>1, <5>2, <5>3
      <4> QED BY <1>p, <2>8, <4>1, <4>2, <4>3
    <3>2. P2 \in [F -> Seq(Candidates)]
      BY <2>7, <2>10, Zenon
    <3> QED BY <2>2, <2>7, <3>1, <3>2, Zenon DEF offers
  <2> QED BY <2>1, <2>5, <2>13, <2>14, SortAndValidateCounts
<1>7. CASE ReturnResults \/ Select \/ Expire \/ UNCHANGED vars
  BY <1>7, CountedSame, Zenon DEF ReturnResults, Select, Expire, vars, Sel!Choose, Sel!Close
<1> QED BY <1>1, <1>2, <1>3, <1>4, <1>5, <1>6, <1>7 DEF Next, Main

\* Lists that hold the same places hold each thing as often.
LEMMA LaidCounts ==
    ASSUME NEW list \in Seq(Candidates), NEW P, laid(list, P), NEW c
    PROVE  timesIn(list, c) = timesOffered(P, c)
<1>1. PICK at : layout(at, list, P)
  BY DEF laid
<1>2. PICK D, K, S : /\ D = 1..Len(list)
                     /\ K = {k \in D : list[k] = c}
                     /\ S = {s \in slots(P) : P[s[1]][s[2]] = c}
  BY Zenon
<1>3. /\ at \in [D -> slots(P)]
      /\ \A x, y \in D : at[x] = at[y] => x = y
      /\ \A s \in slots(P) : \E x \in D : at[x] = s
      /\ \A x \in D : list[x] = P[at[x][1]][at[x][2]]
  BY <1>1, <1>2 DEF layout
<1>4. IsFiniteSet(K)
  <2>1. Len(list) \in Nat
    BY LenProperties, Zenon
  <2>2. PICK n \in Int : n = Len(list)
    BY <2>1
  <2>3. IsFiniteSet(1..n)
    BY FS_Interval
  <2>4. IsFiniteSet(D)
    BY <1>2, <2>2, <2>3, Zenon
  <2>5. K \subseteq D
    BY <1>2, Zenon
  <2> QED BY <2>4, <2>5, FS_Subset, Zenon
<1>5. PICK on : on = [k \in K |-> at[k]]
  BY Zenon
<1>6. \A k \in K : k \in D /\ on[k] = at[k] /\ at[k] \in S
  BY <1>2, <1>3, <1>5, Zenon
<1>7. on \in [K -> S]
  BY <1>5, <1>6
<1>8. ASSUME NEW s \in S PROVE \E k \in K : on[k] = s
  <2>1. s \in slots(P) /\ P[s[1]][s[2]] = c
    BY <1>2, Zenon
  <2>2. PICK x \in D : at[x] = s
    BY <1>3, <2>1, Zenon
  <2>3. list[x] = c
    BY <1>3, <2>1, <2>2, Zenon
  <2>4. x \in K
    BY <1>2, <2>3, Zenon
  <2> QED BY <1>6, <2>2, <2>4, Zenon
<1>9. \A x, y \in K : on[x] = on[y] => x = y
  BY <1>3, <1>6, Zenon
<1>10. on \in Bijection(K, S)
  BY <1>7, <1>8, <1>9 DEF Bijection, Injection, Surjection, IsInjective
<1>11. Cardinality(S) = Cardinality(K)
  BY <1>4, <1>10, FS_Bijection DEF ExistsBijection
<1> QED BY <1>2, <1>11 DEF timesIn, timesOffered

\* For every list of providers, every answer and every order of the appends, each
\* candidate reaches validation exactly as often as it was offered.
THEOREM OfferedReachesValidation == Spec => []OfferedIsValidated
<1>1. Init => Laid
  <2> SUFFICES ASSUME Init PROVE Laid
    OBVIOUS
  <2>1. all = <<>> /\ gpc = [p \in Procs |-> "unstarted"]
    BY Zenon DEF Init
  <2>2. PICK P : P = delivered
    OBVIOUS
  <2>3. \A p \in DOMAIN P : P[p] = <<>>
    BY <2>1, <2>2 DEF delivered
  <2> QED BY <2>1, <2>2, <2>3, LaidEmpty DEF Laid
<1>2. Init => Counted
  BY DEF Init, Counted, handedOver
<1>3. Handed /\ Counted => OfferedIsValidated
  <2> SUFFICES ASSUME Handed, Counted, handedOver,
                      NEW c \in offered \cup Range(call.toValidate)
               PROVE  timesIn(call.toValidate, c) = timesOffered(offers, c)
    BY Zenon DEF OfferedIsValidated
  <2>1. PICK list \in Seq(Candidates) : list = call.toValidate
    BY DEF Handed
  <2>2. PICK P : P = offers
    BY Zenon
  <2>3. laid(list, P)
    BY <2>1, <2>2 DEF Counted
  <2>4. timesIn(list, c) = timesOffered(P, c)
    BY <2>3, LaidCounts, Zenon
  <2> QED BY <2>1, <2>2, <2>4
<1> QED BY <1>1, <1>2, <1>3, LaidNext, CountedNext, GatherInvariant, HandedInvariant, PTL DEF Spec

-----------------------------------------------------------------------------
(* The page *)

\* The wired providers that look at the page.
pageProcs == {p \in Procs : providers[p] \in {"content", "og"}}

\* The calls of which PageFetchedOnce speaks.
asksForPage ==
    /\ req.entry = "FindImages" /\ req.Query /\ req.PageURL # ""
    /\ req.optsPageURL \in {"", req.PageURL}

\* While the providers search, each that looks at the page has been asked.
Fetched ==
    asksForPage /\ main = "gathering" => fetches = Cardinality(pageProcs)

\* A page provider in the configuration is one of the providers that are asked.
LEMMA PageProviders ==
    ASSUME req \in Requests, asksForPage
    PROVE  /\ IsFiniteSet(pageProcs) /\ Cardinality(pageProcs) \in Nat
           /\ hasPageProvider <=> pageProcs # {}
<1>1. req.cfg.Providers \in Seq(Names) /\ DOMAIN req.cfg.Providers = 1..Len(req.cfg.Providers)
  BY RequestAssumption
<1>2. Len(providers) \in Nat
  BY RequestFacts
<1>3. IsFiniteSet(pageProcs) /\ Cardinality(pageProcs) \in Nat
  <2>1. IsFiniteSet(Procs)
    BY <1>2, FS_Interval DEF Procs
  <2>2. pageProcs \subseteq Procs
    BY DEF pageProcs
  <2> QED BY <2>1, <2>2, FS_Subset, FS_CardinalityType
<1>4. CASE req.cfg.Providers # <<>>
  <2>1. providers = req.cfg.Providers
    BY <1>4 DEF providers, resolveProviders
  <2>2. hasPageProvider <=> \E p \in 1..Len(req.cfg.Providers) : req.cfg.Providers[p] \in {"content", "og"}
    BY <1>1, Zenon DEF hasPageProvider, Range
  <2> QED BY <1>3, <2>1, <2>2 DEF pageProcs, Procs
<1>5. CASE req.cfg.Providers = <<>>
  <2>1. ~hasPageProvider
    BY <1>5 DEF hasPageProvider, Range
  <2>2. providers \in {<<>>, <<"searxng">>}
    BY <1>5 DEF providers, resolveProviders
  <2>3. pageProcs = {}
    BY <2>2 DEF pageProcs, Procs
  <2> QED BY <1>3, <2>1, <2>3
<1> QED BY <1>4, <1>5

\* Every step keeps the count of fetches.
LEMMA FetchedNext ==
    Gather /\ Fetched /\ PageFetchedOnce /\ [Next]_vars => Fetched' /\ PageFetchedOnce'
<1> SUFFICES ASSUME Gather, Fetched, PageFetchedOnce, [Next]_vars PROVE Fetched' /\ PageFetchedOnce'
  OBVIOUS
<1> USE DEF selection
<1>0. req \in Requests /\ fetches \in Nat
  BY DEF Gather, TypeOK
<1>a. req' = req
  BY Zenon DEF Next, Main, ValidateCandidates, EmptyQuery, StartProviders, FinishSearch, FetchPage,
         FinishFind, ReturnResults, Expire, Select, Answer, Fail, Panic, AppendAnswer, vars
<1>b. pageProcs' = pageProcs /\ asksForPage' = asksForPage
  BY <1>a, Zenon DEF pageProcs, Procs, providers, resolveProviders, asksForPage
<1>c. PageFetchedOnce <=> (asksForPage /\ Cardinality(pageProcs) <= 1
                            /\ main \in {"merging", "validating", "returned"} => fetches = 1)
  BY Zenon DEF PageFetchedOnce, asksForPage, pageProcs
<1>d. PageFetchedOnce' <=> (asksForPage /\ Cardinality(pageProcs) <= 1
                            /\ main' \in {"merging", "validating", "returned"} => fetches' = 1)
  BY <1>a, <1>b, Zenon DEF PageFetchedOnce, asksForPage, pageProcs
<1>e. Fetched' <=> (asksForPage /\ main' = "gathering" => fetches' = Cardinality(pageProcs))
  BY <1>b DEF Fetched
<1>f. SUFFICES ASSUME asksForPage
               PROVE  /\ main' = "gathering" => fetches' = Cardinality(pageProcs)
                      /\ Cardinality(pageProcs) <= 1
                         /\ main' \in {"merging", "validating", "returned"} => fetches' = 1
  BY <1>d, <1>e
<1>g. req.entry = "FindImages" /\ asks
  BY <1>f, Zenon DEF asksForPage, asks
<1>1. CASE StartProviders
  <2>1. main' = "gathering" /\ fetches' = Cardinality(pageProcs)
    BY <1>1, <1>f, <1>g, Zenon DEF StartProviders, pageProcs, searchPageURL, asksForPage
  <2> QED BY <2>1
<1>2. CASE FetchPage
  <2>1. main = "gathering" /\ main' = "merging" /\ fetches = Cardinality(pageProcs)
    BY <1>2, <1>f, <1>g, Zenon DEF FetchPage, gathered, Fetched
  <2>2. CASE hasPageProvider
    <3>1. fetches' = fetches
      BY <1>2, <2>2 DEF FetchPage
    <3>2. Cardinality(pageProcs) # 0
      BY <1>0, <1>f, <2>2, PageProviders, FS_EmptySet
    <3>3. Cardinality(pageProcs) \in Nat
      BY <1>0, <1>f, PageProviders
    <3> QED BY <2>1, <3>1, <3>2, <3>3
  <2>3. CASE ~hasPageProvider
    <3>1. fetches' = fetches + 1
      BY <1>2, <1>f, <2>3, Zenon DEF FetchPage, asksForPage
    <3>2. Cardinality(pageProcs) = 0
      BY <1>0, <1>f, <2>3, PageProviders, FS_EmptySet
    <3> QED BY <2>1, <3>1, <3>2
  <2> QED BY <2>2, <2>3
<1>3. CASE FinishFind \/ ReturnResults
  <2>1. main \in {"merging", "validating"} /\ main' \in {"validating", "returned"} /\ fetches' = fetches
    BY <1>3, Zenon DEF FinishFind, ReturnResults, SortAndValidate, Validate, ReturnNil
  <2> QED BY <1>c, <1>f, <2>1
<1>4. CASE Select \/ Expire \/ UNCHANGED vars
  <2>1. main' = main /\ fetches' = fetches
    BY <1>4 DEF Select, Expire, vars
  <2> QED BY <1>c, <1>f, <2>1 DEF Fetched
<1>5. ASSUME NEW p \in Procs, Answer(p) \/ Fail(p) \/ Panic(p) \/ AppendAnswer(p)
      PROVE  main' \in {main, "crashed"} /\ fetches' = fetches
  BY <1>5 DEF Answer, Fail, Panic, AppendAnswer
<1>6. CASE main' \in {main, "crashed"} /\ fetches' = fetches
  BY <1>c, <1>f, <1>6 DEF Fetched
<1>7. ~ValidateCandidates /\ ~EmptyQuery /\ ~FinishSearch
  BY <1>g, Zenon DEF ValidateCandidates, EmptyQuery, FinishSearch
<1> QED BY <1>1, <1>2, <1>3, <1>4, <1>5, <1>6, <1>7 DEF Next, Main

\* For every list of providers, a FindImages with a query and a page asks for the
\* images of the page exactly once, a wired provider or FindImages itself.
THEOREM PageIsFetchedOnce == Spec => []PageFetchedOnce
<1>1. Init => Fetched /\ PageFetchedOnce
  BY DEF Init, Fetched, PageFetchedOnce
<1> QED BY <1>1, FetchedNext, GatherInvariant, PTL DEF Spec
==============================================================================
