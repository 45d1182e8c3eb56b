-------------------------- MODULE ValidationProofs ---------------------------
(***************************************************************************)
(* The safety properties of Validation for every set of calls, servers,    *)
(* classifiers and cache contents, and for every size of the semaphore.    *)
(***************************************************************************)
EXTENDS Validation, FiniteSetTheorems, SequenceTheorems, TLAPS

(* The steps between the semaphore's acquisition and its release. *)
QuietStep(i) ==
    \/ Probe(i) \/ DownloadImage(i) \/ isDuplicate(i) \/ assessAndAccept(i)
    \/ Reverse(i) \/ Lookup(i) \/ classifyFromData(i) \/ Store(i) \/ Panic(i)
StageStep(i) == QuietStep(i) \/ appendValidated(i)

(* TypeOK without the ranges of the two counters, which rest on what they count. *)
Types ==
    /\ call \in Calls
    /\ ctxDone \in BOOLEAN
    /\ main \in {"loop", "wait", "returned"}
    /\ next \in 1..Len(call.toValidate) + 1
    /\ wg \in Int /\ sem \in Int
    /\ pc \in [Idx -> Running \cup {"unstarted", "done"}]
    /\ data \in [Idx -> Download]
    /\ class \in [Idx -> Classes]
    /\ audit \in [Idx -> Seq(Events)]
    /\ fate \in [Idx -> Fates]
    /\ heard \in [Idx -> SUBSET {"fit", "stock"}]
    /\ hashes \in SUBSET [by : Idx, hash : Hashes]
    /\ cache \in [cacheKeys -> Classes \cup {NotCached}]
    /\ validated \in Seq(Idx)

-----------------------------------------------------------------------------
(* Types *)

\* The arguments of a call have the types InstanceAssumption gives them.
LEMMA CallTypes ==
    ASSUME call \in Calls
    PROVE  /\ call.toValidate \in Seq(ImageCandidate)
           /\ Len(call.toValidate) \in Nat
           /\ call.maxResults \in Int
           /\ \A i \in Idx : cand(i) \in ImageCandidate /\ imgURL(i) \in URLs
                             /\ imgURL(i).text \in cacheKeys
<1>1. call.toValidate \in Seq(ImageCandidate) /\ call.maxResults \in Int
  BY InstanceAssumption
<1>2. Len(call.toValidate) \in Nat
  BY <1>1
<1>3. ASSUME NEW i \in Idx
      PROVE  cand(i) \in ImageCandidate /\ imgURL(i) \in URLs /\ imgURL(i).text \in cacheKeys
  <2>1. cand(i) \in ImageCandidate
    BY <1>1, ElementOfSeq DEF Idx, cand
  <2>2. imgURL(i) \in URLs
    BY <2>1 DEF imgURL, ImageCandidate
  <2> QED BY <2>1, <2>2 DEF cacheKeys
<1> QED BY <1>1, <1>2, <1>3

\* A download, whatever the servers answered, is a Download.
LEMMA DownloadType ==
    ASSUME NEW c, NEW u \in URLs, NEW direct \in Answers(u), NEW stealth \in Answers(u)
    PROVE  downloadForValidation(c, direct, stealth) \in Download
<1> DEFINE r == DownloadWith(c, direct, stealth)
<1>0. NoMetadata \in ImageMetadata
  BY DEF NoMetadata, ImageMetadata
<1>1. \A a \in Answers(u) : a.look \in Hashes \cup {NoImage} /\ a.meta \in ImageMetadata
  BY InstanceAssumption, <1>0 DEF Answers, NoReply
<1>2. r.look \in Hashes \cup {NoImage} /\ r.meta \in ImageMetadata
  BY <1>0, <1>1 DEF DownloadWith, NoReply
<1>3. (fetched(r) /\ r.size > 0) \in BOOLEAN
  OBVIOUS
<1>4. (IF r.size \in 1..defaultMaxBytes THEN r.look ELSE NoImage) \in Hashes \cup {NoImage}
  BY <1>2
<1> QED BY <1>2, <1>3, <1>4, Zenon DEF downloadForValidation, Download

\* A call starts well typed.
LEMMA TypesInit == Init => Types
<1> SUFFICES ASSUME Init PROVE Types
  OBVIOUS
<1>1. Len(call.toValidate) \in Nat
  BY CallTypes, Zenon DEF Init
<1>2. NoData \in Download
  BY DEF NoData, Download, NoMetadata, ImageMetadata
<1>3. cache \in [cacheKeys -> Classes \cup {NotCached}]
  <2> DEFINE Before == IF call.cfg.Cache THEN CachedBefore ELSE {NotCached}
  <2>1. cache \in [cacheKeys -> Before] /\ Before \subseteq Classes \cup {NotCached}
    BY InstanceAssumption, Zenon DEF Init
  <2> HIDE DEF Before
  <2> QED BY <2>1
<1>4. audit \in [Idx -> Seq(Events)] /\ validated \in Seq(Idx)
  BY EmptySeq, Zenon DEF Init
<1>5. next \in 1..Len(call.toValidate) + 1
  <2>1. \A n \in Nat : 1 \in 1..n + 1
    OBVIOUS
  <2> QED BY <1>1, <2>1, Zenon DEF Init
<1>6. /\ pc \in [Idx -> Running \cup {"unstarted", "done"}]
      /\ class \in [Idx -> Classes]
      /\ fate \in [Idx -> Fates]
  BY Zenon DEF Init, Classes, Fates
<1>7. data \in [Idx -> Download] /\ hashes \in SUBSET [by : Idx, hash : Hashes]
  BY <1>2, Zenon DEF Init
<1>8. wg \in Int /\ sem \in Int
  <2>1. wg = 0 /\ sem = 0
    BY Zenon DEF Init
  <2> QED BY <2>1
<1>9. main \in {"loop", "wait", "returned"} /\ ctxDone \in BOOLEAN /\ call \in Calls
  BY Zenon DEF Init
<1>10. heard \in [Idx -> SUBSET {"fit", "stock"}]
  BY Zenon DEF Init
<1> QED BY <1>3, <1>4, <1>5, <1>6, <1>7, <1>8, <1>9, <1>10, Zenon DEF Types

\* An event appended to the audit log of one goroutine leaves the log well typed.
LEMMA EmitType ==
    ASSUME audit \in [Idx -> Seq(Events)], NEW i \in Idx, NEW cls \in Classes,
           NEW src \in {"license_assessment", "reverse_stock", "llm"},
           emitClassification(i, cls, src)
    PROVE  audit' \in [Idx -> Seq(Events)]
<1>1. [class |-> cls, source |-> src] \in Events
  BY DEF Events
<1>2. Append(audit[i], [class |-> cls, source |-> src]) \in Seq(Events)
  BY <1>1, AppendProperties
<1> QED BY <1>2 DEF emitClassification

\* Moving to a stage, and leaving, keep pc and fate well typed.
LEMMA MoveType ==
    ASSUME pc \in [Idx -> Running \cup {"unstarted", "done"}], NEW i \in Idx,
           NEW s \in Holding, Goto(i, s)
    PROVE  pc' \in [Idx -> Running \cup {"unstarted", "done"}]
BY DEF Goto, Running

\* Leaving the pipeline keeps pc and fate well typed.
LEMMA LeaveType ==
    ASSUME pc \in [Idx -> Running \cup {"unstarted", "done"}], fate \in [Idx -> Fates],
           NEW i \in Idx, NEW why \in Fates, Leave(i, why)
    PROVE  /\ pc' \in [Idx -> Running \cup {"unstarted", "done"}]
           /\ fate' \in [Idx -> Fates]
BY DEF Leave, Goto, Running, Holding

\* Being told something keeps what was heard well typed.
LEMMA HearType ==
    ASSUME heard \in [Idx -> SUBSET {"fit", "stock"}], NEW i \in Idx,
           NEW fact \in {"fit", "stock"}, NEW holds, Hear(i, fact, holds)
    PROVE  heard' \in [Idx -> SUBSET {"fit", "stock"}]
BY DEF Hear

\* The classes the pipeline emits itself, and whatever the parser makes of an answer.
LEMMA ClassFacts ==
    /\ {"PHOTO", "STOCK", ""} \subseteq Classes
    /\ \A label : ParseClassificationResult(label) \in Classes
BY Zenon DEF Classes, classificationClasses, ParseClassificationResult

(* Stages and Fates, spelled out once. *)
LEMMA Members ==
    /\ Stages \subseteq Holding /\ "release" \in Holding
    /\ Fates = {"open", "unreachable", "stock", "duplicate", "laundered",
                "not a photo", "panicked", "passed"}
    /\ {"probe", "download", "dedup", "assess", "reverse", "lookup", "classify",
        "store", "append"} = Stages
BY DEF Stages, Holding, Fates

\* Judging a class moves on or leaves.
LEMMA JudgeType ==
    ASSUME pc \in [Idx -> Running \cup {"unstarted", "done"}], fate \in [Idx -> Fates],
           NEW i \in Idx, NEW cls, Judge(i, cls)
    PROVE  /\ pc' \in [Idx -> Running \cup {"unstarted", "done"}]
           /\ fate' \in [Idx -> Fates]
BY MoveType, LeaveType, Members, Zenon DEF Judge

\* Every step keeps the types.
LEMMA TypesNext == Types /\ [Next]_vars => Types'
<1> SUFFICES ASSUME Types, [Next]_vars PROVE Types'
  OBVIOUS
<1> USE DEF Types, Idx, caller, locals, shared
<1>0. Len(call.toValidate) \in Nat
  BY CallTypes
<1>1. CASE Spawn
  BY <1>0, <1>1 DEF Spawn, Running
<1>2. CASE LeaveLoop
  BY <1>2 DEF LeaveLoop
<1>3. CASE Return
  BY <1>3 DEF Return
<1>4. CASE Cancel
  BY <1>4 DEF Cancel
<1>5. ASSUME NEW i \in Idx, Acquire(i) PROVE Types'
  BY <1>5 DEF Acquire, Goto, Running, Holding, Stages
<1>6. ASSUME NEW i \in Idx, Probe(i) PROVE Types'
  <2>1. /\ pc' \in [Idx -> Running \cup {"unstarted", "done"}]
        /\ fate' \in [Idx -> Fates] /\ audit' \in [Idx -> Seq(Events)]
    BY <1>6, MoveType, LeaveType, EmitType, ClassFacts, Members, Zenon DEF Probe
  <2>2. heard' \in [Idx -> SUBSET {"fit", "stock"}]
    BY <1>6, HearType, Zenon DEF Probe
  <2> QED BY <1>6, <2>1, <2>2 DEF Probe
<1>7. ASSUME NEW i \in Idx, DownloadImage(i) PROVE Types'
  <2>0. imgURL(i) \in URLs
    BY CallTypes
  <2>1. data' \in [Idx -> Download]
    BY <1>7, <2>0, DownloadType DEF DownloadImage
  <2>2. pc' \in [Idx -> Running \cup {"unstarted", "done"}]
    BY <1>7, MoveType, Members, Zenon DEF DownloadImage
  <2> QED BY <1>7, <2>1, <2>2 DEF DownloadImage
<1>8. ASSUME NEW i \in Idx, isDuplicate(i) PROVE Types'
  <2>1. /\ pc' \in [Idx -> Running \cup {"unstarted", "done"}]
        /\ fate' \in [Idx -> Fates]
    BY <1>8, MoveType, LeaveType, Members, Zenon DEF isDuplicate
  <2>2. data[i].img \in Hashes \cup {NoImage}
    BY DEF Download
  <2>3. hashes' \in SUBSET [by : Idx, hash : Hashes]
    BY <1>8, <2>2 DEF isDuplicate
  <2> QED BY <1>8, <2>1, <2>3 DEF isDuplicate
<1>9. ASSUME NEW i \in Idx, assessAndAccept(i) PROVE Types'
  <2>1. /\ pc' \in [Idx -> Running \cup {"unstarted", "done"}]
        /\ fate' \in [Idx -> Fates] /\ audit' \in [Idx -> Seq(Events)]
    BY <1>9, MoveType, LeaveType, EmitType, ClassFacts, Members, Zenon DEF assessAndAccept
  <2> QED BY <1>9, <2>1 DEF assessAndAccept
<1>10. ASSUME NEW i \in Idx, Reverse(i) PROVE Types'
  <2>1. /\ pc' \in [Idx -> Running \cup {"unstarted", "done"}]
        /\ fate' \in [Idx -> Fates] /\ audit' \in [Idx -> Seq(Events)]
    BY <1>10, MoveType, LeaveType, EmitType, ClassFacts, Members, Zenon DEF Reverse
  <2>2. heard' \in [Idx -> SUBSET {"fit", "stock"}]
    BY <1>10, HearType, Zenon DEF Reverse
  <2> QED BY <1>10, <2>1, <2>2 DEF Reverse
<1>11. ASSUME NEW i \in Idx, Lookup(i) PROVE Types'
  <2>0. cache[imgURL(i).text] # NotCached => cache[imgURL(i).text] \in Classes
    BY CallTypes
  <2>1. class' \in [Idx -> Classes]
    BY <1>11, <2>0 DEF Lookup
  <2>2. /\ pc' \in [Idx -> Running \cup {"unstarted", "done"}]
        /\ fate' \in [Idx -> Fates]
    BY <1>11, MoveType, JudgeType, Members, Zenon DEF Lookup
  <2> QED BY <1>11, <2>1, <2>2 DEF Lookup
<1>12. ASSUME NEW i \in Idx, classifyFromData(i) PROVE Types'
  <2>1. PICK cls \in Classes : Classified(i, cls)
    BY <1>12, ClassFacts, Zenon DEF classifyFromData
  <2>2. class' \in [Idx -> Classes]
    BY <2>1 DEF Classified
  <2>3. /\ pc' \in [Idx -> Running \cup {"unstarted", "done"}]
        /\ fate' \in [Idx -> Fates]
    BY <2>1, MoveType, JudgeType, Members, Zenon DEF Classified
  <2>4. audit' \in [Idx -> Seq(Events)]
    BY <1>12, EmitType, ClassFacts, Zenon DEF classifyFromData
  <2> QED BY <1>12, <2>2, <2>3, <2>4, Zenon DEF classifyFromData
<1>13. ASSUME NEW i \in Idx, Store(i) PROVE Types'
  <2>1. cache' \in [cacheKeys -> Classes \cup {NotCached}]
    BY <1>13, Zenon DEF Store
  <2>2. /\ pc' \in [Idx -> Running \cup {"unstarted", "done"}]
        /\ fate' \in [Idx -> Fates]
    BY <1>13, JudgeType DEF Store
  <2> QED BY <1>13, <2>1, <2>2 DEF Store
<1>14. ASSUME NEW i \in Idx, appendValidated(i) PROVE Types'
  <2>1. Append(validated, i) \in Seq(Idx)
    BY AppendProperties
  <2>2. validated' \in Seq(Idx)
    BY <1>14, <2>1, Zenon DEF appendValidated
  <2>3. /\ pc' \in [Idx -> Running \cup {"unstarted", "done"}]
        /\ fate' \in [Idx -> Fates]
    BY <1>14, LeaveType, Members, Zenon DEF appendValidated
  <2> QED BY <1>14, <2>2, <2>3 DEF appendValidated
<1>15. ASSUME NEW i \in Idx, Panic(i) PROVE Types'
  <2>1. /\ pc' \in [Idx -> Running \cup {"unstarted", "done"}]
        /\ fate' \in [Idx -> Fates]
    BY <1>15, LeaveType, Members, Zenon DEF Panic
  <2> QED BY <1>15, <2>1 DEF Panic
<1>16. ASSUME NEW i \in Idx, Release(i) PROVE Types'
  BY <1>16 DEF Release, Goto, Running
<1>17. ASSUME NEW i \in Idx, Done(i) PROVE Types'
  BY <1>17 DEF Done, Goto
<1>18. CASE UNCHANGED vars
  BY <1>18 DEF vars
<1> QED BY <1>1, <1>2, <1>3, <1>4, <1>5, <1>6, <1>7, <1>8, <1>9, <1>10, <1>11, <1>12,
           <1>13, <1>14, <1>15, <1>16, <1>17, <1>18 DEF Next, Main, Step

\* The types hold throughout.
LEMMA TypesInvariant == Spec => []Types
BY TypesInit, TypesNext, PTL DEF Spec
-----------------------------------------------------------------------------
(* Control: where the goroutines are, and the two counters *)

Left == {"release", "wgdone", "done"}

Control ==
    /\ \A i \in Idx : pc[i] = "unstarted" <=> i >= next
    /\ \A i \in Idx : fate[i] = "open" <=> pc[i] \notin Left
    /\ main # "loop" => next \notin Idx \/ enough
    /\ main = "returned" => wg = 0

Counts ==
    /\ wg = Cardinality({i \in Idx : pc[i] \in Running})
    /\ sem = Cardinality({i \in Idx : pc[i] \in Holding})
    /\ sem <= validationSemaphore

\* A stage keeps the slot: the goroutine goes on to a stage, its fate open, or to
\* the release of the slot, its fate sealed.  Only appendValidated lets it pass.
LEMMA QuietEffect ==
    ASSUME Types, NEW i \in Idx, QuietStep(i)
    PROVE  /\ pc[i] \in Stages
           /\ \/ \E s \in Stages : Goto(i, s) /\ fate' = fate
              \/ \E why \in Fates \ {"open", "passed"} : Leave(i, why)
           /\ UNCHANGED <<call, ctxDone, main, next, wg, sem, validated>>
<1> DEFINE Moves == \/ \E s \in Stages : Goto(i, s) /\ fate' = fate
                    \/ \E why \in Fates \ {"open", "passed"} : Leave(i, why)
           Frame == UNCHANGED <<call, ctxDone, main, next, wg, sem, validated>>
<1> SUFFICES pc[i] \in Stages /\ Moves /\ Frame
  OBVIOUS
<1>1. CASE Probe(i)
  <2>2. Moves
    BY <1>1, Members, Zenon DEF Probe
  <2>3. pc[i] \in Stages /\ Frame
    BY <1>1, Members, Zenon DEF Probe, caller, shared
  <2> QED BY <2>2, <2>3
<1>2. CASE DownloadImage(i)
  <2>2. Moves
    BY <1>2, Members, Zenon DEF DownloadImage
  <2>3. pc[i] \in Stages /\ Frame
    BY <1>2, Members, Zenon DEF DownloadImage, caller, shared
  <2> QED BY <2>2, <2>3
<1>3. CASE isDuplicate(i)
  <2>2. Moves
    BY <1>3, Members, Zenon DEF isDuplicate
  <2>3. pc[i] \in Stages /\ Frame
    BY <1>3, Members, Zenon DEF isDuplicate, caller, shared
  <2> QED BY <2>2, <2>3
<1>4. CASE assessAndAccept(i)
  <2>2. Moves
    BY <1>4, Members, Zenon DEF assessAndAccept
  <2>3. pc[i] \in Stages /\ Frame
    BY <1>4, Members, Zenon DEF assessAndAccept, caller, shared
  <2> QED BY <2>2, <2>3
<1>5. CASE Reverse(i)
  <2>2. Moves
    BY <1>5, Members, Zenon DEF Reverse
  <2>3. pc[i] \in Stages /\ Frame
    BY <1>5, Members, Zenon DEF Reverse, caller, shared
  <2> QED BY <2>2, <2>3
<1>6. CASE Lookup(i)
  <2>2. Moves
    BY <1>6, Members, Zenon DEF Lookup, Judge
  <2>3. pc[i] \in Stages /\ Frame
    BY <1>6, Members, Zenon DEF Lookup, caller, shared
  <2> QED BY <2>2, <2>3
<1>7. CASE classifyFromData(i)
  <2>1. PICK cls : Classified(i, cls)
    BY <1>7, Zenon DEF classifyFromData
  <2>2. Moves
    BY <2>1, Members, Zenon DEF Classified, Judge
  <2>3. pc[i] \in Stages /\ Frame
    BY <1>7, Members, Zenon DEF classifyFromData, caller, shared
  <2> QED BY <2>2, <2>3
<1>8. CASE Store(i)
  <2>2. Moves
    BY <1>8, Members, Zenon DEF Store, Judge
  <2>3. pc[i] \in Stages /\ Frame
    BY <1>8, Members, Zenon DEF Store, caller, shared
  <2> QED BY <2>2, <2>3
<1>9. CASE Panic(i)
  <2>2. Moves
    BY <1>9, Members, Zenon DEF Panic
  <2>3. pc[i] \in Stages /\ Frame
    BY <1>9, Members, Zenon DEF Panic, caller, shared
  <2> QED BY <2>2, <2>3
<1> QED BY <1>1, <1>2, <1>3, <1>4, <1>5, <1>6, <1>7, <1>8, <1>9 DEF QuietStep

\* The same for every stage; results are never taken back.
LEMMA StageEffect ==
    ASSUME Types, NEW i \in Idx, StageStep(i)
    PROVE  /\ pc[i] \in Stages
           /\ \/ \E s \in Stages : Goto(i, s) /\ fate' = fate
              \/ \E why \in Fates \ {"open"} : Leave(i, why)
           /\ UNCHANGED <<call, ctxDone, main, next, wg, sem>>
           /\ Len(validated') >= Len(validated)
<1>0. Len(validated) \in Nat /\ Len(Append(validated, i)) = Len(validated) + 1
  BY LenProperties, AppendProperties DEF Types
<1>1. CASE QuietStep(i)
  BY <1>0, <1>1, QuietEffect
<1>2. CASE appendValidated(i)
  <2>1. Len(validated') >= Len(validated)
    BY <1>0, <1>2 DEF appendValidated
  <2>2. pc[i] \in Stages /\ (\E why \in Fates \ {"open"} : Leave(i, why))
    BY <1>2, Members, Zenon DEF appendValidated
  <2>3. UNCHANGED <<call, ctxDone, main, next, wg, sem>>
    BY <1>2 DEF appendValidated, caller
  <2> QED BY <2>1, <2>2, <2>3
<1> QED BY <1>1, <1>2 DEF StageStep

\* Counting the elements of I that f maps into P, before and after f[i] changes.
LEMMA CountMove ==
    ASSUME NEW I, IsFiniteSet(I), NEW f, NEW g, NEW i \in I, NEW s, NEW P,
           DOMAIN f = I, g = [f EXCEPT ![i] = s]
    PROVE  LET A == {j \in I : f[j] \in P}
               B == {j \in I : g[j] \in P}
           IN /\ Cardinality(A) \in Nat
              /\ (f[i] \in P <=> s \in P) => Cardinality(B) = Cardinality(A)
              /\ f[i] \notin P /\ s \in P => Cardinality(B) = Cardinality(A) + 1
              /\ f[i] \in P /\ s \notin P => /\ Cardinality(B) = Cardinality(A) - 1
                                             /\ Cardinality(A) > 0
<1> DEFINE A == {j \in I : f[j] \in P}
           B == {j \in I : g[j] \in P}
<1>1. IsFiniteSet(A) /\ Cardinality(A) \in Nat
  <2>1. A \subseteq I
    OBVIOUS
  <2> QED BY <2>1, FS_Subset, FS_CardinalityType
<1>2. ASSUME f[i] \in P <=> s \in P PROVE Cardinality(B) = Cardinality(A)
  <2>1. A = B
    BY <1>2
  <2> QED BY <2>1
<1>3. ASSUME f[i] \notin P, s \in P PROVE Cardinality(B) = Cardinality(A) + 1
  <2>1. B = A \cup {i} /\ i \notin A
    BY <1>3
  <2> QED BY <1>1, <2>1, FS_AddElement, Zenon
<1>4. ASSUME f[i] \in P, s \notin P
      PROVE  Cardinality(B) = Cardinality(A) - 1 /\ Cardinality(A) > 0
  <2>1. B = A \ {i} /\ i \in A
    BY <1>4
  <2>2. Cardinality(B) = Cardinality(A) - 1
    BY <1>1, <2>1, FS_RemoveElement, Zenon
  <2>3. IsFiniteSet(B) /\ Cardinality(B) \in Nat
    BY <1>1, <2>1, FS_RemoveElement, FS_CardinalityType
  <2> QED BY <1>1, <2>2, <2>3
<1> QED BY <1>1, <1>2, <1>3, <1>4

\* Every step is the caller's, a goroutine's, or none.
LEMMA NextCases ==
    ASSUME [Next]_vars
    PROVE  \/ Spawn \/ LeaveLoop \/ Return \/ Cancel \/ UNCHANGED vars
           \/ \E i \in Idx : Acquire(i) \/ StageStep(i) \/ Release(i) \/ Done(i)
BY DEF Next, Main, Step, StageStep, QuietStep

\* A call has finitely many candidates.
LEMMA IdxFinite == ASSUME call \in Calls PROVE IsFiniteSet(Idx)
BY CallTypes, FS_Interval DEF Idx

\* The WaitGroup has reached zero only when no goroutine is running.
LEMMA NoneRunning ==
    ASSUME Types, Counts, wg = 0
    PROVE  \A i \in Idx : pc[i] \notin Running
<1> DEFINE R == {i \in Idx : pc[i] \in Running}
<1>1. IsFiniteSet(R)
  BY IdxFinite, FS_Subset DEF Types
<1>2. R = {}
  BY <1>1, FS_EmptySet, Zenon DEF Counts
<1> QED BY <1>2

\* wg.Add, wg.Done and the two ends of the semaphore keep both counters equal to what
\* they count; StageEffect says that nothing in between touches them.
LEMMA CountsNext == Types /\ Control /\ Counts /\ [Next]_vars => Counts'
<1> SUFFICES ASSUME Types, Control, Counts, [Next]_vars PROVE Counts'
  OBVIOUS
<1> DEFINE In(x, P) == IF x \in P THEN 1 ELSE 0
<1>0. IsFiniteSet(Idx) /\ DOMAIN pc = Idx
  BY IdxFinite DEF Types
<1>a. ASSUME UNCHANGED <<call, pc, wg, sem>> PROVE Counts'
  BY <1>a DEF Counts, Idx
<1>b. wg \in Int /\ sem \in Int /\ validationSemaphore \in Nat
  BY InstanceAssumption DEF Types
<1>c. ASSUME NEW i \in Idx, NEW s, pc' = [pc EXCEPT ![i] = s], call' = call,
             wg' = wg + In(s, Running) - In(pc[i], Running),
             sem' = sem + In(s, Holding) - In(pc[i], Holding),
             sem' <= validationSemaphore
      PROVE  Counts'
  <2>1. Idx' = Idx
    BY <1>c DEF Idx
  <2> DEFINE N(f, P) == Cardinality({j \in Idx : f[j] \in P})
  <2>2. N(pc', Running) = N(pc, Running) + In(s, Running) - In(pc[i], Running)
    BY <1>0, <1>c, CountMove
  <2>3. N(pc', Holding) = N(pc, Holding) + In(s, Holding) - In(pc[i], Holding)
    BY <1>0, <1>c, CountMove
  <2>4. wg' = N(pc', Running) /\ sem' = N(pc', Holding)
    BY <1>c, <2>2, <2>3 DEF Counts
  <2> QED BY <1>c, <2>1, <2>4 DEF Counts
<1>d. /\ Holding \subseteq Running /\ Stages \subseteq Holding /\ "release" \in Holding
      /\ {"acquire", "wgdone"} \subseteq Running
      /\ "acquire" \notin Holding /\ "wgdone" \notin Holding
      /\ "unstarted" \notin Running /\ "done" \notin Running /\ "probe" \in Holding
  BY DEF Running, Holding, Stages
<1>1. CASE Spawn
  <2>1. next \in Idx /\ pc[next] = "unstarted" /\ pc' = [pc EXCEPT ![next] = "acquire"]
        /\ wg' = wg + 1 /\ sem' = sem /\ call' = call
    BY <1>1 DEF Spawn, Control, Types, Idx
  <2>2. wg' = wg + In("acquire", Running) - In(pc[next], Running)
    BY <1>b, <1>d, <2>1
  <2>3. sem' = sem + In("acquire", Holding) - In(pc[next], Holding) /\ sem' <= validationSemaphore
    BY <1>b, <1>d, <2>1 DEF Counts
  <2> HIDE DEF In
  <2> QED BY <1>c, <2>1, <2>2, <2>3, Zenon
<1>2. CASE LeaveLoop \/ Return \/ Cancel \/ UNCHANGED vars
  BY <1>2, <1>a DEF LeaveLoop, Return, Cancel, vars
<1>3. ASSUME NEW i \in Idx, Acquire(i) PROVE Counts'
  <2>1. pc[i] = "acquire" /\ pc' = [pc EXCEPT ![i] = "probe"] /\ call' = call
        /\ sem < validationSemaphore /\ sem' = sem + 1 /\ wg' = wg
    BY <1>3 DEF Acquire, Goto, caller
  <2>2. wg' = wg + In("probe", Running) - In(pc[i], Running)
    BY <1>b, <1>d, <2>1
  <2>3. sem' = sem + In("probe", Holding) - In(pc[i], Holding) /\ sem' <= validationSemaphore
    BY <1>b, <1>d, <2>1 DEF Counts
  <2> HIDE DEF In
  <2> QED BY <1>c, <2>1, <2>2, <2>3, Zenon
<1>4. ASSUME NEW i \in Idx, StageStep(i) PROVE Counts'
  <2>0. PICK s \in Holding : Goto(i, s)
    BY <1>4, <1>d, StageEffect DEF Leave
  <2>1. pc[i] \in Holding /\ pc' = [pc EXCEPT ![i] = s] /\ UNCHANGED <<call, wg, sem>>
    BY <1>4, <1>d, <2>0, StageEffect DEF Goto
  <2>2. wg' = wg + In(s, Running) - In(pc[i], Running)
    BY <1>b, <1>d, <2>1
  <2>3. sem' = sem + In(s, Holding) - In(pc[i], Holding) /\ sem' <= validationSemaphore
    BY <1>b, <1>d, <2>1 DEF Counts
  <2> HIDE DEF In
  <2> QED BY <1>c, <2>1, <2>2, <2>3, Zenon
<1>5. ASSUME NEW i \in Idx, Release(i) PROVE Counts'
  <2>1. pc[i] = "release" /\ pc' = [pc EXCEPT ![i] = "wgdone"] /\ call' = call
        /\ sem' = sem - 1 /\ wg' = wg
    BY <1>5 DEF Release, Goto, caller
  <2>2. wg' = wg + In("wgdone", Running) - In(pc[i], Running)
    BY <1>b, <1>d, <2>1
  <2>3. sem' = sem + In("wgdone", Holding) - In(pc[i], Holding) /\ sem' <= validationSemaphore
    BY <1>b, <1>d, <2>1 DEF Counts
  <2> HIDE DEF In
  <2> QED BY <1>c, <2>1, <2>2, <2>3, Zenon
<1>6. ASSUME NEW i \in Idx, Done(i) PROVE Counts'
  <2>1. pc[i] = "wgdone" /\ pc' = [pc EXCEPT ![i] = "done"] /\ call' = call
        /\ wg' = wg - 1 /\ sem' = sem
    BY <1>6 DEF Done, Goto, caller
  <2>2. wg' = wg + In("done", Running) - In(pc[i], Running)
    BY <1>b, <1>d, <2>1
  <2>3. sem' = sem + In("done", Holding) - In(pc[i], Holding) /\ sem' <= validationSemaphore
    BY <1>b, <1>d, <2>1 DEF Counts
  <2> HIDE DEF In
  <2> QED BY <1>c, <2>1, <2>2, <2>3, Zenon
<1> QED BY <1>1, <1>2, <1>3, <1>4, <1>5, <1>6, NextCases

\* A goroutine is started in order and its fate is sealed when it leaves; the caller
\* returns only when the WaitGroup is at zero, and then nobody can count it down.
LEMMA ControlNext == Types /\ Control /\ Counts /\ [Next]_vars => Control'
<1> SUFFICES ASSUME Types, Control, Counts, [Next]_vars PROVE Control'
  OBVIOUS
<1>0. /\ Len(call.toValidate) \in Nat /\ call.maxResults \in Int
      /\ next \in Nat /\ Len(validated) \in Nat
  BY CallTypes, LenProperties DEF Types
<1> USE DEF Control, Idx, enough, caller, locals, shared, Left
<1>1. CASE Spawn
  BY <1>0, <1>1 DEF Spawn, Types
<1>2. CASE LeaveLoop
  BY <1>0, <1>2 DEF LeaveLoop
<1>3. CASE Return
  BY <1>0, <1>3 DEF Return
<1>4. CASE Cancel
  BY <1>4 DEF Cancel
<1>5. ASSUME NEW i \in Idx, Acquire(i) PROVE Control'
  BY <1>5 DEF Acquire, Goto, Types
<1>6. ASSUME NEW i \in Idx, StageStep(i) PROVE Control'
  <2>1. pc[i] \in Stages /\ UNCHANGED <<call, main, next, wg>> /\ Len(validated') >= Len(validated)
    BY <1>6, StageEffect
  <2>a. pc \in [Idx -> Running \cup {"unstarted", "done"}] /\ fate \in [Idx -> Fates]
    BY DEF Types
  <2>b. /\ pc[i] # "unstarted" /\ pc[i] \notin Left /\ fate[i] = "open"
        /\ UNCHANGED <<call, next>> /\ Idx' = Idx
    BY <2>1 DEF Stages
  <2>c. main' # "loop" => next' \notin Idx' \/ enough'
    BY <1>0, <2>1, <2>b DEF Types
  <2>2. CASE \E s \in Stages : Goto(i, s) /\ fate' = fate
    <3>1. PICK s \in Stages : pc' = [pc EXCEPT ![i] = s] /\ fate' = fate
      BY <2>2, Zenon DEF Goto
    <3>2. s # "unstarted" /\ s \notin Left
      BY DEF Stages
    <3>3. \A k \in Idx : (pc'[k] = "unstarted" <=> k >= next) /\ (fate'[k] = "open" <=> pc'[k] \notin Left)
      BY <2>a, <2>b, <3>1, <3>2
    <3> QED BY <2>1, <2>b, <2>c, <3>3
  <2>3. CASE \E why \in Fates \ {"open"} : Leave(i, why)
    <3>1. PICK why \in Fates \ {"open"} : /\ pc' = [pc EXCEPT ![i] = "release"]
                                          /\ fate' = [fate EXCEPT ![i] = why]
      BY <2>3, Zenon DEF Goto, Leave
    <3>2. \A k \in Idx : (pc'[k] = "unstarted" <=> k >= next) /\ (fate'[k] = "open" <=> pc'[k] \notin Left)
      BY <2>a, <2>b, <3>1
    <3> QED BY <2>1, <2>b, <2>c, <3>2
  <2> QED BY <1>6, <2>2, <2>3, StageEffect
<1>7. ASSUME NEW i \in Idx, Release(i) PROVE Control'
  BY <1>7 DEF Release, Goto, Types
<1>8. ASSUME NEW i \in Idx, Done(i) PROVE Control'
  <2>1. wg # 0
    BY <1>8, NoneRunning DEF Done, Running
  <2> QED BY <1>8, <2>1 DEF Done, Goto, Types
<1>9. CASE UNCHANGED vars
  BY <1>9 DEF vars
<1> QED BY <1>1, <1>2, <1>3, <1>4, <1>5, <1>6, <1>7, <1>8, <1>9, NextCases

\* The three invariants hold throughout.
LEMMA BaseInvariant == Spec => [](Types /\ Control /\ Counts)
<1>1. Init => Control /\ Counts
  <2> SUFFICES ASSUME Init PROVE Control /\ Counts
    OBVIOUS
  <2>1. Control
    <3>a. call \in Calls
      BY Zenon DEF Init
    <3>0. \A i \in Idx : i >= 1
      BY <3>a, CallTypes DEF Idx
    <3>1. \A i \in Idx : pc[i] = "unstarted" /\ fate[i] = "open"
      BY Zenon DEF Init
    <3>2. next = 1 /\ main = "loop"
      BY Zenon DEF Init
    <3> QED BY <3>0, <3>1, <3>2 DEF Control, Left
  <2>2. {i \in Idx : pc[i] \in Running} = {} /\ {i \in Idx : pc[i] \in Holding} = {}
    BY Zenon DEF Init, Running, Holding, Stages
  <2>3. wg = 0 /\ sem = 0
    BY Zenon DEF Init
  <2>4. Cardinality({}) = 0
    BY FS_EmptySet
  <2>5. sem <= validationSemaphore
    BY <2>3, InstanceAssumption
  <2>6. Counts
    BY <2>2, <2>3, <2>4, <2>5, Zenon DEF Counts
  <2> QED BY <2>1, <2>6
<1> QED BY <1>1, TypesInit, TypesNext, ControlNext, CountsNext, PTL DEF Spec

-----------------------------------------------------------------------------
(* Theorems that rest on the control alone *)

\* Type correctness, the ranges of both counters included.
THEOREM TypeCorrect == Spec => []TypeOK
<1>1. Types /\ Control /\ Counts => TypeOK
  <2> SUFFICES ASSUME Types, Counts PROVE TypeOK
    OBVIOUS
  <2>1. wg \in Nat /\ sem \in Nat
    BY IdxFinite, FS_Subset, FS_CardinalityType DEF Types, Counts
  <2>2. sem \in 0..validationSemaphore
    BY <2>1, InstanceAssumption DEF Counts
  <2> QED BY <2>1, <2>2 DEF Types, TypeOK
<1> QED BY <1>1, BaseInvariant, PTL

\* The semaphore bounds the goroutines in validateOne, and every slot is given back.
THEOREM ParallelismBounded == Spec => []BoundedParallelism
<1>1. Types /\ Control /\ Counts => BoundedParallelism
  <2> SUFFICES ASSUME Types, Control, Counts PROVE BoundedParallelism
    OBVIOUS
  <2>1. ASSUME main = "returned" PROVE sem = 0
    <3>1. \A i \in Idx : pc[i] \notin Running
      BY <2>1, NoneRunning DEF Control
    <3>2. {i \in Idx : pc[i] \in Holding} = {}
      BY <3>1 DEF Running
    <3> QED BY <3>2, FS_EmptySet DEF Counts
  <2> QED BY <2>1 DEF BoundedParallelism, Counts
<1> QED BY <1>1, BaseInvariant, PTL

\* No goroutine outlives the call: after the return nothing shared changes.
THEOREM ResultIsFrozen == Spec => ResultFrozen
<1>1. Types /\ Control /\ Counts /\ [Next]_vars => [main = "returned" => UNCHANGED <<shared, audit>>]_vars
  <2> SUFFICES ASSUME Types, Control, Counts, [Next]_vars, main = "returned"
               PROVE  UNCHANGED <<shared, audit>>
    OBVIOUS
  <2>1. \A i \in Idx : pc[i] \notin Running
    BY NoneRunning DEF Control
  <2>2. ASSUME NEW i \in Idx, Acquire(i) \/ StageStep(i) \/ Release(i) \/ Done(i) PROVE FALSE
    BY <2>1, <2>2, StageEffect DEF Acquire, Release, Done, Running, Holding
  <2>3. CASE Spawn \/ LeaveLoop \/ Return \/ Cancel \/ UNCHANGED vars
    BY <2>3 DEF Spawn, LeaveLoop, Return, Cancel, vars, locals, shared
  <2> QED BY <2>2, <2>3, NextCases
<1> QED BY <1>1, BaseInvariant, PTL DEF Spec, ResultFrozen
-----------------------------------------------------------------------------
(* The result list *)

Result ==
    /\ ResultBound
    /\ \A j \in 1..Len(validated) : fate[validated[j]] = "passed"
    /\ \A i \in Idx : fate[i] = "passed" => returned(i) \/ enough

\* A step that appends nothing and lets nobody pass keeps Result.
LEMMA ResultSame ==
    ASSUME Types, Result, UNCHANGED <<call, validated>>,
           \A k \in Idx : fate'[k] = "passed" <=> fate[k] = "passed"
    PROVE  Result'
<1>1. \A j \in 1..Len(validated) : validated[j] \in Idx
  BY ElementOfSeq, Zenon DEF Types
<1> QED BY <1>1 DEF Result, ResultBound, returned, enough, Range, Idx

\* One element more at the end of a sequence.
LEMMA AppendFacts ==
    ASSUME NEW S, NEW s \in Seq(S), NEW x \in S
    PROVE  /\ Len(Append(s, x)) = Len(s) + 1 /\ Len(s) \in Nat
           /\ \A j \in 1..Len(s) : Append(s, x)[j] = s[j]
           /\ Append(s, x)[Len(s) + 1] = x
           /\ Range(Append(s, x)) = Range(s) \cup {x}
<1>1. /\ Len(Append(s, x)) = Len(s) + 1 /\ Len(s) \in Nat
      /\ DOMAIN Append(s, x) = 1..Len(s) + 1 /\ DOMAIN s = 1..Len(s)
      /\ \A j \in 1..Len(s) : Append(s, x)[j] = s[j]
      /\ Append(s, x)[Len(s) + 1] = x
  BY AppendProperties, LenProperties
<1>2. ASSUME NEW y PROVE y \in Range(Append(s, x)) <=> y \in Range(s) \cup {x}
  BY <1>1 DEF Range
<1> QED BY <1>1, <1>2

\* appendValidated looks at the length again under the lock, and a candidate that
\* is appended was not in the list: its fate was still open.
LEMMA ResultAppend ==
    ASSUME Types, Control, Result, NEW i \in Idx, appendValidated(i)
    PROVE  Result'
<1>1. /\ fate[i] = "open" /\ call' = call /\ Idx' = Idx /\ Len(validated) \in Nat
      /\ call.maxResults \in Int
      /\ fate' = [fate EXCEPT ![i] = "passed"]
  BY CallTypes, LenProperties, Zenon DEF appendValidated, Control, Left, caller, Idx, Types, Leave
<1>2. \A j \in 1..Len(validated) : validated[j] \in Idx /\ validated[j] # i
  BY <1>1, ElementOfSeq DEF Types, Result
<1>3. CASE enough
  <2>1. validated' = validated
    BY <1>1, <1>3 DEF appendValidated, enough
  <2> QED BY <1>1, <1>2, <1>3, <2>1 DEF Result, ResultBound, returned, enough, Range, Types
<1>4. CASE ~enough
  <2>1. validated' = Append(validated, i) /\ Len(validated) < call.maxResults
    BY <1>1, <1>4 DEF appendValidated, enough
  <2>2. /\ Len(validated') = Len(validated) + 1
        /\ \A j \in 1..Len(validated) : validated'[j] = validated[j]
        /\ validated'[Len(validated) + 1] = i
        /\ Range(validated') = Range(validated) \cup {i}
    BY <2>1, AppendFacts DEF Types
  <2>3. \A j \in 1..Len(validated') : j \in 1..Len(validated) \/ j = Len(validated) + 1
    BY <1>1, <2>2
  <2>4. Len(validated') <= call.maxResults
    BY <1>1, <2>1, <2>2
  <2>5. \A j, k \in 1..Len(validated') : validated'[j] = validated'[k] => j = k
    BY <1>2, <2>2, <2>3 DEF Result, ResultBound
  <2>6. \A j \in 1..Len(validated') : fate'[validated'[j]] = "passed"
    <3>1. fate'[i] = "passed" /\ \A k \in Idx : k # i => fate'[k] = fate[k]
      BY <1>1 DEF Types
    <3>2. \A j \in 1..Len(validated) : fate'[validated'[j]] = "passed"
      BY <1>2, <2>2, <3>1 DEF Result
    <3> QED BY <2>2, <2>3, <3>1, <3>2
  <2>7. \A k \in Idx : fate'[k] = "passed" => k \in Range(validated')
    BY <1>1, <1>4, <2>2 DEF Result, returned, Types
  <2> QED BY <1>1, <2>4, <2>5, <2>6, <2>7 DEF Result, ResultBound, returned
<1> QED BY <1>3, <1>4

\* Every step keeps Result.
LEMMA ResultNext == Types /\ Control /\ Result /\ [Next]_vars => Result'
<1> SUFFICES ASSUME Types, Control, Result, [Next]_vars PROVE Result'
  OBVIOUS
<1>1. CASE Spawn \/ LeaveLoop \/ Return \/ Cancel \/ UNCHANGED vars
  BY <1>1, ResultSame DEF Spawn, LeaveLoop, Return, Cancel, vars, locals, shared
<1>2. ASSUME NEW i \in Idx, Acquire(i) \/ Release(i) \/ Done(i) PROVE Result'
  BY <1>2, ResultSame, Zenon DEF Acquire, Release, Done, caller, locals, shared
<1>3. ASSUME NEW i \in Idx, QuietStep(i) PROVE Result'
  <2>1. pc[i] \in Stages /\ UNCHANGED <<call, validated>>
    BY <1>3, QuietEffect
  <2>2. fate[i] = "open"
    BY <2>1 DEF Control, Left, Stages
  <2>3. fate' = fate \/ \E why \in Fates \ {"open", "passed"} : fate' = [fate EXCEPT ![i] = why]
    BY <1>3, QuietEffect, Zenon DEF Leave
  <2>4. \A k \in Idx : fate'[k] = "passed" <=> fate[k] = "passed"
    BY <2>2, <2>3 DEF Types
  <2> QED BY <2>1, <2>4, ResultSame
<1>4. ASSUME NEW i \in Idx, appendValidated(i) PROVE Result'
  BY <1>4, ResultAppend
<1> QED BY <1>1, <1>2, <1>3, <1>4, NextCases DEF StageStep

\* The result list is right throughout.
LEMMA ResultInvariant == Spec => []Result
<1>1. Init => Result
  <2> SUFFICES ASSUME Init PROVE Result
    OBVIOUS
  <2>1. validated = <<>> /\ \A i \in Idx : fate[i] = "open"
    BY Zenon DEF Init
  <2>2. Len(validated) = 0
    BY <2>1
  <2> QED BY <2>1, <2>2 DEF Result, ResultBound
<1> QED BY <1>1, ResultNext, BaseInvariant, PTL DEF Spec

\* Never more results than asked for, and no candidate twice, whatever the stale
\* test in the caller's loop let through.
THEOREM ResultIsBounded == Spec => []ResultBound
BY ResultInvariant, PTL DEF Result

\* No candidate is lost: one that is not returned was dropped for a reason, or there
\* were results enough.
THEOREM NothingIsLost == Spec => []NothingLost
<1>1. Types /\ Control /\ Counts /\ Result => NothingLost
  <2> SUFFICES ASSUME Types, Control, Counts, Result, main = "returned", ~enough,
                      NEW i \in Idx
               PROVE  returned(i) \/ fate[i] \notin {"open", "passed"}
    BY DEF NothingLost
  <2>1. pc[i] \notin Running
    BY NoneRunning DEF Control
  <2>2. pc[i] # "unstarted"
    BY CallTypes DEF Control, Types, Idx
  <2>3. fate[i] # "open"
    BY <2>1, <2>2 DEF Control, Types, Left
  <2> QED BY <2>3 DEF Result
<1> QED BY <1>1, BaseInvariant, ResultInvariant, PTL
-----------------------------------------------------------------------------
(* The dedup filter *)

Early   == {"unstarted", "acquire", "probe", "download", "dedup"}
Late    == {"assess", "reverse", "lookup", "classify", "store", "append"}
Past(i) == pc[i] \in Late \/ fate[i] = "passed"

Dedup ==
    /\ \A i \in Idx : Past(i) /\ data[i].img # NoImage
                      => [by |-> i, hash |-> data[i].img] \in hashes
    /\ \A h \in hashes : pc[h.by] \notin Early /\ fate[h.by] # "duplicate"
    /\ \A g, h \in hashes : g # h => ~Near(g.hash, h.hash)
    /\ DuplicateHasTwin

\* A goroutine moves on, or leaves, on its own side of the filter.
SameSide(i) ==
    /\ UNCHANGED <<call, data, hashes>>
    /\ \A k \in Idx : /\ Past(k)' => Past(k)
                      /\ pc'[k] \in Early => pc[k] \in Early
                      /\ fate'[k] = "duplicate" <=> fate[k] = "duplicate"

\* A step on one side of the filter keeps Dedup.
LEMMA DedupSame ==
    ASSUME Types, Dedup, NEW i, SameSide(i)
    PROVE  Dedup'
<1>1. \A h \in hashes : h.by \in Idx
  BY DEF Types
<1>2. Idx' = Idx
  BY DEF SameSide, Idx
<1>3. DuplicateHasTwin'
  BY <1>1, <1>2 DEF Dedup, SameSide, DuplicateHasTwin
<1>4. (\A k \in Idx : Past(k) /\ data[k].img # NoImage
                      => [by |-> k, hash |-> data[k].img] \in hashes)'
  BY <1>2 DEF Dedup, SameSide
<1>5. (\A h \in hashes : pc[h.by] \notin Early /\ fate[h.by] # "duplicate")'
  BY <1>1 DEF Dedup, SameSide
<1>6. (\A g, h \in hashes : g # h => ~Near(g.hash, h.hash))'
  BY DEF Dedup, SameSide
<1> QED BY <1>3, <1>4, <1>5, <1>6, Zenon DEF Dedup

\* Moving between two stages of one side, or leaving for another reason.
LEMMA SideMove ==
    ASSUME Types, Control, NEW i \in Idx, pc[i] \in Stages, UNCHANGED <<call, data, hashes>>,
           \/ \E s \in Stages : Goto(i, s) /\ fate' = fate
                 /\ (s \in Late <=> pc[i] \in Late)
           \/ \E why \in Fates \ {"open", "duplicate"} : Leave(i, why)
                 /\ (why = "passed" => pc[i] \in Late)
    PROVE  SameSide(i)
<1>1. fate[i] = "open" /\ pc \in [Idx -> Running \cup {"unstarted", "done"}] /\ fate \in [Idx -> Fates]
  BY Zenon DEF Control, Left, Stages, Types
<1>2. ASSUME NEW s \in Stages, Goto(i, s), fate' = fate, s \in Late <=> pc[i] \in Late
      PROVE  SameSide(i)
  BY <1>1, <1>2 DEF SameSide, Past, Goto, Stages, Early, Late
<1>3. ASSUME NEW why \in Fates \ {"open", "duplicate"}, Leave(i, why),
             why = "passed" => pc[i] \in Late
      PROVE  SameSide(i)
  BY <1>1, <1>3 DEF SameSide, Past, Leave, Goto, Stages, Early, Late
<1> QED BY <1>2, <1>3

\* The critical section: what is stored is far from all that was stored before, and
\* what is dropped is close to an image that was not dropped.
LEMMA DedupFilter ==
    ASSUME Types, Control, Dedup, NEW i \in Idx, isDuplicate(i)
    PROVE  Dedup'
<1> DEFINE img == data[i].img
           twin == img # NoImage /\ \E h \in hashes : Near(img, h.hash)
           own == [by |-> i, hash |-> img]
<1>1. /\ pc[i] = "dedup" /\ fate[i] = "open" /\ UNCHANGED <<call, data>> /\ Idx' = Idx
      /\ img \in Hashes \cup {NoImage}
  BY Zenon DEF isDuplicate, caller, Idx, Control, Left, Types, Download
<1>2. \A h \in hashes : h.by \in Idx /\ h.by # i /\ h.hash \in Hashes
  BY <1>1 DEF Dedup, Early, Types
<1>3. pc \in [Idx -> Running \cup {"unstarted", "done"}] /\ fate \in [Idx -> Fates]
  BY DEF Types
<1>4. CASE twin
  <2>1. /\ hashes' = hashes /\ pc' = [pc EXCEPT ![i] = "release"]
        /\ fate' = [fate EXCEPT ![i] = "duplicate"]
    BY <1>4 DEF isDuplicate, Leave, Goto
  <2>2. \A k \in Idx : Past(k)' => Past(k)
    BY <1>1, <1>3, <2>1 DEF Past, Late
  <2>3. \A h \in hashes : pc'[h.by] = pc[h.by] /\ fate'[h.by] = fate[h.by]
    BY <1>2, <1>3, <2>1
  <2>4. DuplicateHasTwin'
    <3> SUFFICES ASSUME NEW k \in Idx, fate'[k] = "duplicate"
                 PROVE  \E h \in hashes : /\ h.by # k /\ fate[h.by] # "duplicate"
                                          /\ Near(data[k].img, h.hash)
      BY <1>1, <2>1, <2>3 DEF DuplicateHasTwin
    <3>1. CASE k = i
      BY <1>2, <1>4, <3>1, Zenon DEF Dedup
    <3>2. CASE k # i
      BY <1>3, <2>1, <3>2 DEF Dedup, DuplicateHasTwin
    <3> QED BY <3>1, <3>2
  <2>5. (\A h \in hashes : pc[h.by] \notin Early /\ fate[h.by] # "duplicate")'
    BY <2>1, <2>3 DEF Dedup
  <2>6. (\A k \in Idx : Past(k) /\ data[k].img # NoImage
                        => [by |-> k, hash |-> data[k].img] \in hashes)'
    BY <1>1, <2>1, <2>2 DEF Dedup
  <2> QED BY <2>1, <2>4, <2>5, <2>6, Zenon DEF Dedup
<1>5. CASE ~twin
  <2>1. /\ hashes' = IF img = NoImage THEN hashes ELSE hashes \cup {own}
        /\ pc' = [pc EXCEPT ![i] = "assess"] /\ fate' = fate
    BY <1>5 DEF isDuplicate, Goto
  <2>2. \A k \in Idx : k # i => (Past(k)' => Past(k))
    BY <1>1, <1>3, <2>1 DEF Past, Late
  <2>3. (\A k \in Idx : Past(k) /\ data[k].img # NoImage
                        => [by |-> k, hash |-> data[k].img] \in hashes)'
    BY <1>1, <2>1, <2>2 DEF Dedup
  <2>4. (\A h \in hashes : pc[h.by] \notin Early /\ fate[h.by] # "duplicate")'
    BY <1>1, <1>2, <1>3, <2>1 DEF Dedup, Early
  <2>5. \A h \in hashes : img # NoImage => ~Near(img, h.hash) /\ ~Near(h.hash, img)
    BY <1>1, <1>2, <1>5, HashAssumption DEF Near
  <2>6. (\A g, h \in hashes : g # h => ~Near(g.hash, h.hash))'
    BY <2>1, <2>5 DEF Dedup
  <2>7. DuplicateHasTwin'
    BY <1>1, <2>1, Zenon DEF Dedup, DuplicateHasTwin
  <2> QED BY <2>3, <2>4, <2>6, <2>7 DEF Dedup
<1> QED BY <1>4, <1>5

\* Every step keeps Dedup: only the download and the filter itself touch what it says.
LEMMA DedupNext == Types /\ Control /\ Dedup /\ [Next]_vars => Dedup'
<1> SUFFICES ASSUME Types, Control, Dedup, [Next]_vars PROVE Dedup'
  OBVIOUS
<1>0. pc \in [Idx -> Running \cup {"unstarted", "done"}]
  BY DEF Types
<1>1. CASE Spawn
  <2>1. next \in Idx /\ pc[next] = "unstarted"
    BY <1>1 DEF Spawn, Control, Types, Idx
  <2>2. SameSide(next)
    BY <1>0, <1>1, <2>1 DEF Spawn, SameSide, Past, Early, Late, locals, shared
  <2> QED BY <2>2, DedupSame
<1>2. CASE LeaveLoop \/ Return \/ Cancel \/ UNCHANGED vars
  <2>1. SameSide(0)
    BY <1>2, Zenon DEF LeaveLoop, Return, Cancel, vars, SameSide, Past, locals, shared
  <2> QED BY <2>1, DedupSame
<1>3. ASSUME NEW i \in Idx, Acquire(i) \/ Release(i) \/ Done(i) PROVE Dedup'
  <2>1. SameSide(i)
    BY <1>0, <1>3, Zenon DEF Acquire, Release, Done, Goto, SameSide, Past, Early, Late, caller, locals, shared
  <2> QED BY <2>1, DedupSame
<1>4. ASSUME NEW i \in Idx, Probe(i) PROVE Dedup'
  <2>1. /\ pc[i] = "probe" /\ UNCHANGED <<call, data, hashes>>
        /\ \/ Goto(i, "download") /\ fate' = fate
           \/ Leave(i, "unreachable") \/ Leave(i, "stock")
    BY <1>4 DEF Probe, caller, shared
  <2>2. \/ \E s \in Stages : Goto(i, s) /\ fate' = fate /\ (s \in Late <=> pc[i] \in Late)
        \/ \E why \in Fates \ {"open", "duplicate"} :
              Leave(i, why) /\ (why = "passed" => pc[i] \in Late)
    <3>1. {"unreachable", "stock"} \subseteq Fates \ {"open", "duplicate", "passed"}
      BY DEF Fates
    <3>2. "download" \in Stages /\ ("download" \in Late <=> pc[i] \in Late)
      BY <2>1 DEF Stages, Late
    <3> QED BY <2>1, <3>1, <3>2, Zenon
  <2>3. pc[i] \in Stages
    BY <2>1, Members, Zenon
  <2>4. SameSide(i)
    BY <2>1, <2>2, <2>3, SideMove
  <2> QED BY <2>4, DedupSame
<1>5. ASSUME NEW i \in Idx, DownloadImage(i) PROVE Dedup'
  <2>1. /\ pc[i] = "download" /\ pc' = [pc EXCEPT ![i] = "dedup"] /\ fate[i] = "open"
        /\ UNCHANGED <<call, fate, hashes>> /\ Idx' = Idx
        /\ \A k \in Idx : k # i => data'[k] = data[k]
    BY <1>5, Zenon DEF DownloadImage, Goto, Control, Left, caller, shared, Idx, Types
  <2>2. \A h \in hashes : h.by \in Idx /\ h.by # i
    BY <2>1, Zenon DEF Dedup, Early, Types
  <2>3. \A k \in Idx : Past(k)' => Past(k) /\ k # i
    BY <1>0, <2>1 DEF Past, Late
  <2>4. DuplicateHasTwin'
    BY <2>1, Zenon DEF Dedup, DuplicateHasTwin
  <2>5. (\A h \in hashes : pc[h.by] \notin Early /\ fate[h.by] # "duplicate")'
    BY <1>0, <2>1, <2>2, Zenon DEF Dedup
  <2>6. (\A k \in Idx : Past(k) /\ data[k].img # NoImage
                        => [by |-> k, hash |-> data[k].img] \in hashes)'
    BY <2>1, <2>3, Zenon DEF Dedup
  <2> QED BY <2>1, <2>4, <2>5, <2>6 DEF Dedup
<1>6. ASSUME NEW i \in Idx, isDuplicate(i) PROVE Dedup'
  BY <1>6, DedupFilter
<1>7. ASSUME NEW i \in Idx, assessAndAccept(i) PROVE Dedup'
  <2>1. SameSide(i)
    BY <1>7, SideMove, Members, Zenon DEF assessAndAccept, Late, caller, shared
  <2> QED BY <2>1, DedupSame
<1>8. ASSUME NEW i \in Idx, Reverse(i) PROVE Dedup'
  <2>1. SameSide(i)
    BY <1>8, SideMove, Members, Zenon DEF Reverse, Late, caller, shared
  <2> QED BY <2>1, DedupSame
<1>9. ASSUME NEW i \in Idx, Lookup(i) PROVE Dedup'
  <2>1. SameSide(i)
    BY <1>9, SideMove, Members, Zenon DEF Lookup, Judge, Late, caller, shared
  <2> QED BY <2>1, DedupSame
<1>10. ASSUME NEW i \in Idx, classifyFromData(i) PROVE Dedup'
  <2>1. PICK cls : Classified(i, cls)
    BY <1>10, Zenon DEF classifyFromData
  <2>2. SameSide(i)
    BY <1>10, <2>1, SideMove, Members, Zenon DEF classifyFromData, Classified, Judge, Late, caller, shared
  <2> QED BY <2>2, DedupSame
<1>11. ASSUME NEW i \in Idx, Store(i) PROVE Dedup'
  <2>1. SameSide(i)
    BY <1>11, SideMove, Members, Zenon DEF Store, Judge, Late, caller
  <2> QED BY <2>1, DedupSame
<1>12. ASSUME NEW i \in Idx, appendValidated(i) PROVE Dedup'
  <2>1. SameSide(i)
    BY <1>12, SideMove, Members, Zenon DEF appendValidated, Late, caller
  <2> QED BY <2>1, DedupSame
<1>13. ASSUME NEW i \in Idx, Panic(i) PROVE Dedup'
  <2>1. Leave(i, "panicked") /\ pc[i] \in Stages /\ UNCHANGED <<call, data, hashes>>
    BY <1>13, Zenon DEF Panic, caller, shared
  <2>2. \E why \in Fates \ {"open", "duplicate"} :
           Leave(i, why) /\ (why = "passed" => pc[i] \in Late)
    <3>1. "panicked" \in Fates \ {"open", "duplicate"} /\ "panicked" # "passed"
      BY DEF Fates
    <3> QED BY <2>1, <3>1, Zenon
  <2>3. SameSide(i)
    BY <2>1, <2>2, SideMove
  <2> QED BY <2>3, DedupSame
<1> QED BY <1>1, <1>2, <1>3, <1>4, <1>5, <1>6, <1>7, <1>8, <1>9, <1>10, <1>11, <1>12, <1>13,
           NextCases DEF StageStep, QuietStep

\* The filter's invariant holds throughout.
LEMMA DedupInvariant == Spec => []Dedup
<1>1. Init => Dedup
  <2> SUFFICES ASSUME Init PROVE Dedup
    OBVIOUS
  <2>1. hashes = {} /\ \A i \in Idx : fate[i] = "open" /\ pc[i] = "unstarted"
    BY Zenon DEF Init
  <2> QED BY <2>1 DEF Dedup, DuplicateHasTwin, Past, Late
<1> QED BY <1>1, DedupNext, BaseInvariant, PTL DEF Spec

\* However the goroutines interleave, no two returned images that could be decoded
\* look alike.
THEOREM NoDuplicatesReturned == Spec => []NoVisualDuplicates
<1>1. Types /\ Result /\ Dedup => NoVisualDuplicates
  <2> SUFFICES ASSUME Types, Result, Dedup, NEW i \in Idx, NEW j \in Idx, i # j,
                      returned(i), returned(j),
                      data[i].img # NoImage, data[j].img # NoImage
               PROVE  ~Near(data[i].img, data[j].img)
    BY DEF NoVisualDuplicates
  <2>1. fate[i] = "passed" /\ fate[j] = "passed"
    BY LenProperties DEF Result, returned, Range, Types
  <2>2. /\ [by |-> i, hash |-> data[i].img] \in hashes
        /\ [by |-> j, hash |-> data[j].img] \in hashes
    BY <2>1 DEF Dedup, Past
  <2> QED BY <2>2 DEF Dedup
<1> QED BY <1>1, BaseInvariant, ResultInvariant, DedupInvariant, PTL

\* Two images never eliminate each other: the one that is dropped looks like one
\* that the filter let through.
THEOREM DuplicatesHaveTwins == Spec => []DuplicateHasTwin
BY DedupInvariant, PTL DEF Dedup
-----------------------------------------------------------------------------
(* The gates, and the audit log *)

Probed == Late \cup {"download", "dedup"}
Silent == (Stages \ {"store", "append"}) \cup {"unstarted", "acquire"}
AtEnd(i) == pc[i] = "append" \/ fate[i] = "passed"
said(i)  == {e.class : e \in Range(audit[i])}

(* What has been established about candidate i where its goroutine stands. *)
ClearedSoFar(i) ==
    /\ pc[i] \in Probed \/ fate[i] = "passed" => ~imgURL(i).logo
    /\ pc[i] \in Silent => class[i] = "" /\ audit[i] = <<>>
    /\ pc[i] \in {"reverse", "lookup", "classify", "store"} => assessment(i) = LicenseUnknown
    /\ pc[i] = "store" => said(i) \subseteq {class[i]}
    /\ AtEnd(i) => /\ assessment(i) # LicenseBlocked
                   /\ assessment(i) = LicenseSafe \/ class[i] \in {"PHOTO", ""}
                   /\ said(i) \subseteq {"PHOTO", ""}
    /\ Len(audit[i]) <= 1
    /\ fate[i] \in {"stock", "laundered"} => audit[i] # <<>>

Cleared == \A i \in Idx : ClearedSoFar(i)

\* The first event of a goroutine is then its only one.
LEMMA EmitFirst ==
    ASSUME Types, NEW i \in Idx, audit[i] = <<>>, NEW cls, NEW src,
           emitClassification(i, cls, src)
    PROVE  /\ audit'[i] # <<>> /\ Len(audit'[i]) <= 1
           /\ said(i)' \subseteq {cls}
           /\ \A k \in Idx : k # i => audit'[k] = audit[k]
<1> DEFINE e == [class |-> cls, source |-> src]
<1>1. audit'[i] = Append(<<>>, e) /\ \A k \in Idx : k # i => audit'[k] = audit[k]
  BY DEF emitClassification, Types
<1>2. Append(<<>>, e) = <<e>>
  OBVIOUS
<1>3. <<e>> # <<>> /\ Len(<<e>>) <= 1 /\ Range(<<e>>) = {e}
  BY DEF Range
<1>4. said(i)' \subseteq {cls}
  BY <1>1, <1>2, <1>3 DEF said
<1> QED BY <1>1, <1>2, <1>3, <1>4

\* A goroutine's own step is the only one that touches what is said about it.
LEMMA ClearedLocal ==
    ASSUME Types, Cleared, NEW i, call' = call,
           \A k \in Idx : k # i => /\ pc'[k] = pc[k] /\ data'[k] = data[k]
                                   /\ class'[k] = class[k] /\ audit'[k] = audit[k]
                                   /\ fate'[k] = fate[k],
           i \in Idx => ClearedSoFar(i)'
    PROVE  Cleared'
<1>1. Idx' = Idx
  BY DEF Idx
<1>2. ASSUME NEW k \in Idx, k # i PROVE ClearedSoFar(k)'
  <2>1. ClearedSoFar(k)
    BY DEF Cleared
  <2>2. /\ pc'[k] = pc[k] /\ data'[k] = data[k] /\ class'[k] = class[k]
        /\ audit'[k] = audit[k] /\ fate'[k] = fate[k]
    BY <1>2
  <2>3. assessment(k)' = assessment(k) /\ imgURL(k)' = imgURL(k) /\ said(k)' = said(k)
    BY <2>2 DEF assessment, imgURL, cand, said
  <2> QED BY <2>1, <2>2, <2>3, Zenon DEF ClearedSoFar, AtEnd
<1> QED BY <1>1, <1>2 DEF Cleared
\* The three licences are different.
LEMMA LicensesDiffer ==
    /\ LicenseBlocked # LicenseUnknown /\ LicenseSafe # LicenseUnknown
    /\ LicenseBlocked # LicenseSafe
BY DEF LicenseBlocked, LicenseSafe, LicenseUnknown

\* Leaving for any reason but a pass asks nothing of the gates.
LEMMA ClearedLeave ==
    ASSUME Types, Control, Cleared, NEW i \in Idx, NEW why \in Fates \ {"passed"},
           Leave(i, why), UNCHANGED <<call, data>>, Len(audit'[i]) <= 1,
           why \in {"stock", "laundered"} => audit'[i] # <<>>,
           \A k \in Idx : k # i => class'[k] = class[k] /\ audit'[k] = audit[k]
    PROVE  Cleared'
<1>1. /\ pc'[i] = "release" /\ fate'[i] = why
      /\ \A k \in Idx : k # i => pc'[k] = pc[k] /\ fate'[k] = fate[k]
  BY DEF Leave, Goto, Types
<1>2. ClearedSoFar(i)'
  BY <1>1, Zenon DEF ClearedSoFar, AtEnd, Probed, Late, Silent, Stages
<1> QED BY <1>1, <1>2, ClearedLocal

\* Going on to stage s, nothing else about the candidate being settled.
LEMMA ClearedGoto ==
    ASSUME Types, Control, Cleared, NEW i \in Idx, NEW s \in Stages, pc[i] \in Stages,
           Goto(i, s), UNCHANGED <<call, fate>>,
           \A k \in Idx : k # i => /\ class'[k] = class[k] /\ audit'[k] = audit[k]
                                   /\ data'[k] = data[k],
           s # "probe" => ~imgURL(i).logo,
           s \in Silent => class'[i] = "" /\ audit'[i] = <<>>,
           s \in {"reverse", "lookup", "classify", "store"} => assessment(i)' = LicenseUnknown,
           s = "store" => said(i)' \subseteq {class'[i]},
           s = "append" => /\ assessment(i)' # LicenseBlocked
                           /\ assessment(i)' = LicenseSafe \/ class'[i] \in {"PHOTO", ""}
                           /\ said(i)' \subseteq {"PHOTO", ""},
           Len(audit'[i]) <= 1
    PROVE  Cleared'
<1>1. /\ pc'[i] = s /\ fate'[i] = "open" /\ imgURL(i)' = imgURL(i)
      /\ \A k \in Idx : k # i => pc'[k] = pc[k] /\ fate'[k] = fate[k]
  BY Zenon DEF Goto, Types, Control, Left, Stages, imgURL, cand
<1>2. s \in Probed => s # "probe"
  BY Zenon DEF Probed, Late
<1>3. s = "append" <=> AtEnd(i)'
  BY <1>1, Zenon DEF AtEnd
<1>4. ClearedSoFar(i)'
  BY <1>1, <1>2, <1>3, Zenon DEF ClearedSoFar
<1> QED BY <1>1, <1>4, ClearedLocal, Zenon

\* Judge, for a class the goroutine holds and an audit log that agrees with it.
LEMMA ClearedJudge ==
    ASSUME Types, Control, Cleared, NEW i \in Idx, pc[i] \in {"lookup", "classify", "store"},
           NEW cls, Judge(i, cls), class'[i] = cls, UNCHANGED <<call, data>>,
           \A k \in Idx : k # i => class'[k] = class[k] /\ audit'[k] = audit[k],
           said(i)' \subseteq {cls}, Len(audit'[i]) <= 1
    PROVE  Cleared'
<1>1. CASE cls \in {"PHOTO", ""}
  <2>1. Goto(i, "append") /\ fate' = fate
    BY <1>1, Zenon DEF Judge
  <2>2. ClearedSoFar(i)
    BY DEF Cleared
  <2>3. assessment(i)' = LicenseUnknown /\ ~imgURL(i).logo
    BY <2>2, Zenon DEF ClearedSoFar, assessment, cand, Probed, Late
  <2>4. pc[i] \in Stages /\ "append" \in Stages /\ "append" \notin Silent
    BY DEF Stages, Silent
  <2> QED BY <1>1, <2>1, <2>3, <2>4, ClearedGoto, LicensesDiffer, Zenon
<1>2. CASE cls \notin {"PHOTO", ""}
  <2>1. Leave(i, "not a photo")
    BY <1>2, Zenon DEF Judge
  <2> QED BY <2>1, ClearedLeave, Zenon DEF Fates
<1> QED BY <1>1, <1>2, Zenon
\* Every step keeps Cleared.
LEMMA ClearedNext == Types /\ Control /\ Cleared /\ [Next]_vars => Cleared'
<1> SUFFICES ASSUME Types, Control, Cleared, [Next]_vars PROVE Cleared'
  OBVIOUS
<1>a. pc \in [Idx -> Running \cup {"unstarted", "done"}] /\ fate \in [Idx -> Fates]
      /\ class \in [Idx -> Classes] /\ data \in [Idx -> Download]
  BY DEF Types
<1>b. \A i \in Idx : ClearedSoFar(i)
  BY DEF Cleared
<1>c. \A i \in Idx : pc[i] \in Silent => class[i] = "" /\ audit[i] = <<>>
  BY <1>b, Zenon DEF ClearedSoFar
<1>d. \A i \in Idx : pc[i] \in Probed => ~imgURL(i).logo
  BY <1>b, Zenon DEF ClearedSoFar
<1>e. /\ {"probe", "download", "dedup", "assess", "reverse", "lookup", "classify"} \subseteq Silent
      /\ Silent \cap {"store", "append"} = {}
      /\ Probed = Stages \ {"probe"}
  BY DEF Silent, Stages, Probed, Late
<1>f. Len(<<>>) <= 1 /\ \A i \in Idx : audit[i] = <<>> => said(i) = {}
  BY DEF Range, said
<1>g. \A i \in Idx : audit'[i] = audit[i] => said(i)' = said(i)
  BY DEF said
<1>1. CASE Spawn
  <2>1. PICK n \in Idx : /\ pc[n] = "unstarted" /\ pc' = [pc EXCEPT ![n] = "acquire"]
                         /\ UNCHANGED <<call, data, class, audit, fate>>
    <3>1. next \in Idx /\ pc[next] = "unstarted"
      BY <1>1 DEF Spawn, Control, Types, Idx
    <3>2. pc' = [pc EXCEPT ![next] = "acquire"] /\ UNCHANGED <<call, data, class, audit, fate>>
      BY <1>1 DEF Spawn, locals
    <3> QED BY <3>1, <3>2, Zenon
  <2>2. fate[n] = "open" /\ pc'[n] = "acquire"
    BY <1>a, <2>1 DEF Control, Left
  <2>3. class[n] = "" /\ audit[n] = <<>>
    BY <1>c, <2>1, Zenon DEF Silent
  <2>4. ClearedSoFar(n)'
    BY <1>f, <1>g, <2>1, <2>2, <2>3, Zenon DEF ClearedSoFar, AtEnd, Probed, Late
  <2> QED BY <1>a, <2>1, <2>4, ClearedLocal
<1>2. CASE LeaveLoop \/ Return \/ Cancel \/ UNCHANGED vars
  <2>1. 0 \notin Idx
    BY CallTypes DEF Types, Idx
  <2>2. UNCHANGED <<call, pc, data, class, audit, fate>>
    BY <1>2 DEF LeaveLoop, Return, Cancel, vars, locals
  <2> QED BY <2>1, <2>2, ClearedLocal
<1>3. ASSUME NEW i \in Idx, Acquire(i) PROVE Cleared'
  <2>1. /\ pc[i] = "acquire" /\ pc' = [pc EXCEPT ![i] = "probe"]
        /\ UNCHANGED <<call, data, class, audit, fate>>
    BY <1>3 DEF Acquire, Goto, caller, locals
  <2>2. fate[i] = "open" /\ pc'[i] = "probe"
    BY <1>a, <2>1 DEF Control, Left
  <2>3. class[i] = "" /\ audit[i] = <<>>
    BY <1>c, <2>1, Zenon DEF Silent
  <2>4. ClearedSoFar(i)'
    BY <1>f, <1>g, <2>1, <2>2, <2>3, Zenon DEF ClearedSoFar, AtEnd, Probed, Late
  <2> QED BY <1>a, <2>1, <2>4, ClearedLocal
<1>4. ASSUME NEW i \in Idx, Release(i) \/ Done(i) PROVE Cleared'
  <2>1. PICK s \in {"wgdone", "done"} : /\ pc' = [pc EXCEPT ![i] = s]
                                        /\ UNCHANGED <<call, data, class, audit, fate>>
    BY <1>4 DEF Release, Done, Goto, caller, locals
  <2>2. assessment(i)' = assessment(i) /\ imgURL(i)' = imgURL(i) /\ pc'[i] = s
    BY <1>a, <2>1 DEF assessment, imgURL, cand
  <2>3. s \notin Probed /\ s \notin Silent /\ s \notin {"reverse", "lookup", "classify", "store", "append"}
    BY DEF Probed, Late, Silent, Stages
  <2>4. ClearedSoFar(i)
    BY <1>b
  <2>5. ClearedSoFar(i)'
    BY <1>g, <2>1, <2>2, <2>3, <2>4, Zenon DEF ClearedSoFar, AtEnd
  <2> QED BY <1>a, <2>1, <2>5, ClearedLocal
<1>5. ASSUME NEW i \in Idx, Probe(i) PROVE Cleared'
  <2>1. pc[i] = "probe" /\ UNCHANGED <<call, data, class>> /\ class[i] = "" /\ audit[i] = <<>>
    BY <1>5, <1>c, <1>e, Zenon DEF Probe, caller
  <2>2. CASE Leave(i, "unreachable") /\ UNCHANGED audit
    BY <1>f, <1>g, <2>1, <2>2, ClearedLeave, Zenon DEF Fates
  <2>3. CASE emitClassification(i, "STOCK", "license_assessment") /\ Leave(i, "stock")
    <3>1. /\ audit'[i] # <<>> /\ Len(audit'[i]) <= 1
          /\ \A k \in Idx : k # i => audit'[k] = audit[k]
      BY <2>1, <2>3, EmitFirst, Zenon
    <3> QED BY <2>1, <2>3, <3>1, ClearedLeave, Zenon DEF Fates
  <2>4. CASE Goto(i, "download") /\ UNCHANGED <<fate, audit>> /\ ~imgURL(i).logo
    BY <1>e, <1>f, <1>g, <2>1, <2>4, ClearedGoto, Members, Zenon
  <2> QED BY <1>5, <2>2, <2>3, <2>4 DEF Probe, ValidateImageURL
<1>6. ASSUME NEW i \in Idx, DownloadImage(i) PROVE Cleared'
  <2>1. /\ pc[i] = "download" /\ Goto(i, "dedup") /\ UNCHANGED <<call, class, audit, fate>>
        /\ \A k \in Idx : k # i => data'[k] = data[k]
    BY <1>6, <1>a DEF DownloadImage, caller
  <2>2. class[i] = "" /\ audit[i] = <<>> /\ ~imgURL(i).logo
    BY <1>c, <1>d, <1>e, <2>1, Members, Zenon
  <2> QED BY <1>f, <1>g, <2>1, <2>2, ClearedGoto, Members, Zenon
<1>7. ASSUME NEW i \in Idx, isDuplicate(i) PROVE Cleared'
  <2>1. pc[i] = "dedup" /\ UNCHANGED <<call, data, class, audit>>
    BY <1>7 DEF isDuplicate, caller
  <2>2. class[i] = "" /\ audit[i] = <<>> /\ ~imgURL(i).logo
    BY <1>c, <1>d, <1>e, <2>1, Members, Zenon
  <2>3. CASE Leave(i, "duplicate")
    BY <1>f, <1>g, <2>1, <2>2, <2>3, ClearedLeave, Zenon DEF Fates
  <2>4. CASE Goto(i, "assess") /\ fate' = fate
    BY <1>f, <1>g, <2>1, <2>2, <2>4, ClearedGoto, Members, Zenon
  <2> QED BY <1>7, <2>3, <2>4 DEF isDuplicate
<1>8. ASSUME NEW i \in Idx, assessAndAccept(i) PROVE Cleared'
  <2>1. pc[i] = "assess" /\ UNCHANGED <<call, data, class>> /\ assessment(i)' = assessment(i)
    BY <1>8 DEF assessAndAccept, caller, assessment, cand
  <2>2. class[i] = "" /\ audit[i] = <<>> /\ ~imgURL(i).logo
    BY <1>c, <1>d, <1>e, <2>1, Members, Zenon
  <2>3. CASE emitClassification(i, "STOCK", "license_assessment") /\ Leave(i, "stock")
    <3>1. /\ audit'[i] # <<>> /\ Len(audit'[i]) <= 1
          /\ \A k \in Idx : k # i => audit'[k] = audit[k]
      BY <2>2, <2>3, EmitFirst, Zenon
    <3> QED BY <2>1, <2>3, <3>1, ClearedLeave, Zenon DEF Fates
  <2>4. CASE /\ assessment(i) = LicenseSafe /\ emitClassification(i, "PHOTO", "license_assessment")
             /\ Goto(i, "append") /\ fate' = fate
    <3>1. /\ Len(audit'[i]) <= 1 /\ said(i)' \subseteq {"PHOTO"}
          /\ \A k \in Idx : k # i => audit'[k] = audit[k]
      BY <2>2, <2>4, EmitFirst, Zenon
    <3> QED BY <1>e, <2>1, <2>2, <2>4, <3>1, ClearedGoto, Members, LicensesDiffer, Zenon
  <2>5. CASE /\ assessment(i) = LicenseUnknown
             /\ Goto(i, "reverse") /\ UNCHANGED <<audit, fate>>
    BY <1>f, <1>g, <2>1, <2>2, <2>5, ClearedGoto, Members, Zenon
  <2> QED BY <1>8, <2>3, <2>4, <2>5 DEF assessAndAccept
<1>9. ASSUME NEW i \in Idx, Reverse(i) PROVE Cleared'
  <2>1. pc[i] = "reverse" /\ UNCHANGED <<call, data, class>> /\ assessment(i)' = assessment(i)
    BY <1>9, Zenon DEF Reverse, caller, assessment, cand
  <2>2. class[i] = "" /\ audit[i] = <<>> /\ ~imgURL(i).logo /\ assessment(i) = LicenseUnknown
    BY <1>b, <1>c, <1>d, <1>e, <2>1, Members, Zenon DEF ClearedSoFar
  <2>3. CASE emitClassification(i, "STOCK", "reverse_stock") /\ Leave(i, "laundered")
    <3>1. /\ audit'[i] # <<>> /\ Len(audit'[i]) <= 1
          /\ \A k \in Idx : k # i => audit'[k] = audit[k]
      BY <2>2, <2>3, EmitFirst, Zenon
    <3> QED BY <2>1, <2>3, <3>1, ClearedLeave, Zenon DEF Fates
  <2>4. CASE Goto(i, "lookup") /\ UNCHANGED <<audit, fate>>
    BY <1>f, <1>g, <2>1, <2>2, <2>4, ClearedGoto, Members, Zenon
  <2> QED BY <1>9, <2>3, <2>4 DEF Reverse
<1>10. ASSUME NEW i \in Idx, Lookup(i) PROVE Cleared'
  <2>1. pc[i] = "lookup" /\ UNCHANGED <<call, data, audit>> /\ assessment(i)' = assessment(i)
    BY <1>10, Zenon DEF Lookup, caller, assessment, cand
  <2>2. class[i] = "" /\ audit[i] = <<>> /\ ~imgURL(i).logo /\ assessment(i) = LicenseUnknown
    BY <1>b, <1>c, <1>d, <1>e, <2>1, Members, Zenon DEF ClearedSoFar
  <2>3. CASE Goto(i, "append") /\ UNCHANGED <<class, fate>>
    BY <1>e, <1>f, <1>g, <2>1, <2>2, <2>3, ClearedGoto, Members, LicensesDiffer, Zenon
  <2>4. CASE Goto(i, "classify") /\ UNCHANGED <<class, fate>>
    BY <1>f, <1>g, <2>1, <2>2, <2>4, ClearedGoto, Members, Zenon
  <2>5. ASSUME NEW cls, class' = [class EXCEPT ![i] = cls], Judge(i, cls) PROVE Cleared'
    BY <1>a, <1>f, <1>g, <2>1, <2>2, <2>5, ClearedJudge, Zenon
  <2> QED BY <1>10, <2>3, <2>4, <2>5 DEF Lookup
<1>11. ASSUME NEW i \in Idx, classifyFromData(i) PROVE Cleared'
  <2>1. pc[i] = "classify" /\ UNCHANGED <<call, data>> /\ assessment(i)' = assessment(i)
    BY <1>11, Zenon DEF classifyFromData, caller, assessment, cand
  <2>2. class[i] = "" /\ audit[i] = <<>> /\ ~imgURL(i).logo /\ assessment(i) = LicenseUnknown
    BY <1>b, <1>c, <1>d, <1>e, <2>1, Members, Zenon DEF ClearedSoFar
  <2>3. ASSUME NEW cls, Classified(i, cls), Len(audit'[i]) <= 1,
               said(i)' \subseteq {cls},
               \A k \in Idx : k # i => audit'[k] = audit[k]
        PROVE  Cleared'
    <3>1. class'[i] = cls /\ \A k \in Idx : k # i => class'[k] = class[k]
      BY <1>a, <2>3 DEF Classified
    <3>2. CASE Goto(i, "store") /\ fate' = fate
      BY <1>e, <2>1, <2>2, <2>3, <3>1, <3>2, ClearedGoto, Members, Zenon
    <3>3. CASE Judge(i, cls)
      BY <2>1, <2>3, <3>1, <3>3, ClearedJudge, Zenon
    <3> QED BY <2>3, <3>2, <3>3, Zenon DEF Classified
  <2>4. CASE Classified(i, "") /\ audit' = audit
    BY <1>f, <1>g, <2>2, <2>3, <2>4, Zenon
  <2>5. ASSUME NEW cls, Classified(i, cls), emitClassification(i, cls, "llm") PROVE Cleared'
    <3>1. /\ said(i)' \subseteq {cls} /\ Len(audit'[i]) <= 1
          /\ \A k \in Idx : k # i => audit'[k] = audit[k]
      BY <2>2, <2>5, EmitFirst, Zenon
    <3> QED BY <2>3, <2>5, <3>1
  <2> QED BY <1>11, <2>4, <2>5, Zenon DEF classifyFromData
<1>12. ASSUME NEW i \in Idx, Store(i) PROVE Cleared'
  <2>1. pc[i] = "store" /\ Judge(i, class[i]) /\ UNCHANGED <<call, data, class, audit>>
    BY <1>12 DEF Store, caller
  <2>2. Len(audit[i]) <= 1 /\ said(i) \subseteq {class[i]}
    BY <1>b, <2>1, Zenon DEF ClearedSoFar
  <2> QED BY <1>g, <2>1, <2>2, ClearedJudge
<1>13. ASSUME NEW i \in Idx, appendValidated(i) PROVE Cleared'
  <2>1. /\ pc[i] = "append" /\ pc'[i] = "release" /\ fate'[i] = "passed"
        /\ UNCHANGED <<call, data, class, audit>>
        /\ \A k \in Idx : k # i => pc'[k] = pc[k] /\ fate'[k] = fate[k]
    BY <1>13, <1>a DEF appendValidated, Leave, Goto, caller
  <2>2. assessment(i)' = assessment(i) /\ imgURL(i)' = imgURL(i)
    BY <2>1 DEF assessment, imgURL, cand
  <2>3. ClearedSoFar(i) /\ ~imgURL(i).logo
    BY <1>b, <1>d, <1>e, <2>1, Members, Zenon
  <2>4. "release" \notin Silent \cup {"reverse", "lookup", "classify", "store"}
    BY DEF Silent, Stages
  <2>5. ClearedSoFar(i)'
    BY <1>g, <2>1, <2>2, <2>3, <2>4, Zenon DEF ClearedSoFar, AtEnd
  <2> QED BY <2>1, <2>5, ClearedLocal
<1>14. ASSUME NEW i \in Idx, Panic(i) PROVE Cleared'
  <2>1. Leave(i, "panicked") /\ UNCHANGED <<call, data, class, audit>>
    BY <1>14 DEF Panic, caller
  <2>2. Len(audit[i]) <= 1
    BY <1>b, Zenon DEF ClearedSoFar
  <2> QED BY <2>1, <2>2, ClearedLeave, Zenon DEF Fates
<1> QED BY <1>1, <1>2, <1>3, <1>4, <1>5, <1>6, <1>7, <1>8, <1>9, <1>10, <1>11, <1>12, <1>13,
           <1>14, NextCases DEF StageStep, QuietStep
\* The gates' invariant holds throughout.
LEMMA ClearedInvariant == Spec => []Cleared
<1>1. Init => Cleared
  <2> SUFFICES ASSUME Init, NEW i \in Idx PROVE ClearedSoFar(i)
    BY DEF Cleared
  <2>1. pc[i] = "unstarted" /\ fate[i] = "open" /\ class[i] = "" /\ audit[i] = <<>>
    BY Zenon DEF Init
  <2>2. Len(<<>>) <= 1
    OBVIOUS
  <2> QED BY <2>1, <2>2, Zenon DEF ClearedSoFar, AtEnd, Probed, Late
<1> QED BY <1>1, ClearedNext, BaseInvariant, PTL DEF Spec

(* What the servers said of candidate i where its goroutine stands. *)
ToldSoFar(i) ==
    /\ pc[i] \in Probed \/ fate[i] = "passed" => "fit" \in heard[i]
    /\ "stock" \in heard[i] => fate[i] = "laundered"

Told == \A i \in Idx : ToldSoFar(i)

\* A goroutine's own step is the only one that touches what it was told.
LEMMA ToldLocal ==
    ASSUME Types, Told, NEW i, call' = call,
           \A k \in Idx : k # i => /\ pc'[k] = pc[k] /\ fate'[k] = fate[k]
                                   /\ heard'[k] = heard[k],
           i \in Idx => ToldSoFar(i)'
    PROVE  Told'
<1>1. Idx' = Idx
  BY DEF Idx
<1>2. ASSUME NEW k \in Idx, k # i PROVE ToldSoFar(k)'
  BY <1>2, Zenon DEF Told, ToldSoFar
<1> QED BY <1>1, <1>2 DEF Told

\* A step of a stage that hears nothing keeps what was heard.
LEMMA ToldQuiet ==
    ASSUME Types, Control, Told, NEW i \in Idx, StageStep(i), pc[i] \in Probed, heard' = heard
    PROVE  Told'
<1>1. call' = call /\ fate[i] = "open" /\ pc[i] \in Stages
  BY StageEffect, Members, Zenon DEF Control, Left, Stages
<1>2. "fit" \in heard[i] /\ "stock" \notin heard[i]
  BY <1>1, Zenon DEF Told, ToldSoFar
<1>3. \A k \in Idx : k # i => pc'[k] = pc[k] /\ fate'[k] = fate[k]
  <2>1. \/ \E s \in Stages : pc' = [pc EXCEPT ![i] = s] /\ fate' = fate
        \/ \E why : pc' = [pc EXCEPT ![i] = "release"] /\ fate' = [fate EXCEPT ![i] = why]
    BY StageEffect, Zenon DEF Leave, Goto
  <2>2. pc \in [Idx -> Running \cup {"unstarted", "done"}] /\ fate \in [Idx -> Fates]
    BY DEF Types
  <2> QED BY <2>1, <2>2
<1>4. ToldSoFar(i)'
  BY <1>2, Zenon DEF ToldSoFar
<1> QED BY <1>1, <1>3, <1>4, ToldLocal, Zenon

\* Every step keeps Told: the probe lets a goroutine on only when it was answered with a
\* usable picture, and a goroutine that hears "stock" leaves at once.
LEMMA ToldNext == Types /\ Control /\ Told /\ [Next]_vars => Told'
<1> SUFFICES ASSUME Types, Control, Told, [Next]_vars PROVE Told'
  OBVIOUS
<1>a. /\ pc \in [Idx -> Running \cup {"unstarted", "done"}] /\ fate \in [Idx -> Fates]
      /\ heard \in [Idx -> SUBSET {"fit", "stock"}]
  BY DEF Types
<1>b. ASSUME NEW i, call' = call, UNCHANGED <<fate, heard>>,
             \A k \in Idx : k # i => pc'[k] = pc[k],
             i \in Idx => pc'[i] \notin Probed
      PROVE  Told'
  <2>1. i \in Idx => ToldSoFar(i)'
    BY <1>b, Zenon DEF Told, ToldSoFar
  <2> QED BY <1>b, <2>1, ToldLocal, Zenon
<1>1. CASE Spawn
  <2>1. /\ call' = call /\ UNCHANGED <<fate, heard>>
        /\ pc' = [pc EXCEPT ![next] = "acquire"]
    BY <1>1 DEF Spawn, locals
  <2>2. PICK n : n = next
    OBVIOUS
  <2>3. /\ \A k \in Idx : k # n => pc'[k] = pc[k]
        /\ n \in Idx => pc'[n] = "acquire"
    BY <1>a, <2>1, <2>2
  <2>4. "acquire" \notin Probed
    BY DEF Probed, Late
  <2> QED BY <1>b, <2>1, <2>3, <2>4
<1>2. CASE LeaveLoop \/ Return \/ Cancel \/ UNCHANGED vars
  <2>1. UNCHANGED <<call, pc, fate, heard>>
    BY <1>2 DEF LeaveLoop, Return, Cancel, vars, locals
  <2>2. 0 \notin Idx
    BY DEF Idx
  <2> QED BY <2>1, <2>2, ToldLocal
<1>3. ASSUME NEW i \in Idx, Acquire(i) \/ Release(i) \/ Done(i) PROVE Told'
  <2>1. call' = call /\ UNCHANGED <<fate, heard>>
    BY <1>3 DEF Acquire, Release, Done, caller, locals
  <2>2. /\ \A k \in Idx : k # i => pc'[k] = pc[k]
        /\ pc'[i] \in {"probe", "wgdone", "done"}
    BY <1>a, <1>3 DEF Acquire, Release, Done, Goto
  <2>3. pc'[i] \notin Probed
    BY <2>2 DEF Probed, Late
  <2> QED BY <1>b, <2>1, <2>2, <2>3
<1>4. ASSUME NEW i \in Idx, Probe(i) PROVE Told'
  <2>1. call' = call /\ pc[i] = "probe" /\ fate[i] = "open"
    BY <1>4 DEF Probe, caller, Control, Left
  <2>2. PICK r : /\ Hear(i, "fit", usable(r))
                 /\ \/ /\ Leave(i, "unreachable") \/ Leave(i, "stock")
                    \/ ValidateImageURL(imgURL(i), r) /\ Goto(i, "download") /\ UNCHANGED fate
    BY <1>4, Zenon DEF Probe
  <2>3. "stock" \notin heard[i]
    BY <2>1, Zenon DEF Told, ToldSoFar
  <2>4. /\ \A k \in Idx : k # i => heard'[k] = heard[k]
        /\ usable(r) => "fit" \in heard'[i]
        /\ "stock" \notin heard'[i]
    BY <1>a, <2>2, <2>3 DEF Hear
  <2>5. CASE Leave(i, "unreachable") \/ Leave(i, "stock")
    <3>1. /\ \A k \in Idx : k # i => pc'[k] = pc[k] /\ fate'[k] = fate[k]
          /\ pc'[i] = "release" /\ fate'[i] \in {"unreachable", "stock"}
      BY <1>a, <2>5 DEF Leave, Goto
    <3>2. pc'[i] \notin Probed /\ fate'[i] # "passed"
      BY <3>1 DEF Probed, Late
    <3>3. ToldSoFar(i)'
      BY <2>4, <3>2, Zenon DEF ToldSoFar
    <3> QED BY <2>1, <2>4, <3>1, <3>3, ToldLocal
  <2>6. CASE ValidateImageURL(imgURL(i), r) /\ Goto(i, "download") /\ UNCHANGED fate
    <3>1. usable(r)
      BY <2>6 DEF ValidateImageURL, usable, MinImageWidth
    <3>2. \A k \in Idx : k # i => pc'[k] = pc[k] /\ fate'[k] = fate[k]
      BY <1>a, <2>6 DEF Goto
    <3>3. ToldSoFar(i)'
      BY <2>4, <3>1, Zenon DEF ToldSoFar
    <3> QED BY <2>1, <2>4, <3>2, <3>3, ToldLocal
  <2> QED BY <2>2, <2>5, <2>6, Zenon
<1>5. ASSUME NEW i \in Idx, Reverse(i) PROVE Told'
  <2>1. call' = call /\ pc[i] = "reverse" /\ fate[i] = "open"
    BY <1>5 DEF Reverse, caller, Control, Left
  <2>2. PICK isStock :
            /\ Hear(i, "stock", call.cfg.OxBrowserURL /\ ~ctxDone /\ isStock)
            /\ \/ Leave(i, "laundered")
               \/ /\ ~ReverseCheck(call.cfg, ~ctxDone, isStock)
                  /\ Goto(i, "lookup") /\ UNCHANGED fate
    BY <1>5, Zenon DEF Reverse
  <2>3. "fit" \in heard[i] /\ "stock" \notin heard[i]
    <3>1. pc[i] \in Probed
      BY <2>1 DEF Probed, Late
    <3> QED BY <2>1, <3>1, Zenon DEF Told, ToldSoFar
  <2>4. /\ \A k \in Idx : k # i => heard'[k] = heard[k]
        /\ "fit" \in heard'[i]
    BY <1>a, <2>2, <2>3 DEF Hear
  <2>5. CASE Leave(i, "laundered")
    <3>1. /\ \A k \in Idx : k # i => pc'[k] = pc[k] /\ fate'[k] = fate[k]
          /\ fate'[i] = "laundered"
      BY <1>a, <2>5 DEF Leave, Goto
    <3>2. ToldSoFar(i)'
      BY <2>4, <3>1, Zenon DEF ToldSoFar
    <3> QED BY <2>1, <2>4, <3>1, <3>2, ToldLocal
  <2>6. CASE ~ReverseCheck(call.cfg, ~ctxDone, isStock) /\ Goto(i, "lookup") /\ UNCHANGED fate
    <3>1. ~(call.cfg.OxBrowserURL /\ ~ctxDone /\ isStock)
      BY <2>6, Zenon DEF ReverseCheck
    <3>2. \A k \in Idx : k # i => pc'[k] = pc[k] /\ fate'[k] = fate[k]
      BY <1>a, <2>6 DEF Goto
    <3>3. "stock" \notin heard'[i]
      BY <1>a, <2>2, <2>3, <3>1, Zenon DEF Hear
    <3>4. ToldSoFar(i)'
      BY <2>4, <3>3, Zenon DEF ToldSoFar
    <3> QED BY <2>1, <2>4, <3>2, <3>4, ToldLocal
  <2> QED BY <2>2, <2>5, <2>6, Zenon
<1>6. ASSUME NEW i \in Idx, DownloadImage(i) \/ isDuplicate(i) \/ assessAndAccept(i)
                             \/ Lookup(i) \/ classifyFromData(i) \/ Store(i) \/ appendValidated(i)
      PROVE  Told'
  <2>1. heard' = heard
    BY <1>6, Zenon DEF DownloadImage, isDuplicate, assessAndAccept, Lookup, classifyFromData,
                       Store, appendValidated
  <2>2. pc[i] \in Probed
    BY <1>6, Zenon DEF DownloadImage, isDuplicate, assessAndAccept, Lookup, classifyFromData,
                       Store, appendValidated, Probed, Late
  <2>3. StageStep(i)
    BY <1>6, Zenon DEF StageStep, QuietStep
  <2> QED BY <2>1, <2>2, <2>3, ToldQuiet
<1>7. ASSUME NEW i \in Idx, Panic(i) PROVE Told'
  <2>1. call' = call /\ heard' = heard /\ pc[i] \in Stages /\ Leave(i, "panicked")
    BY <1>7, Zenon DEF Panic, caller
  <2>2. fate[i] = "open"
    BY <2>1, Zenon DEF Control, Left, Stages
  <2>3. "stock" \notin heard[i]
    BY <2>2, Zenon DEF Told, ToldSoFar
  <2>4. /\ \A k \in Idx : k # i => pc'[k] = pc[k] /\ fate'[k] = fate[k]
        /\ pc'[i] = "release" /\ fate'[i] = "panicked"
    BY <1>a, <2>1 DEF Leave, Goto
  <2>5. pc'[i] \notin Probed
    BY <2>4 DEF Probed, Late
  <2>6. ToldSoFar(i)'
    BY <2>1, <2>3, <2>4, <2>5, Zenon DEF ToldSoFar
  <2> QED BY <2>1, <2>4, <2>6, ToldLocal
<1> QED BY <1>1, <1>2, <1>3, <1>4, <1>5, <1>6, <1>7, NextCases, Zenon DEF StageStep, QuietStep

\* Told holds throughout.
LEMMA ToldInvariant == Spec => []Told
<1>1. Init => Told
  <2> SUFFICES ASSUME Init, NEW i \in Idx PROVE ToldSoFar(i)
    BY DEF Told
  <2>1. pc[i] = "unstarted" /\ fate[i] = "open" /\ heard[i] = {}
    BY Zenon DEF Init
  <2>2. pc[i] \notin Probed
    BY <2>1 DEF Probed, Late
  <2> QED BY <2>1, <2>2, Zenon DEF ToldSoFar
<1> QED BY <1>1, ToldNext, BaseInvariant, PTL DEF Spec

\* Each gate's condition holds of what is returned, for every call, server, classifier
\* and interleaving: no logo, a probe answered with a usable picture, no blocking
\* licence, no stock verdict of the reverse search and, unless the licence is safe, no
\* class other than PHOTO.
THEOREM OnlyClearedReturned == Spec => []OnlyCleared
<1>1. Types /\ Result /\ Cleared /\ Told => OnlyCleared
  <2> SUFFICES ASSUME Types, Result, Cleared, Told, NEW i \in Idx, returned(i)
               PROVE  /\ ~imgURL(i).logo /\ "fit" \in heard[i]
                      /\ assessment(i) # LicenseBlocked
                      /\ "stock" \notin heard[i]
                      /\ assessment(i) = LicenseSafe \/ class[i] \in {"PHOTO", ""}
    BY Zenon DEF OnlyCleared
  <2>1. fate[i] = "passed"
    BY LenProperties DEF Result, returned, Range, Types
  <2>2. "fit" \in heard[i] /\ "stock" \notin heard[i]
    BY <2>1, Zenon DEF Told, ToldSoFar
  <2> QED BY <2>1, <2>2, Zenon DEF Cleared, ClearedSoFar, AtEnd
<1> QED BY <1>1, BaseInvariant, ResultInvariant, ClearedInvariant, ToldInvariant, PTL

\* The audit log has at most one event per candidate, never one against an image
\* that is returned, and one for every stock verdict.
THEOREM AuditIsConsistent == Spec => []AuditAgrees
<1>1. Types /\ Result /\ Cleared => AuditAgrees
  <2> SUFFICES ASSUME Types, Result, Cleared, NEW i \in Idx
               PROVE  /\ Len(audit[i]) <= 1
                      /\ returned(i) => \A e \in Range(audit[i]) : e.class \in {"PHOTO", ""}
                      /\ fate[i] \in {"stock", "laundered"} => audit[i] # <<>>
    BY Zenon DEF AuditAgrees
  <2>1. returned(i) => fate[i] = "passed"
    BY LenProperties DEF Result, returned, Range, Types
  <2>2. ClearedSoFar(i)
    BY DEF Cleared
  <2>3. returned(i) => said(i) \subseteq {"PHOTO", ""}
    BY <2>1, <2>2, Zenon DEF ClearedSoFar, AtEnd
  <2>4. returned(i) => \A e \in Range(audit[i]) : e.class \in {"PHOTO", ""}
    BY <2>3, Zenon DEF said
  <2> QED BY <2>2, <2>4, Zenon DEF ClearedSoFar
<1> QED BY <1>1, BaseInvariant, ResultInvariant, ClearedInvariant, PTL

-----------------------------------------------------------------------------
(* Validation implements Selection.  The refinement mapping reads the shared  *)
(* slice with the pictures its candidates were downloaded as, and takes the   *)
(* return for the close.  A step of appendValidated that appends is a choice, *)
(* Return is the close, and every other step is a stutter.  That a choice is  *)
(* one Selection allows follows from Result (not chosen before), Dedup        *)
(* (unlike the others) and Cleared (admissible).                              *)

Layers == Types /\ Control /\ Counts /\ Result /\ Dedup /\ Cleared

choice(i) == [idx |-> i, look |-> data[i].img]
mapped    == [k \in 1..Len(validated) |-> choice(validated[k])]

\* Marks in the metadata add evidence: what is not blocked with them is not blocked
\* without them.
LEMMA AssessMonotone ==
    ASSUME NEW c, NEW x, NEW m, AssessLicense(c, x, m) # LicenseBlocked
    PROVE  AssessLicense(c, x, NoMetadata) # LicenseBlocked
<1>1. ~IsStockByMetadata(NoMetadata) /\ ~IsCCByMetadata(NoMetadata)
  BY DEF IsStockByMetadata, IsCCByMetadata, NoMetadata
<1>2. Signals(c, x, NoMetadata) \subseteq Signals(c, x, m)
  BY <1>1 DEF Signals
<1>3. ~Says(Signals(c, x, m), LicenseBlocked)
  BY Zenon DEF AssessLicense, Resolve
<1>4. ~Says(Signals(c, x, NoMetadata), LicenseBlocked)
  BY <1>2, <1>3 DEF Says
<1> QED BY <1>4 DEF AssessLicense, Resolve, LicenseBlocked, LicenseSafe, LicenseUnknown

\* What has been chosen stays as it was downloaded.
LEMMA StutterStep ==
    ASSUME Types, Result, UNCHANGED <<call, validated>>,
           main' = "returned" <=> main = "returned",
           \A k \in Idx : fate[k] = "passed" => data'[k] = data[k]
    PROVE  UNCHANGED <<call, mapped, main = "returned">>
<1>1. \A j \in 1..Len(validated) : validated[j] \in Idx /\ fate[validated[j]] = "passed"
  BY ElementOfSeq DEF Types, Result
<1>2. mapped' = mapped
  BY <1>1 DEF mapped, choice
<1> QED BY <1>2

\* appendValidated with room in the list: the new picture is admissible, was not
\* chosen before and looks like none of the others.
LEMMA AppendChooses ==
    ASSUME Layers, NEW i \in Idx, appendValidated(i), Len(validated) < call.maxResults
    PROVE  /\ main # "returned" /\ UNCHANGED <<call, main>>
           /\ data[i].img \in Hashes \cup {NoImage}
           /\ Admissible(call.cfg, cand(i))
           /\ \A k \in 1..Len(validated) :
                 validated[k] # i /\ ~Alike(data[validated[k]].img, data[i].img)
           /\ mapped' = Append(mapped, choice(i))
<1>0. /\ Types /\ Control /\ Counts /\ Result /\ Dedup /\ Cleared
      /\ pc[i] = "append" /\ UNCHANGED <<call, main, data>> /\ Idx' = Idx
      /\ validated' = Append(validated, i) /\ validated \in Seq(Idx)
  BY DEF Layers, Types, appendValidated, caller, Idx
<1>1. main # "returned"
  BY <1>0, NoneRunning DEF Control, Running, Holding, Stages
<1>2. fate[i] = "open"
  BY <1>0 DEF Control, Left
<1>3. \A k \in 1..Len(validated) : validated[k] \in Idx /\ fate[validated[k]] = "passed"
  BY <1>0, ElementOfSeq DEF Result
<1>4. data[i].img \in Hashes \cup {NoImage}
  BY <1>0 DEF Types, Download
<1>5. ~imgURL(i).logo /\ assessment(i) # LicenseBlocked
  BY <1>0, Zenon DEF Cleared, ClearedSoFar, AtEnd, Probed, Late
<1>6. Admissible(call.cfg, cand(i))
  BY <1>5, AssessMonotone DEF assessment, Admissible, imgURL
<1>7. ASSUME NEW k \in 1..Len(validated) PROVE validated[k] # i
  BY <1>2, <1>3
<1>8. ASSUME NEW k \in 1..Len(validated),
             data[validated[k]].img # NoImage, data[i].img # NoImage
      PROVE  ~Near(data[validated[k]].img, data[i].img)
  <2> DEFINE j == validated[k]
  <2>1. j \in Idx /\ j # i /\ Past(j) /\ Past(i)
    BY <1>0, <1>3, <1>7, Zenon DEF Past, Late
  <2>2. /\ [by |-> i, hash |-> data[i].img] \in hashes
        /\ [by |-> j, hash |-> data[j].img] \in hashes
    BY <2>1, <1>0, <1>8, Zenon DEF Dedup
  <2> QED BY <2>1, <2>2, <1>0, Zenon DEF Dedup
<1>9. mapped' = Append(mapped, choice(i))
  <2>0. validated \in Seq(Idx) /\ validated' = Append(validated, i)
    BY <1>0, Zenon
  <2>1. /\ Len(validated') = Len(validated) + 1 /\ Len(validated) \in Nat
        /\ \A j \in 1..Len(validated) : validated'[j] = validated[j]
        /\ validated'[Len(validated) + 1] = i
    BY <2>0, AppendFacts
  <2>2. mapped \in Seq({choice(j) : j \in Idx}) /\ Len(mapped) = Len(validated)
    <3>1. PICK n, S : n = Len(validated) /\ S = {choice(j) : j \in Idx}
      BY Zenon
    <3>2. PICK m : m = mapped
      BY Zenon
    <3>3. \A k \in 1..n : choice(validated[k]) \in S
      BY <1>3, <3>1, Zenon
    <3>4. n \in Nat /\ m \in [1..n -> S]
      BY <2>1, <3>1, <3>2, <3>3, Zenon DEF mapped
    <3>5. m \in Seq(S) /\ Len(m) = n
      BY <3>4
    <3> QED BY <3>1, <3>2, <3>5, Zenon
  <2>3. PICK longer : longer = Append(mapped, choice(i))
    BY Zenon
  <2>4. /\ longer = [k \in 1..(Len(validated) + 1) |-> longer[k]]
        /\ \A j \in 1..Len(validated) : longer[j] = mapped[j]
        /\ longer[Len(validated) + 1] = choice(i)
    <3>1. PICK S : S = {choice(j) : j \in Idx}
      BY Zenon
    <3>2. PICK m, c : m = mapped /\ c = choice(i)
      OBVIOUS
    <3>3. m \in Seq(S) /\ c \in S /\ Len(m) = Len(validated) /\ longer = Append(m, c)
      BY <1>0, <2>2, <2>3, <3>1, <3>2
    <3>4. /\ longer = [k \in 1..(Len(m) + 1) |-> longer[k]]
          /\ \A j \in 1..Len(m) : longer[j] = m[j]
          /\ longer[Len(m) + 1] = c
      <4>1. longer \in Seq(S) /\ Len(longer) = Len(m) + 1
        BY <3>3, AppendProperties
      <4>2. longer \in [1..(Len(m) + 1) -> S]
        BY <4>1, LenProperties
      <4>3. longer = [k \in 1..(Len(m) + 1) |-> longer[k]]
        BY <4>2, Zenon
      <4> QED BY <3>3, <4>3, AppendFacts
    <3> QED BY <3>2, <3>3, <3>4
  <2>5. \A j : choice(j)' = choice(j)
    BY <1>0 DEF choice
  <2>6. mapped' = [k \in 1..(Len(validated) + 1) |-> choice(validated'[k])]
    BY <2>1, <2>5 DEF mapped
  <2>7. \A k \in 1..Len(validated) : mapped[k] = choice(validated[k])
    BY DEF mapped
  <2>8. ASSUME NEW k \in 1..(Len(validated) + 1) PROVE choice(validated'[k]) = longer[k]
    <3>1. k \in 1..Len(validated) \/ k = Len(validated) + 1
      BY <2>1
    <3> QED BY <2>1, <2>4, <2>7, <3>1, Zenon
  <2> QED BY <2>3, <2>4, <2>6, <2>8, Zenon
<1>10. \A k \in 1..Len(validated) : ~Alike(data[validated[k]].img, data[i].img)
  BY <1>8 DEF Alike
<1> QED BY <1>0, <1>1, <1>4, <1>6, <1>7, <1>9, <1>10

\* validateCandidates, for every number of candidates and slots and every server,
\* does what the abstract selection allows, and nothing else that a caller can see.
THEOREM ValidationImplementsSelection == Spec => ImplementsSelection
<1> USE DEF Sel!Init, Sel!selVars
<1>1. Init => Sel!Init
  <2> SUFFICES ASSUME Init PROVE Sel!Init
    BY Zenon
  <2>1. validated = <<>> /\ main = "loop"
    BY Zenon DEF Init
  <2> QED BY <2>1
<1>2. Layers /\ [Next]_vars => [Sel!Next]_(Sel!selVars)
  <2> SUFFICES ASSUME Layers, [Next]_vars PROVE [Sel!Next]_(Sel!selVars)
    BY Zenon
  <2>0. Types /\ Control /\ Counts /\ Result
    BY DEF Layers
  <2>a. ASSUME UNCHANGED <<call, mapped, main = "returned">> PROVE UNCHANGED Sel!selVars
    BY <2>a, Zenon DEF mapped, choice
  <2>1. CASE Return
    <3>1. UNCHANGED <<call, validated, data>> /\ main = "wait" /\ main' = "returned"
      BY <2>1 DEF Return, locals, shared
    <3>2. Sel!Close
      BY <3>1 DEF Sel!Close
    <3> QED BY <3>2, Zenon DEF Sel!Next
  <2>2. CASE Spawn \/ LeaveLoop \/ Cancel \/ UNCHANGED vars
    <3>1. UNCHANGED <<call, validated, data>> /\ (main' = "returned" <=> main = "returned")
      BY <2>2 DEF Spawn, LeaveLoop, Cancel, vars, locals, shared
    <3> QED BY <3>1, <2>0, <2>a, StutterStep
  <2>3. ASSUME NEW i \in Idx, Acquire(i) \/ Release(i) \/ Done(i)
        PROVE  UNCHANGED Sel!selVars
    <3>1. UNCHANGED <<call, main, validated, data>>
      BY <2>3 DEF Acquire, Release, Done, caller, locals, shared
    <3> QED BY <3>1, <2>0, <2>a, StutterStep, Zenon
  <2>4. ASSUME NEW i \in Idx, QuietStep(i) PROVE UNCHANGED Sel!selVars
    <3>1. pc[i] \in Stages /\ UNCHANGED <<call, main, validated>>
      BY <2>0, <2>4, QuietEffect
    <3>2. fate[i] = "open"
      BY <2>0, <3>1 DEF Control, Left, Stages
    <3>3. \A k \in Idx : k # i => data'[k] = data[k]
      BY <2>0, <2>4, Zenon DEF QuietStep, Probe, DownloadImage, isDuplicate, assessAndAccept, Reverse,
         Lookup, classifyFromData, Store, Panic, Types
    <3> QED BY <3>1, <3>2, <3>3, <2>0, <2>a, StutterStep, Zenon
  <2>5. ASSUME NEW i \in Idx, appendValidated(i) PROVE [Sel!Next]_(Sel!selVars)
    <3>1. CASE Len(validated) < call.maxResults
      <4>1. i \in 1..Len(call.toValidate) /\ Len(mapped) = Len(validated)
        BY <2>0, LenProperties DEF Idx, mapped, Types
      <4>2. PICK pic \in Hashes \cup {NoImage} : pic = data[i].img
        BY <3>1, <2>5, AppendChooses
      <4>3. Sel!Choose(i, pic)
        BY <4>1, <4>2, <3>1, <2>5, AppendChooses, Zenon DEF Sel!Choose, mapped, choice, cand
      <4>4. Sel!Next
        BY <4>1, <4>3, Zenon DEF Sel!Next
      <4> QED BY <4>4, Zenon
    <3>2. CASE ~(Len(validated) < call.maxResults)
      <4>1. UNCHANGED <<call, main, validated, data>>
        BY <2>5, <3>2 DEF appendValidated, caller
      <4> QED BY <4>1, <2>0, <2>a, StutterStep
    <3> QED BY <3>1, <3>2, Zenon
  <2> QED BY <2>1, <2>2, <2>3, <2>4, <2>5, NextCases, Zenon DEF StageStep
<1>3. Spec => []Layers
  BY BaseInvariant, ResultInvariant, DedupInvariant, ClearedInvariant, PTL DEF Layers
<1> QED BY <1>1, <1>2, <1>3, PTL DEF Spec, ImplementsSelection, Sel!Spec
==============================================================================
