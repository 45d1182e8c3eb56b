------------------------------ MODULE TextProofs ------------------------------
(***************************************************************************)
(* The readers of foreign text.                                            *)
(*   containsWord: every text and every keyword that starts with two       *)
(*     different characters.  Cut says that nothing bounded was cut off.   *)
(*   ExtractImageMetadata: every file.  Reading says that the fields hold  *)
(*     what the tags read so far give them.                                *)
(*   ExtractCCLicense: every page.  Trying says that the expressions tried *)
(*     so far have no first match that is a licence.                       *)
(***************************************************************************)
EXTENDS Text, WellFoundedInduction, TLAPS

-----------------------------------------------------------------------------
(* containsWord *)

\* Nothing bounded was cut off, and the cut went through an occurrence.
Cut ==
    /\ \A i \in 1..(from - 1) : ~boundedAt(i)
    /\ from = 1 \/ occurs(from - 1)

Inv == TypeOK /\ Cut /\ ContainsWordExact

\* The lengths are natural numbers and a keyword has two different characters.
LEMMA Given ==
    ASSUME TypeOK
    PROVE  /\ Len(text) \in Nat /\ Len(word) \in Nat /\ from \in Nat
           /\ Len(word) >= 2 /\ word[1] # word[2]
           /\ 1 <= from /\ from <= Len(text) + 1
<1>1. text \in Seq(Chars) /\ word \in Seq(Chars) /\ Len(word) >= 2 /\ word[1] # word[2]
  BY WordsAssumption DEF TypeOK
<1>2. Len(text) \in Nat /\ Len(word) \in Nat
  BY <1>1
<1> QED
  BY <1>1, <1>2 DEF TypeOK

\* A keyword does not occur at two neighbouring places: its first two characters
\* would be the same.
LEMMA NoNeighbours ==
    ASSUME TypeOK, NEW i \in Nat, occurs(i), occurs(i + 1)
    PROVE  FALSE
<1>1. text[i + 2 - 1] = word[2]
  BY Given DEF occurs
<1>2. text[i + 1 + 1 - 1] = word[1]
  BY Given DEF occurs
<1>3. i + 2 - 1 = i + 1 + 1 - 1
  OBVIOUS
<1> QED
  BY <1>1, <1>2, <1>3, Given

\* At an occurrence the start of the remaining text is the start of the text, so
\* that leftOK and rightOK mean what they say.
LEMMA BoundaryIsReal ==
    ASSUME TypeOK, Cut, NEW i \in Nat, i >= from, occurs(i)
    PROVE  leftOK(i) /\ rightOK(i) <=> boundedAt(i)
<1>1. i = from => i = 1
  <2>1. SUFFICES ASSUME i = from, from # 1 PROVE FALSE
    OBVIOUS
  <2>2. occurs(from - 1) /\ from - 1 \in Nat /\ from - 1 + 1 = i
    BY <2>1, Given DEF Cut
  <2> QED
    BY <2>2, NoNeighbours
<1>2. i # from => i > 1
  BY Given
<1>3. i = 1 => from = 1
  BY Given
<1> QED
  BY <1>1, <1>2, <1>3, Given DEF leftOK, rightOK, boundedAt

\* Inv is an invariant of the loop.
LEMMA LoopInvariant == Spec => []Inv
<1>1. Init => Inv
  <2> SUFFICES ASSUME Init PROVE Inv
    OBVIOUS
  <2>1. text \in Seq(Chars)
    BY WordsAssumption DEF Init
  <2>2. TypeOK
    BY <2>1 DEF Init, TypeOK
  <2> QED
    BY <2>2 DEF Init, Inv, Cut, ContainsWordExact
<1>2. Inv /\ [Next]_vars => Inv'
  <2> SUFFICES ASSUME Inv, [Next]_vars PROVE Inv'
    OBVIOUS
  <2>0. TypeOK /\ Cut
    BY DEF Inv
  <2>1. CASE Absent
    <3>1. \A i \in 1..Len(text) : ~boundedAt(i)
      BY <2>0, <2>1, Given DEF Absent, Cut, boundedAt
    <3>2. TypeOK' /\ Cut'
      BY <2>0, <2>1 DEF Absent, TypeOK, Cut, boundedAt, occurs
    <3>3. ContainsWordExact'
      BY <2>1, <3>1 DEF Absent, ContainsWordExact, boundedAt, occurs
    <3> QED
      BY <3>2, <3>3 DEF Inv
  <2>2. ASSUME NEW i \in 1..Len(text), Accept(i) PROVE Inv'
    <3>0. i \in Nat /\ i >= from /\ occurs(i)
      BY <2>0, <2>2, Given DEF Accept, first
    <3>1. boundedAt(i)
      BY <2>0, <2>2, <3>0, BoundaryIsReal DEF Accept
    <3>2. TypeOK' /\ Cut'
      BY <2>0, <2>2 DEF Accept, TypeOK, Cut, boundedAt, occurs
    <3>3. ContainsWordExact'
      BY <2>2, <3>1, Zenon DEF Accept, ContainsWordExact, boundedAt, occurs
    <3> QED
      BY <3>2, <3>3 DEF Inv
  <2>3. ASSUME NEW i \in 1..Len(text), Reject(i) PROVE Inv'
    <3>0. i \in Nat /\ i >= from /\ occurs(i) /\ UNCHANGED <<text, word, answer>> /\ from' = i + 1
      BY <2>0, <2>3, Given DEF Reject, first
    <3>1. ~boundedAt(i)
      BY <2>0, <2>3, <3>0, BoundaryIsReal DEF Reject
    <3>2. \A j \in 1..i : ~boundedAt(j)
      <4> SUFFICES ASSUME NEW j \in 1..i PROVE ~boundedAt(j)
        OBVIOUS
      <4>1. CASE j < from
        BY <2>0, <4>1, Given DEF Cut
      <4>2. CASE j >= from /\ j < i
        BY <2>3, <4>2, <2>0, Given DEF Reject, first, boundedAt
      <4> QED
        BY <3>1, <4>1, <4>2, <2>0, Given
    <3>3. TypeOK'
      BY <2>0, <3>0, Given DEF TypeOK
    <3>4. Cut'
      <4>1. from' - 1 = i
        BY <3>0
      <4>2. \A j \in 1..i : ~boundedAt(j)'
        BY <3>0, <3>2, Zenon DEF boundedAt, occurs
      <4>3. occurs(i)'
        BY <3>0 DEF occurs
      <4> QED
        BY <4>1, <4>2, <4>3 DEF Cut
    <3>5. ContainsWordExact'
      BY <2>3, <3>0 DEF Reject, ContainsWordExact
    <3> QED
      BY <3>3, <3>4, <3>5 DEF Inv
  <2>4. CASE UNCHANGED vars
    BY <2>4 DEF vars, Inv, TypeOK, Cut, ContainsWordExact, boundedAt, occurs
  <2> QED
    BY <2>1, <2>2, <2>3, <2>4 DEF Next, Search, Done
<1> QED
  BY <1>1, <1>2, PTL DEF Spec

\* The remaining text of containsWord is always a suffix of the text.
THEOREM WordsTypeCorrect == Spec => []TypeOK
<1>1. Inv => TypeOK
  BY DEF Inv
<1> QED
  BY LoopInvariant, <1>1, PTL

\* containsWord agrees with its comment on every text, for every keyword that
\* starts with two different characters.
THEOREM ContainsWordCorrect == Spec => []ContainsWordExact
<1>1. Inv => ContainsWordExact
  BY DEF Inv
<1> QED
  BY LoopInvariant, <1>1, PTL

-----------------------------------------------------------------------------
(* ExtractImageMetadata *)

\* The tag at place i gives the field f a text.
gives(f, i) == /\ Meta!intoField(f, i) /\ file.tags[i].list # <<>>
               /\ Head(file.tags[i].list) # NoText
\* It is a flag with a value.
flags(i)    == file.tags[i].tag = "Marked" /\ file.tags[i].source = "XMP" /\ file.tags[i].flag # "none"

given(f, n) == {i \in 1..n : gives(f, i)}

Reading ==
    /\ file \in Files /\ k \in 1..(Len(file.tags) + 1)
    /\ meta \in [Meta!MetaFields -> Values] /\ found \in BOOLEAN
    /\ result \in {"pending", "nil", "meta"}
    /\ \A f \in Meta!MetaFields :
          \/ given(f, k - 1) = {} /\ meta[f] = NoText
          \/ \E i \in given(f, k - 1) : /\ meta[f] = Head(file.tags[i].list)
                                        /\ \A j \in given(f, k - 1) : j <= i
    /\ found <=> \E i \in 1..(k - 1) : flags(i) \/ \E f \in Meta!MetaFields : gives(f, i)
    /\ result = "nil" => ~file.bytes \/ (k = Len(file.tags) + 1 /\ (file.err \/ ~found))
    /\ result = "meta" => file.bytes /\ k = Len(file.tags) + 1 /\ ~file.err /\ found

\* Every tag of the three tables has a field, and the flag is in none of them.
LEMMA TagTable ==
    /\ \A s \in {"IPTC", "EXIF", "XMP"} : \A g \in DOMAIN Meta!fieldOf[s] :
          Meta!fieldOf[s][g] \in Meta!MetaFields
    /\ "Marked" \notin DOMAIN Meta!fieldOf["XMP"]
<1>1. /\ Meta!fieldOf["IPTC"] = Meta!iptcField /\ Meta!fieldOf["EXIF"] = Meta!exifField
      /\ Meta!fieldOf["XMP"] = Meta!xmpField
  BY DEF Meta!fieldOf
<1>2. /\ \A g \in DOMAIN Meta!iptcField : Meta!iptcField[g] \in Meta!MetaFields
      /\ \A g \in DOMAIN Meta!exifField : Meta!exifField[g] \in Meta!MetaFields
      /\ \A g \in DOMAIN Meta!xmpField : Meta!xmpField[g] \in Meta!MetaFields
      /\ "Marked" \notin DOMAIN Meta!xmpField
  BY DEF Meta!iptcField, Meta!exifField, Meta!xmpField, Meta!MetaFields, Meta!StockFields, Meta!CCFields
<1> QED BY <1>1, <1>2

\* The tags of a file are records of the decoder.
LEMMA FileFacts ==
    ASSUME file \in Files
    PROVE  /\ file.bytes \in BOOLEAN /\ file.err \in BOOLEAN
           /\ Len(file.tags) \in Nat /\ DOMAIN file.tags = 1..Len(file.tags)
           /\ \A i \in 1..Len(file.tags) :
                 /\ file.tags[i].source \in {"IPTC", "EXIF", "XMP"}
                 /\ file.tags[i].list \in Seq(Values)
<1>1. file.bytes \in BOOLEAN /\ file.err \in BOOLEAN /\ file.tags \in Seq(FileTag)
  BY TextAssumption
<1>2. \A i \in 1..Len(file.tags) : file.tags[i] \in FileTag
  BY <1>1
<1> QED BY <1>1, <1>2 DEF FileTag

\* One more tag: it gives at most one field a text, and is not a flag then.
LEMMA OneTag ==
    ASSUME Reading, k <= Len(file.tags), NEW t, t = file.tags[k]
    PROVE  /\ ~Meta!wantedTags(t) => ~flags(k) /\ \A f : ~gives(f, k)
           /\ t.tag \in DOMAIN Meta!fieldOf[t.source] =>
                 /\ ~flags(k) /\ Meta!fieldOf[t.source][t.tag] \in Meta!MetaFields
                 /\ \A f : gives(f, k) <=> /\ f = Meta!fieldOf[t.source][t.tag]
                                           /\ Meta!tagValueString(t) # NoText
                 /\ Meta!tagValueString(t) \in Values
                 /\ Meta!tagValueString(t) # NoText => Meta!tagValueString(t) = Head(file.tags[k].list)
           /\ t.source = "XMP" /\ t.tag = "Marked" =>
                 (flags(k) <=> t.flag # "none") /\ \A f : ~gives(f, k)
<1>1. t.source \in {"IPTC", "EXIF", "XMP"} /\ t.list \in Seq(Values)
  BY FileFacts DEF Reading
<1>2. ~Meta!wantedTags(t) => ~flags(k) /\ \A f : ~gives(f, k)
  BY DEF Meta!wantedTags, flags, gives, Meta!intoField
<1>3. ASSUME t.tag \in DOMAIN Meta!fieldOf[t.source]
      PROVE  ~flags(k) /\ Meta!fieldOf[t.source][t.tag] \in Meta!MetaFields
  BY <1>1, <1>3, TagTable DEF flags
<1>4. /\ Meta!tagValueString(t) \in Values
      /\ Meta!tagValueString(t) # NoText <=> t.list # <<>> /\ Head(t.list) # NoText
      /\ Meta!tagValueString(t) # NoText => Meta!tagValueString(t) = Head(t.list)
  BY <1>1, TextAssumption DEF Meta!tagValueString
<1>5. ASSUME t.tag \in DOMAIN Meta!fieldOf[t.source], NEW f
      PROVE  gives(f, k) <=> f = Meta!fieldOf[t.source][t.tag] /\ Meta!tagValueString(t) # NoText
  BY <1>4, <1>5 DEF gives, Meta!intoField
<1>6. t.source = "XMP" /\ t.tag = "Marked" => \A f : ~gives(f, k)
  BY TagTable DEF gives, Meta!intoField
<1>7. t.source = "XMP" /\ t.tag = "Marked" => (flags(k) <=> t.flag # "none")
  BY DEF flags
<1> QED BY <1>2, <1>3, <1>4, <1>5, <1>6, <1>7

\* A step that reads the tag at k: what is remembered is what the tags up to k give.
LEMMA TagRead ==
    ASSUME Reading, k <= Len(file.tags), k' = k + 1, UNCHANGED <<file, result>>,
           result = "pending", meta' \in [Meta!MetaFields -> Values], found' \in BOOLEAN,
           \A f \in Meta!MetaFields : IF gives(f, k) THEN meta'[f] = Head(file.tags[k].list)
                                      ELSE meta'[f] = meta[f],
           found' <=> found \/ flags(k) \/ \E f \in Meta!MetaFields : gives(f, k)
    PROVE  Reading'
<1>0. k \in Nat /\ k >= 1 /\ Len(file.tags) \in Nat /\ k' \in 1..(Len(file.tags) + 1) /\ k' - 1 = k
  BY FileFacts DEF Reading
<1>1. /\ \A f, i : gives(f, i)' = gives(f, i)
      /\ \A i : flags(i)' = flags(i)
  BY DEF gives, flags, Meta!intoField
<1>2. \A f : given(f, k) = IF gives(f, k) THEN given(f, k - 1) \cup {k} ELSE given(f, k - 1)
  <2> TAKE f
  <2>1. 1..k = (1..(k - 1)) \cup {k}
    BY <1>0
  <2> QED BY <2>1 DEF given
<1>3. \A f : given(f, k - 1)' = given(f, k)
  <2>1. 1..(k' - 1) = 1..k
    BY <1>0
  <2> QED BY <1>1, <2>1, Zenon DEF given
<1>4. ASSUME NEW f \in Meta!MetaFields
      PROVE  \/ given(f, k) = {} /\ meta'[f] = NoText
             \/ \E i \in given(f, k) : /\ meta'[f] = Head(file.tags[i].list)
                                       /\ \A j \in given(f, k) : j <= i
  <2>1. CASE gives(f, k)
    <3>1. k \in given(f, k) /\ meta'[f] = Head(file.tags[k].list)
      BY <1>2, <2>1
    <3>2. \A j \in given(f, k) : j <= k
      BY <1>0 DEF given
    <3> QED BY <3>1, <3>2
  <2>2. CASE ~gives(f, k)
    <3>1. given(f, k) = given(f, k - 1) /\ meta'[f] = meta[f]
      BY <1>2, <2>2
    <3> QED BY <3>1 DEF Reading
  <2> QED BY <2>1, <2>2
<1>5. found' <=> \E i \in 1..k : flags(i) \/ \E f \in Meta!MetaFields : gives(f, i)
  <2>1. \A i : i \in 1..k <=> i \in 1..(k - 1) \/ i = k
    BY <1>0
  <2>2. found <=> \E i \in 1..(k - 1) : flags(i) \/ \E f \in Meta!MetaFields : gives(f, i)
    BY DEF Reading
  <2> QED BY <2>1, <2>2
<1>6. \A f \in Meta!MetaFields :
          \/ given(f, k - 1)' = {} /\ meta'[f] = NoText
          \/ \E i \in given(f, k - 1)' : /\ meta'[f] = Head(file'.tags[i].list)
                                         /\ \A j \in given(f, k - 1)' : j <= i
  BY <1>0, <1>3, <1>4
<1>7. found' <=> \E i \in 1..(k' - 1) : flags(i)' \/ \E f \in Meta!MetaFields : gives(f, i)'
  BY <1>0, <1>1, <1>5
<1> QED BY <1>0, <1>6, <1>7 DEF Reading

\* Every step keeps Reading.
LEMMA ReadingNext == Reading /\ [Meta!Next]_metaVars => Reading'
<1> SUFFICES ASSUME Reading, [Meta!Next]_metaVars PROVE Reading'
  OBVIOUS
<1>1. CASE Meta!NoBytes \/ Meta!Finish
  <2>1. UNCHANGED <<file, k, meta, found>>
    BY <1>1 DEF Meta!NoBytes, Meta!Finish
  <2>2. /\ \A f, i : gives(f, i)' = gives(f, i)
        /\ \A i : flags(i)' = flags(i)
        /\ \A f, n : given(f, n)' = given(f, n)
    BY <2>1 DEF gives, flags, Meta!intoField, given
  <2>3. /\ result' \in {"pending", "nil", "meta"}
        /\ result' = "nil" => ~file.bytes \/ (k = Len(file.tags) + 1 /\ (file.err \/ ~found))
        /\ result' = "meta" => file.bytes /\ k = Len(file.tags) + 1 /\ ~file.err /\ found
    <3>1. CASE Meta!NoBytes
      BY <3>1 DEF Meta!NoBytes
    <3>2. CASE Meta!Finish
      <4>1. /\ file.bytes /\ k = Len(file.tags) + 1 /\ found \in BOOLEAN
            /\ result' = IF file.err \/ ~found THEN "nil" ELSE "meta"
        BY <3>2, FileFacts DEF Meta!Finish, Reading
      <4>2. CASE file.err \/ ~found
        BY <4>1, <4>2
      <4>3. CASE ~(file.err \/ ~found)
        BY <4>1, <4>3
      <4> QED BY <4>2, <4>3
    <3> QED BY <1>1, <3>1, <3>2
  <2> QED BY <2>1, <2>2, <2>3 DEF Reading
<1>2. ASSUME NEW t \in Meta!tags, Meta!Skip(t) \/ Meta!HandleText(t) \/ Meta!HandleMarked(t)
      PROVE  Reading'
  <2>0. /\ k <= Len(file.tags) /\ t = file.tags[k] /\ k' = k + 1
        /\ UNCHANGED <<file, result>> /\ result = "pending"
    BY <1>2 DEF Meta!Skip, Meta!HandleText, Meta!HandleMarked, Meta!NextTag
  <2>t. meta \in [Meta!MetaFields -> Values] /\ found \in BOOLEAN
    BY DEF Reading
  <2>1. CASE Meta!Skip(t)
    <3>1. ~Meta!wantedTags(t) /\ UNCHANGED <<meta, found>>
      BY <2>1 DEF Meta!Skip
    <3>2. ~flags(k) /\ \A f : ~gives(f, k)
      BY <2>0, <3>1, OneTag
    <3> QED BY <2>0, <2>t, <3>1, <3>2, TagRead
  <2>2. CASE Meta!HandleText(t)
    <3>0. t.tag \in DOMAIN Meta!fieldOf[t.source]
      BY <2>2 DEF Meta!HandleText
    <3>1. PICK F, v : F = Meta!fieldOf[t.source][t.tag] /\ v = Meta!tagValueString(t)
      OBVIOUS
    <3>2. /\ F \in Meta!MetaFields /\ v \in Values /\ ~flags(k)
          /\ \A f : gives(f, k) <=> f = F /\ v # NoText
          /\ v # NoText => v = Head(file.tags[k].list)
      BY <2>0, <3>0, <3>1, OneTag
    <3>3. CASE v = NoText
      <4>1. UNCHANGED <<meta, found>>
        BY <2>2, <3>1, <3>3 DEF Meta!HandleText
      <4> QED BY <2>0, <2>t, <3>2, <3>3, <4>1, TagRead
    <3>4. CASE v # NoText
      <4>1. meta' = [meta EXCEPT ![F] = v] /\ found' = TRUE
        BY <2>2, <3>1, <3>4 DEF Meta!HandleText
      <4>2. meta' \in [Meta!MetaFields -> Values] /\ found' \in BOOLEAN
        BY <2>t, <3>2, <4>1
      <4>3. \A f \in Meta!MetaFields : IF gives(f, k) THEN meta'[f] = Head(file.tags[k].list)
                                       ELSE meta'[f] = meta[f]
        BY <2>t, <3>2, <3>4, <4>1
      <4>4. gives(F, k)
        BY <3>2, <3>4
      <4>5. found' <=> found \/ flags(k) \/ \E f \in Meta!MetaFields : gives(f, k)
        BY <3>2, <4>1, <4>4
      <4> QED BY <2>0, <4>2, <4>3, <4>5, TagRead
    <3> QED BY <3>3, <3>4
  <2>3. CASE Meta!HandleMarked(t)
    <3>1. /\ t.source = "XMP" /\ t.tag = "Marked" /\ UNCHANGED meta
          /\ found' = (found \/ t.flag # "none")
      BY <2>3 DEF Meta!HandleMarked
    <3>2. (flags(k) <=> t.flag # "none") /\ \A f : ~gives(f, k)
      BY <2>0, <3>1, OneTag
    <3>3. found' \in BOOLEAN /\ (found' <=> found \/ flags(k))
      BY <3>1, <3>2, Zenon
    <3> QED BY <2>0, <2>t, <3>1, <3>2, <3>3, TagRead
  <2> QED BY <1>2, <2>1, <2>2, <2>3
<1>3. CASE UNCHANGED metaVars
  <2>1. UNCHANGED <<file, k, meta, found, result>>
    BY <1>3 DEF metaVars
  <2>2. /\ \A f, i : gives(f, i)' = gives(f, i)
        /\ \A i : flags(i)' = flags(i)
        /\ \A f, n : given(f, n)' = given(f, n)
    BY <2>1 DEF gives, flags, Meta!intoField, given
  <2> QED BY <2>1, <2>2 DEF Reading
<1> QED BY <1>1, <1>2, <1>3 DEF Meta!Next

\* Reading holds throughout.
LEMMA ReadingInvariant == Meta!Spec => []Reading
<1>1. Meta!Init => Reading
  <2> SUFFICES ASSUME Meta!Init PROVE Reading
    OBVIOUS
  <2>1. /\ file \in Files /\ k = 1 /\ meta = [f \in Meta!MetaFields |-> NoText]
        /\ found = FALSE /\ result = "pending"
    BY DEF Meta!Init
  <2>2. \A f : given(f, k - 1) = {}
    BY <2>1 DEF given
  <2>3. k \in 1..(Len(file.tags) + 1) /\ 1..(k - 1) = {}
    BY <2>1, FileFacts
  <2>4. meta \in [Meta!MetaFields -> Values] /\ \A f \in Meta!MetaFields : meta[f] = NoText
    BY <2>1, TextAssumption
  <2>5. found \in BOOLEAN /\ (found <=> \E i \in 1..(k - 1) :
                                       flags(i) \/ \E f \in Meta!MetaFields : gives(f, i))
    BY <2>1, <2>3, Zenon
  <2> QED BY <2>1, <2>2, <2>3, <2>4, <2>5 DEF Reading
<1>2. Reading /\ [Meta!Next]_(Meta!vars) => Reading'
  BY ReadingNext DEF metaVars, Meta!vars
<1> QED BY <1>1, <1>2, PTL DEF Meta!Spec

\* At the end of a file each field holds its last text.
LEMMA LastTextHeld ==
    ASSUME Reading, k = Len(file.tags) + 1, NEW f \in Meta!MetaFields
    PROVE  /\ meta[f] = Meta!lastText(f)
           /\ Meta!lastText(f) # NoText <=> \E i \in 1..Len(file.tags) : gives(f, i)
<1> DEFINE G == {i \in DOMAIN file.tags : /\ Meta!intoField(f, i) /\ file.tags[i].list # <<>>
                                          /\ Head(file.tags[i].list) # NoText}
<1>0. Len(file.tags) \in Nat /\ DOMAIN file.tags = 1..Len(file.tags) /\ k - 1 = Len(file.tags)
  BY FileFacts DEF Reading
<1>1. G = given(f, k - 1)
  BY <1>0 DEF given, gives
<1>2. Meta!lastText(f) = IF G = {} THEN NoText
                         ELSE Head(file.tags[CHOOSE i \in G : \A j \in G : j <= i].list)
  BY DEF Meta!lastText
<1> HIDE DEF G
<1>3. CASE G = {}
  <2>1. Meta!lastText(f) = NoText /\ meta[f] = NoText
    BY <1>1, <1>2, <1>3 DEF Reading
  <2> QED BY <1>0, <1>1, <1>3, <2>1 DEF given
<1>4. CASE G # {}
  <2>1. PICK i \in G : meta[f] = Head(file.tags[i].list) /\ \A j \in G : j <= i
    BY <1>1, <1>4 DEF Reading
  <2>2. PICK c : c = CHOOSE n \in G : \A j \in G : j <= n
    OBVIOUS
  <2>3. c \in G /\ \A j \in G : j <= c
    BY <2>1, <2>2
  <2>4. G \subseteq Nat
    BY <1>0, <1>1 DEF given
  <2>5. c = i
    BY <2>1, <2>3, <2>4
  <2>6. Meta!lastText(f) = meta[f]
    BY <1>2, <1>4, <2>1, <2>2, <2>5, Zenon
  <2>7. i \in 1..Len(file.tags) /\ gives(f, i)
    BY <1>0, <1>1 DEF given
  <2> QED BY <2>1, <2>6, <2>7 DEF gives
<1> QED BY <1>3, <1>4

\* For every file, what the licence verdict is told is what the last text of each
\* field says, and it is told nothing of a file that does not decode to its end.
THEOREM MetadataFaithful == Meta!Spec => []LastTextDecides
<1>1. Reading => LastTextDecides
  <2> SUFFICES ASSUME Reading, result # "pending"
               PROVE  LET readable == file.bytes /\ ~file.err
                      IN /\ Meta!IsStockByMetadata(Meta!answered) <=>
                              readable /\ \E f \in Meta!StockFields : Meta!lastText(f) \in StockValues
                         /\ Meta!IsCCByMetadata(Meta!answered) <=>
                              readable /\ \E f \in Meta!CCFields : Meta!lastText(f) \in CCValues
    BY DEF LastTextDecides, Meta!LastTextDecides
  <2>0. NoText \notin StockValues /\ NoText \notin CCValues
    BY TextAssumption
  <2>f. Meta!StockFields \subseteq Meta!MetaFields /\ Meta!CCFields \subseteq Meta!MetaFields
    BY DEF Meta!MetaFields
  <2>1. CASE result = "meta"
    <3>1. file.bytes /\ ~file.err /\ k = Len(file.tags) + 1
      BY <2>1 DEF Reading
    <3>2. \A f \in Meta!MetaFields : meta[f] = Meta!lastText(f)
      BY <3>1, LastTextHeld
    <3>3. Meta!answered = Meta!marks
      BY <2>1 DEF Meta!answered
    <3>4. Meta!IsStockByMetadata(Meta!marks) <=> \E f \in Meta!StockFields : meta[f] \in StockValues
      BY <2>f DEF Meta!IsStockByMetadata, Meta!marks
    <3>5. Meta!IsCCByMetadata(Meta!marks) <=> \E f \in Meta!CCFields : meta[f] \in CCValues
      BY <2>f DEF Meta!IsCCByMetadata, Meta!marks
    <3> QED BY <2>f, <3>1, <3>2, <3>3, <3>4, <3>5
  <2>2. CASE result = "nil"
    <3>1. ~Meta!IsStockByMetadata(Meta!answered) /\ ~Meta!IsCCByMetadata(Meta!answered)
      BY <2>2 DEF Meta!answered, Meta!NoMetadata, Meta!IsStockByMetadata, Meta!IsCCByMetadata
    <3>2. ASSUME file.bytes, ~file.err, NEW f \in Meta!MetaFields PROVE Meta!lastText(f) = NoText
      <4>1. k = Len(file.tags) + 1 /\ ~found /\ Len(file.tags) \in Nat
        BY <2>2, <3>2, FileFacts DEF Reading
      <4>2. \A i \in 1..Len(file.tags) : ~gives(f, i)
        BY <4>1 DEF Reading
      <4> QED BY <4>1, <4>2, LastTextHeld
    <3> QED BY <2>0, <2>f, <3>1, <3>2
  <2> QED BY <2>1, <2>2 DEF Reading
<1> QED BY <1>1, ReadingInvariant, PTL

\* The places up to n where Marked is a bool.
flaggedTo(n) == {i \in 1..n : flags(i)}

\* XMPMarked is the last of them.
Flagging ==
    marked <=> \E i \in flaggedTo(k - 1) : /\ file.tags[i].flag = "true"
                                           /\ \A j \in flaggedTo(k - 1) : j <= i

\* A tag that is no bool changes nothing.
LEMMA FlaggingSame ==
    ASSUME Reading, Flagging, UNCHANGED <<file, marked>>,
           k' = k \/ (k' = k + 1 /\ k <= Len(file.tags) /\ ~flags(k))
    PROVE  Flagging'
<1>1. \A i : flags(i)' = flags(i)
  BY DEF flags
<1>2. PICK F : F = flaggedTo(k - 1)
  OBVIOUS
<1>3. \A i : i \in 1..(k' - 1) /\ flags(i) <=> i \in 1..(k - 1) /\ flags(i)
  BY FileFacts DEF Reading
<1>4. flaggedTo(k - 1)' = F
  BY <1>1, <1>2, <1>3 DEF flaggedTo
<1> QED BY <1>2, <1>4, Zenon DEF Flagging

\* Flagging holds throughout.
LEMMA FlaggingInvariant == Meta!Spec => []Flagging
<1>1. Meta!Init => Flagging
  <2> SUFFICES ASSUME Meta!Init PROVE Flagging
    OBVIOUS
  <2>1. flaggedTo(k - 1) = {} /\ marked = FALSE
    BY DEF Meta!Init, flaggedTo
  <2> QED BY <2>1 DEF Flagging
<1>2. Reading /\ Flagging /\ [Meta!Next]_(Meta!vars) => Flagging'
  <2> SUFFICES ASSUME Reading, Flagging, [Meta!Next]_(Meta!vars) PROVE Flagging'
    OBVIOUS
  <2>1. CASE Meta!NoBytes \/ Meta!Finish
    BY <2>1, FlaggingSame DEF Meta!NoBytes, Meta!Finish
  <2>2. CASE UNCHANGED Meta!vars
    BY <2>2, FlaggingSame DEF Meta!vars
  <2>3. ASSUME NEW t \in Meta!tags, Meta!Skip(t) \/ Meta!HandleText(t) \/ Meta!HandleMarked(t)
        PROVE  Flagging'
    <3>0. /\ k <= Len(file.tags) /\ t = file.tags[k] /\ k' = k + 1 /\ UNCHANGED file
      BY <2>3 DEF Meta!Skip, Meta!HandleText, Meta!HandleMarked, Meta!NextTag
    <3>1. CASE Meta!Skip(t) \/ Meta!HandleText(t)
      <4>1. ~flags(k)
        BY <3>0, <3>1, OneTag DEF Meta!Skip, Meta!HandleText
      <4> QED BY <3>0, <3>1, <4>1, FlaggingSame DEF Meta!Skip, Meta!HandleText
    <3>2. CASE Meta!HandleMarked(t) /\ t.flag = "none"
      <4>1. ~flags(k) /\ UNCHANGED marked
        BY <3>0, <3>2 DEF flags, Meta!HandleMarked
      <4> QED BY <3>0, <4>1, FlaggingSame
    <3>3. CASE Meta!HandleMarked(t) /\ t.flag # "none"
      <4>1. marked' = (t.flag = "true") /\ flags(k)
        BY <3>0, <3>3 DEF flags, Meta!HandleMarked
      <4>2. PICK n, G : n = k /\ G = flaggedTo(k - 1)'
        OBVIOUS
      <4>3. n \in Nat /\ G \subseteq 1..n /\ n \in G
        <5>1. \A i : flags(i)' = flags(i)
          BY <3>0 DEF flags
        <5>2. k \in Nat /\ k \in 1..k /\ 1..(k' - 1) = 1..k
          BY <3>0, FileFacts DEF Reading
        <5> QED BY <4>1, <4>2, <5>1, <5>2 DEF flaggedTo
      <4>4. t.flag = "true" <=> \E i \in G : file.tags[i].flag = "true" /\ \A j \in G : j <= i
        <5>1. \A i \in G : (\A j \in G : j <= i) <=> i = n
          BY <4>3
        <5> QED BY <3>0, <4>2, <4>3, <5>1
      <4> QED BY <3>0, <4>1, <4>2, <4>4, Zenon DEF Flagging
    <3> QED BY <2>3, <3>1, <3>2, <3>3
  <2> QED BY <2>1, <2>2, <2>3 DEF Meta!Next
<1> QED BY <1>1, <1>2, ReadingInvariant, PTL DEF Meta!Spec

\* For every file, nil is returned only for one that could not be read or of which no
\* handler kept a value, and XMPMarked is the last bool.
THEOREM NilOnlyForNothing == Meta!Spec => []NilMeansNothingKept
<1>1. Reading /\ Flagging => NilMeansNothingKept
  <2> SUFFICES ASSUME Reading, Flagging, result # "pending"
               PROVE  /\ result = "nil" <=>
                            \/ ~file.bytes \/ file.err
                            \/ (Meta!flagged = {} /\ \A f \in Meta!MetaFields : Meta!lastText(f) = NoText)
                      /\ result = "meta" =>
                            (marked <=> \E i \in Meta!flagged : /\ file.tags[i].flag = "true"
                                                                /\ \A j \in Meta!flagged : j <= i)
    BY DEF NilMeansNothingKept, Meta!NilMeansNothingKept
  <2>0. Len(file.tags) \in Nat /\ DOMAIN file.tags = 1..Len(file.tags)
    BY FileFacts DEF Reading
  <2>1. Meta!flagged = flaggedTo(Len(file.tags))
    BY <2>0 DEF Meta!flagged, flaggedTo, flags
  <2>a. Meta!flagged = {} <=> \A i \in 1..Len(file.tags) : ~flags(i)
    BY <2>1 DEF flaggedTo
  <2>2. ASSUME k = Len(file.tags) + 1
        PROVE  ~found <=> /\ \A f \in Meta!MetaFields : Meta!lastText(f) = NoText
                          /\ \A i \in 1..Len(file.tags) : ~flags(i)
    <3>1. k - 1 = Len(file.tags)
      BY <2>0, <2>2
    <3>2. found <=> \E i \in 1..Len(file.tags) : flags(i) \/ \E f \in Meta!MetaFields : gives(f, i)
      BY <3>1 DEF Reading
    <3>3. \A f \in Meta!MetaFields :
              Meta!lastText(f) # NoText <=> \E i \in 1..Len(file.tags) : gives(f, i)
      BY <2>2, LastTextHeld
    <3> QED BY <3>2, <3>3
  <2>3. CASE result = "meta"
    <3>1. k = Len(file.tags) + 1 /\ k - 1 = Len(file.tags)
      BY <2>0, <2>3 DEF Reading
    <3>2. marked <=> \E i \in Meta!flagged : /\ file.tags[i].flag = "true"
                                             /\ \A j \in Meta!flagged : j <= i
      BY <2>1, <3>1, Zenon DEF Flagging
    <3>3. file.bytes /\ ~file.err /\ found
      BY <2>3 DEF Reading
    <3> QED BY <2>a, <2>2, <2>3, <3>1, <3>2, <3>3
  <2>4. CASE result = "nil"
    BY <2>a, <2>2, <2>4 DEF Reading
  <2> QED BY <2>3, <2>4 DEF Reading
<1> QED BY <1>1, ReadingInvariant, FlaggingInvariant, PTL

-----------------------------------------------------------------------------
(* ExtractCCLicense *)

\* A pattern that has been tried without success: its first match is no licence.
fruitless(p) == \A i \in 1..Len(page) : CC!firstMatch(CC!Patterns[p], i) => ~CC!IsCCLicenseURL(page[i].url)

Trying ==
    /\ page \in Pages /\ pattern \in 1..5
    /\ foundAt = 0 \/ (foundAt \in 1..Len(page) /\ CC!IsCCLicenseURL(page[foundAt].url))
    /\ \A p \in 1..(pattern - 1) : fruitless(p)

\* A non-empty set of places has a first one.
LEMMA Least ==
    ASSUME NEW T \in SUBSET Nat, T # {}
    PROVE  \E x \in T : \A y \in T : x <= y
<1> DEFINE R == OpToRel(<, Nat)
<1>1. IsWellFoundedOn(R, Nat)
  BY NatLessThanWellFounded, Zenon
<1>2. \A x, y \in Nat : x < y => <<x, y>> \in R
  BY DEF OpToRel
<1> HIDE DEF R
<1>3. PICK x \in T : \A y \in T : ~(<<y, x>> \in R)
  BY <1>1, WFMin, Zenon
<1>4. ASSUME NEW y \in T PROVE x <= y
  <2>1. x \in Nat /\ y \in Nat /\ ~(y < x)
    BY <1>2, <1>3, Zenon
  <2> QED BY <2>1
<1> QED BY <1>4

\* A page is a sequence of tags.
LEMMA PageFacts ==
    ASSUME page \in Pages
    PROVE  /\ Len(page) \in Nat /\ DOMAIN page = 1..Len(page)
           /\ \A i \in 1..Len(page) : page[i] \in PageTag
BY TextAssumption

\* The two expressions that have the host in them.
LEMMA HostPatterns ==
    /\ Len(CC!Patterns) = 4
    /\ \A t : CC!matches(CC!Patterns[3], t) <=> t.attr = "href" /\ t.url = "cc"
    /\ \A t : CC!matches(CC!Patterns[4], t) <=> t.attr = "content" /\ t.url = "cc"
<1>1. Len(CC!Patterns) = 4 /\ CC!Patterns[3] = "bare href" /\ CC!Patterns[4] = "meta content"
  BY DEF CC!Patterns
<1>2. \A t : CC!matches("bare href", t) <=> t.attr = "href" /\ t.url = "cc"
  BY DEF CC!matches
<1>3. \A t : CC!matches("meta content", t) <=> t.attr = "content" /\ t.url = "cc"
  BY DEF CC!matches
<1> QED BY <1>1, <1>2, <1>3, Zenon

\* If an expression matches a tag, it has a first match.
LEMMA FirstMatchExists ==
    ASSUME page \in Pages, NEW p, NEW i \in 1..Len(page), CC!matches(p, page[i])
    PROVE  \E j \in 1..Len(page) : CC!firstMatch(p, j)
<1> DEFINE T == {j \in 1..Len(page) : CC!matches(p, page[j])}
<1>0. Len(page) \in Nat /\ DOMAIN page = 1..Len(page)
  BY PageFacts
<1>1. PICK j \in T : \A y \in T : j <= y
  <2>1. T \in SUBSET Nat /\ T # {}
    BY <1>0
  <2> QED BY <2>1, Least, Zenon
<1>2. ASSUME NEW y \in 1..(j - 1) PROVE ~CC!matches(p, page[y])
  BY <1>0, <1>1
<1> QED BY <1>0, <1>1, <1>2 DEF CC!firstMatch

\* Every step keeps Trying.
LEMMA TryingNext == Trying /\ [CC!Next]_ccVars => Trying'
<1> SUFFICES ASSUME Trying, [CC!Next]_ccVars PROVE Trying'
  OBVIOUS
<1>0. Len(page) \in Nat /\ DOMAIN page = 1..Len(page)
  BY PageFacts DEF Trying
<1>a. ASSUME page' = page PROVE \A p : fruitless(p)' = fruitless(p)
  BY <1>a DEF fruitless, CC!firstMatch
<1>1. CASE CC!Pass
  <2>1. /\ UNCHANGED <<page, foundAt>> /\ pattern' = pattern + 1 /\ pattern <= 4
        /\ fruitless(pattern)
    BY <1>0, <1>1, HostPatterns DEF CC!Pass, CC!searching, fruitless
  <2>2. pattern' \in 1..5 /\ \A p \in 1..(pattern' - 1) : p \in 1..(pattern - 1) \/ p = pattern
    BY <2>1 DEF Trying
  <2> QED BY <1>a, <2>1, <2>2 DEF Trying
<1>2. ASSUME NEW i \in DOMAIN page, CC!Take(i) PROVE Trying'
  <2>1. UNCHANGED <<page, pattern>> /\ foundAt' = i /\ CC!IsCCLicenseURL(page[i].url)
    BY <1>2 DEF CC!Take
  <2> QED BY <1>0, <1>a, <2>1 DEF Trying
<1>3. CASE UNCHANGED ccVars
  BY <1>a, <1>3 DEF ccVars, Trying
<1> QED BY <1>1, <1>2, <1>3 DEF CC!Next

\* Trying holds throughout.
LEMMA TryingInvariant == CC!Spec => []Trying
<1>1. CC!Init => Trying
  BY DEF CC!Init, Trying
<1>2. Trying /\ [CC!Next]_(CC!vars) => Trying'
  BY TryingNext DEF ccVars, CC!vars
<1> QED BY <1>1, <1>2, PTL DEF CC!Spec

\* For every page, a licence on creativecommons.org, its URL written literally, is found
\* whatever stands before it, and nothing is returned that is not a Creative Commons licence.
THEOREM LicenceIsFound == CC!Spec => []LicenceFound
<1>1. Trying => LicenceFound
  <2> SUFFICES ASSUME Trying, CC!returned
               PROVE  IF foundAt # 0 THEN CC!IsCCLicenseURL(page[foundAt].url)
                      ELSE \A i \in DOMAIN page : page[i].url # "cc"
    BY DEF LicenceFound, CC!LicenceFound
  <2>1. CASE foundAt # 0
    BY <2>1 DEF Trying
  <2>2. CASE foundAt = 0
    <3>1. fruitless(3) /\ fruitless(4)
      <4>1. pattern = 5
        BY <2>2, HostPatterns DEF CC!returned, CC!searching, Trying
      <4> QED BY <4>1 DEF Trying
    <3>2. ASSUME NEW i \in DOMAIN page, page[i].url = "cc" PROVE FALSE
      <4>0. page \in Pages /\ i \in 1..Len(page) /\ page[i].attr \in {"href", "content"}
        BY PageFacts DEF Trying, PageTag
      <4>1. PICK p \in {3, 4} : CC!matches(CC!Patterns[p], page[i])
        BY <3>2, <4>0, HostPatterns
      <4>2. PICK j \in 1..Len(page) : CC!firstMatch(CC!Patterns[p], j)
        BY <4>0, <4>1, FirstMatchExists, Zenon
      <4>3. page[j].url = "cc"
        BY <4>2, HostPatterns DEF CC!firstMatch
      <4> QED BY <3>1, <4>2, <4>3 DEF fruitless, CC!IsCCLicenseURL
    <3> QED BY <2>2, <3>2
  <2> QED BY <2>1, <2>2
<1> QED BY <1>1, TryingInvariant, PTL

-----------------------------------------------------------------------------
(* The three together *)

\* A behaviour of Text is a behaviour of each reader, if only an idle one.
LEMMA ReadersApart == TextSpec => Spec /\ Meta!Spec /\ CC!Spec
<1>1. TextInit => Init /\ Meta!Init /\ CC!Init
  BY DEF TextInit
<1>2. [TextNext]_textVars => [Next]_vars /\ [Meta!Next]_(Meta!vars) /\ [CC!Next]_(CC!vars)
  BY DEF TextNext, textVars, vars, metaVars, ccVars, Meta!vars, CC!vars
<1> QED BY <1>1, <1>2, PTL DEF TextSpec, Spec, Meta!Spec, CC!Spec

\* Whichever reader runs, on whatever input, all four properties hold.
THEOREM ReadersCorrect ==
    TextSpec => [](ContainsWordExact /\ LastTextDecides /\ NilMeansNothingKept /\ LicenceFound)
BY ReadersApart, ContainsWordCorrect, MetadataFaithful, NilOnlyForNothing, LicenceIsFound, PTL
==============================================================================
