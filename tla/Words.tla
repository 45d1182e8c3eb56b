-------------------------------- MODULE Words ---------------------------------
(***************************************************************************)
(* containsWord (metadata.go): the search for a stock agency's name in a   *)
(* metadata text.  The loop looks at one occurrence at a time and goes on  *)
(* with the text after the first character of the one it rejects: it never *)
(* sees the characters it has cut off.  from is where the remaining text   *)
(* starts.  Characters are model values; texts are already in lower case.  *)
(***************************************************************************)
EXTENDS Naturals, Sequences

CONSTANTS
    Chars, WordChars,   \* characters; the ones isWordChar accepts
    Texts,              \* texts of the instance
    Keywords            \* words of stockMetadataKeywords

\* Every keyword has two or more characters and starts with two different ones.
ASSUME WordsAssumption ==
    /\ Texts \subseteq Seq(Chars) /\ Keywords \subseteq Seq(Chars)
    /\ \A w \in Keywords : Len(w) >= 2 /\ w[1] # w[2]

VARIABLES text, word, from, answer

vars == <<text, word, from, answer>>

Init ==
    /\ text \in Texts /\ word \in Keywords
    /\ from = 1
    /\ answer = "none"

occurs(i) == /\ i + Len(word) <= Len(text) + 1
             /\ \A k \in 1..Len(word) : text[i + k - 1] = word[k]

\* strings.Index in the remaining text.
first(i) == i >= from /\ occurs(i) /\ \A j \in from..(i - 1) : ~occurs(j)

rightOK(i) == i + Len(word) <= Len(text) => text[i + Len(word)] \notin WordChars

\* The start of the remaining text counts as a boundary.
leftOK(i) == i # from => text[i - 1] \notin WordChars

Absent ==
    /\ answer = "none"
    /\ \A i \in from..Len(text) : ~occurs(i)
    /\ answer' = "no"
    /\ UNCHANGED <<text, word, from>>

Accept(i) ==
    /\ answer = "none" /\ first(i) /\ leftOK(i) /\ rightOK(i)
    /\ answer' = "yes"
    /\ UNCHANGED <<text, word, from>>

\* Mutation: the whole occurrence is skipped, and the character after it.
RejectWhole(i) ==
    /\ answer = "none" /\ first(i) /\ ~(leftOK(i) /\ rightOK(i))
    /\ from' = i + Len(word) + 1
    /\ UNCHANGED <<text, word, answer>>

Reject(i) ==
    /\ answer = "none" /\ first(i) /\ ~(leftOK(i) /\ rightOK(i))
    /\ from' = i + 1
    /\ UNCHANGED <<text, word, answer>>

Search == Absent \/ \E i \in 1..Len(text) : Accept(i) \/ Reject(i)
Done   == answer # "none" /\ UNCHANGED vars
Next   == Search \/ Done

Spec == Init /\ [][Next]_vars

-----------------------------------------------------------------------------

\* The remaining text is a suffix of the text, possibly empty.
TypeOK ==
    /\ text \in Texts /\ word \in Keywords
    /\ from \in 1..(Len(text) + 1)
    /\ answer \in {"none", "yes", "no"}

\* An occurrence with a boundary on both sides in the whole text.
boundedAt(i) ==
    /\ occurs(i)
    /\ i > 1 => text[i - 1] \notin WordChars
    /\ i + Len(word) <= Len(text) => text[i + Len(word)] \notin WordChars

\* containsWord answers yes exactly when the word stands in the text between
\* boundaries, "the start/end of text or a non-alphanumeric character": cutting
\* the text neither skips an occurrence that overlaps a rejected one nor makes a
\* boundary that is not there.
ContainsWordExact ==
    answer # "none" => (answer = "yes" <=> \E i \in 1..Len(text) : boundedAt(i))
==============================================================================
