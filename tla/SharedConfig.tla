----------------------------- MODULE SharedConfig -----------------------------
(***************************************************************************)
(* Config.defaults (imagefy.go) and who calls it.  Every entry point fills *)
(* the zero fields of its *Config, without a lock, and then starts         *)
(* goroutines whose methods (ValidateImageURL, Download,                   *)
(* classifyPredownloaded) call defaults on the same *Config again.  What   *)
(* keeps this free of data races is that they find nothing left to fill.   *)
(*                                                                         *)
(* A step is one access to a field: the test for the zero value, or the    *)
(* write after it.  Only whether a field is filled matters.                *)
(***************************************************************************)
EXTENDS Naturals, Sequences

CONSTANTS
    Calls,          \* calls of entry points with one *Config
    Workers         \* goroutines each of them starts

\* The order of the tests in defaults().
Fields == <<"MinImageWidth", "UserAgent", "HTTPClient">>
Names  == {"MinImageWidth", "UserAgent", "HTTPClient"}

VARIABLES
    filled,      \* fields that are not zero
    pc, at,      \* each goroutine: what it does, to which field of defaults()
    settled      \* whoever begins a call knows that the fields are filled

vars == <<filled, pc, at, settled>>

entry      == "entry"
Goroutines == Calls \X (Workers \cup {entry})

Init ==
    /\ filled \in SUBSET Names
    /\ settled = (filled = Names)
    /\ pc = [g \in Goroutines |-> "idle"]
    /\ at = [g \in Goroutines |-> 1]

Goto(g, stage) == pc' = [pc EXCEPT ![g] = stage]

\* How the package is used: calls with one *Config overlap only when its fields
\* were set, or after a first call has returned.
mayBegin == settled \/ \A g \in Goroutines : pc[g] = "idle"

\* Mutation: the entry point leaves the defaults to the methods it calls.
BeginUnfilled(c) ==
    /\ pc[<<c, entry>>] = "idle" /\ mayBegin
    /\ Goto(<<c, entry>>, "use")
    /\ UNCHANGED <<filled, at, settled>>

\* SearchImagesWithOpts, FindImages, ValidateCandidates: defaults() comes first.
Begin(c) ==
    /\ pc[<<c, entry>>] = "idle" /\ mayBegin
    /\ Goto(<<c, entry>>, "check")
    /\ UNCHANGED <<filled, at, settled>>

\* On to the next field, or out of defaults().
Advance(g) ==
    /\ at' = [at EXCEPT ![g] = @ + 1]
    /\ Goto(g, IF at[g] = Len(Fields) THEN "use" ELSE "check")

\* The test of one field.
Check(g) ==
    /\ pc[g] = "check"
    /\ IF Fields[at[g]] \in filled THEN Advance(g)
       ELSE Goto(g, "write") /\ UNCHANGED at
    /\ UNCHANGED <<filled, settled>>

Write(g) ==
    /\ pc[g] = "write"
    /\ filled' = filled \cup {Fields[at[g]]}
    /\ Advance(g)
    /\ UNCHANGED settled

\* The entry point, past defaults(), starts its goroutines and waits for them.
Start(c) ==
    /\ pc[<<c, entry>>] = "use"
    /\ pc' = [g \in Goroutines |-> IF g = <<c, entry>> THEN "wait"
                                   ELSE IF g[1] = c THEN "check" ELSE pc[g]]
    /\ UNCHANGED <<filled, at, settled>>

\* A goroutine uses the fields and ends.
Use(g) ==
    /\ pc[g] = "use" /\ g[2] # entry
    /\ Goto(g, "done")
    /\ UNCHANGED <<filled, at, settled>>

Return(c) ==
    /\ pc[<<c, entry>>] = "wait"
    /\ \A w \in Workers : pc[<<c, w>>] = "done"
    /\ Goto(<<c, entry>>, "done")
    /\ settled' = TRUE
    /\ UNCHANGED <<filled, at>>

Returned == (\A g \in Goroutines : pc[g] = "done") /\ UNCHANGED vars

Next == \/ \E c \in Calls : Begin(c) \/ Start(c) \/ Return(c)
        \/ \E g \in Goroutines : Check(g) \/ Write(g) \/ Use(g)
        \/ Returned

Spec == Init /\ [][Next]_vars

-----------------------------------------------------------------------------

reads(g)  == CASE pc[g] = "check" -> {Fields[at[g]]} [] pc[g] = "use" -> Names [] OTHER -> {}
writes(g) == IF pc[g] = "write" THEN {Fields[at[g]]} ELSE {}

\* No goroutine is about to write a field of the *Config while another is about to
\* read or write it: the calls of defaults() in a goroutine of the pipeline never
\* write, because the entry point's came before it was started.
NoDataRace ==
    \A g, h \in Goroutines : g # h => writes(g) \cap (reads(h) \cup writes(h)) = {}
==============================================================================
