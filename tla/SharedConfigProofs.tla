-------------------------- MODULE SharedConfigProofs --------------------------
(***************************************************************************)
(* Config.defaults under every number of calls and goroutines.  Filling    *)
(* says that before the fields are all filled at most one goroutine is     *)
(* about, an entry point in its defaults(); whoever passes defaults() has  *)
(* seen every field filled, and a field is written only while it is not.   *)
(***************************************************************************)
EXTENDS SharedConfig, TLAPS

\* The fields that defaults() has tested before the one at place n.
passed(n) == {Fields[i] : i \in 1..(n - 1)}

Filling ==
    /\ filled \subseteq Names
    /\ pc \in [Goroutines -> {"idle", "check", "write", "use", "wait", "done"}]
    /\ at \in [Goroutines -> 1..4]
    /\ settled => filled = Names
    /\ \A g \in Goroutines :
          /\ pc[g] \in {"check", "write"} => at[g] \in 1..3 /\ passed(at[g]) \subseteq filled
          /\ pc[g] \in {"use", "wait", "done"} => filled = Names
          /\ pc[g] = "idle" => at[g] = 1
          /\ pc[g] = "write" => Fields[at[g]] \notin filled
    /\ \A g, h \in Goroutines :
          pc[g] # "idle" /\ pc[h] # "idle" /\ g # h => filled = Names
    /\ \A c \in Calls, w \in Workers :
          w # entry /\ pc[<<c, entry>>] \in {"idle", "check", "write", "use"} => pc[<<c, w>>] = "idle"

-----------------------------------------------------------------------------

\* The three fields, in the order of the tests.
LEMMA FieldFacts ==
    /\ Len(Fields) = 3
    /\ \A n \in 1..3 : Fields[n] \in Names /\ passed(n + 1) = passed(n) \cup {Fields[n]}
    /\ passed(1) = {} /\ passed(4) = Names
<1>1. Len(Fields) = 3 /\ Fields[1] = "MinImageWidth" /\ Fields[2] = "UserAgent" /\ Fields[3] = "HTTPClient"
  BY DEF Fields
<1>2. passed(1) = {}
  BY DEF passed
<1>3. passed(4) = {Fields[1], Fields[2], Fields[3]}
  <2>1. 1..(4 - 1) = {1, 2, 3}
    OBVIOUS
  <2> QED BY <2>1 DEF passed
<1>4. ASSUME NEW n \in 1..3 PROVE passed(n + 1) = passed(n) \cup {Fields[n]}
  <2>1. 1..((n + 1) - 1) = (1..(n - 1)) \cup {n}
    OBVIOUS
  <2> QED BY <2>1 DEF passed
<1>5. \A n \in 1..3 : Fields[n] \in Names
  BY <1>1 DEF Names
<1> QED BY <1>1, <1>2, <1>3, <1>4, <1>5 DEF Names

\* Leaving a field behind that is filled.
LEMMA AdvanceKeeps ==
    ASSUME Filling, NEW g \in Goroutines, pc[g] \in {"check", "write"}, Advance(g),
           filled \subseteq filled', filled' \subseteq Names, Fields[at[g]] \in filled',
           filled' = filled \/ \A h \in Goroutines : h # g => pc[h] = "idle",
           UNCHANGED settled
    PROVE  Filling'
<1>1. /\ at' = [at EXCEPT ![g] = at[g] + 1]
      /\ pc' = [pc EXCEPT ![g] = IF at[g] = 3 THEN "use" ELSE "check"]
      /\ at[g] \in 1..3 /\ passed(at[g]) \subseteq filled
  BY FieldFacts DEF Advance, Goto, Filling
<1>2. passed(at[g] + 1) \subseteq filled'
  BY <1>1, FieldFacts
<1>3. at'[g] = at[g] + 1 /\ pc'[g] = IF at[g] = 3 THEN "use" ELSE "check"
  BY <1>1 DEF Filling
<1>4. \A h \in Goroutines : h # g => at'[h] = at[h] /\ pc'[h] = pc[h]
  BY <1>1 DEF Filling
<1>5. filled = Names => filled' = Names
  OBVIOUS
<1>6. pc'[g] = "use" => filled' = Names
  BY <1>1, <1>2, <1>3, FieldFacts
<1>7. at' \in [Goroutines -> 1..4] /\ pc' \in [Goroutines -> {"idle", "check", "write", "use", "wait", "done"}]
  BY <1>1 DEF Filling
<1>8. \A h \in Goroutines :
          /\ pc'[h] \in {"check", "write"} => at'[h] \in 1..3 /\ passed(at'[h]) \subseteq filled'
          /\ pc'[h] \in {"use", "wait", "done"} => filled' = Names
          /\ pc'[h] = "idle" => at'[h] = 1
          /\ pc'[h] = "write" => Fields[at'[h]] \notin filled'
  <2> TAKE h \in Goroutines
  <2>1. CASE h = g
    BY <1>1, <1>2, <1>3, <1>6, <2>1
  <2>2. CASE h # g
    BY <1>4, <1>5, <2>2 DEF Filling
  <2> QED BY <2>1, <2>2
<1>9. \A h, i \in Goroutines : pc'[h] # "idle" /\ pc'[i] # "idle" /\ h # i => filled' = Names
  BY <1>4, <1>5 DEF Filling
<1>10. \A c \in Calls, w \in Workers :
          w # entry /\ pc'[<<c, entry>>] \in {"idle", "check", "write", "use"} => pc'[<<c, w>>] = "idle"
  <2> TAKE c \in Calls, w \in Workers
  <2> HAVE w # entry /\ pc'[<<c, entry>>] \in {"idle", "check", "write", "use"}
  <2>1. <<c, entry>> \in Goroutines /\ <<c, w>> \in Goroutines /\ <<c, w>> # <<c, entry>>
    BY DEF Goroutines
  <2>2. pc[<<c, entry>>] \in {"idle", "check", "write", "use"}
    BY <1>4, <2>1
  <2>3. pc[<<c, w>>] = "idle"
    BY <2>2 DEF Filling
  <2> QED BY <1>4, <2>1, <2>3
<1> QED BY <1>5, <1>7, <1>8, <1>9, <1>10 DEF Filling

\* A step that fills nothing and moves goroutines that find everything filled, or
\* the only one there is.
LEMMA MoveKeeps ==
    ASSUME Filling, UNCHANGED <<filled, at>>, settled' => filled = Names,
           pc' \in [Goroutines -> {"idle", "check", "write", "use", "wait", "done"}],
           \A g \in Goroutines : pc'[g] # pc[g] =>
               \/ pc'[g] = "check" /\ pc[g] = "idle"
                    /\ (filled = Names \/ \A h \in Goroutines : h # g => pc[h] = "idle" /\ pc'[h] = "idle")
               \/ pc'[g] = "write" /\ pc[g] = "check" /\ Fields[at[g]] \notin filled
               \/ pc'[g] \in {"wait", "done"} /\ filled = Names,
           \A c \in Calls, w \in Workers :
               w # entry /\ pc'[<<c, entry>>] \in {"idle", "check", "write", "use"} => pc'[<<c, w>>] = "idle"
    PROVE  Filling'
<1>1. \A g \in Goroutines :
          /\ pc'[g] \in {"check", "write"} => at[g] \in 1..3 /\ passed(at[g]) \subseteq filled
          /\ pc'[g] \in {"use", "wait", "done"} => filled = Names
          /\ pc'[g] = "idle" => at[g] = 1
          /\ pc'[g] = "write" => Fields[at[g]] \notin filled
  BY FieldFacts DEF Filling
<1>2. \A g, h \in Goroutines : pc'[g] # "idle" /\ pc'[h] # "idle" /\ g # h => filled = Names
  BY DEF Filling
<1> QED BY <1>1, <1>2 DEF Filling

\* Every step keeps Filling.
LEMMA FillingNext == Filling /\ [Next]_vars => Filling'
<1> SUFFICES ASSUME Filling, [Next]_vars PROVE Filling'
  OBVIOUS
<1>0. /\ \A c \in Calls : <<c, entry>> \in Goroutines
      /\ \A c \in Calls, w \in Workers : <<c, w>> \in Goroutines
      /\ \A c, d \in Calls, w \in Workers : w # entry => <<c, w>> # <<d, entry>>
  BY DEF Goroutines
<1>1. ASSUME NEW c \in Calls, Begin(c) PROVE Filling'
  <2>1. /\ pc[<<c, entry>>] = "idle" /\ UNCHANGED <<filled, at, settled>>
        /\ pc' = [pc EXCEPT ![<<c, entry>>] = "check"]
        /\ filled = Names \/ \A g \in Goroutines : pc[g] = "idle"
    BY <1>1 DEF Begin, Goto, mayBegin, Filling
  <2>2. \A d \in Calls, w \in Workers :
           w # entry /\ pc'[<<d, entry>>] \in {"idle", "check", "write", "use"} => pc'[<<d, w>>] = "idle"
    <3> TAKE d \in Calls, w \in Workers
    <3> HAVE w # entry /\ pc'[<<d, entry>>] \in {"idle", "check", "write", "use"}
    <3>1. pc[<<d, entry>>] \in {"idle", "check", "write", "use"}
      BY <1>0, <2>1 DEF Filling
    <3>2. pc[<<d, w>>] = "idle" /\ <<d, w>> # <<c, entry>>
      BY <1>0, <3>1 DEF Filling
    <3> QED BY <1>0, <2>1, <3>2 DEF Filling
  <2>3. pc' \in [Goroutines -> {"idle", "check", "write", "use", "wait", "done"}]
    BY <2>1, Zenon DEF Filling
  <2>4. ASSUME NEW g \in Goroutines, pc'[g] # pc[g]
        PROVE  /\ pc'[g] = "check" /\ pc[g] = "idle"
               /\ filled = Names \/ \A h \in Goroutines : h # g => pc[h] = "idle" /\ pc'[h] = "idle"
    <3>1. g = <<c, entry>>
      BY <1>0, <2>1, <2>4 DEF Filling
    <3>2. pc'[g] = "check" /\ pc[g] = "idle" /\ \A h \in Goroutines : h # g => pc'[h] = pc[h]
      BY <1>0, <2>1, <3>1 DEF Filling
    <3> QED BY <2>1, <3>2
  <2> QED BY <2>1, <2>2, <2>3, <2>4, MoveKeeps, Zenon DEF Filling
<1>2. ASSUME NEW g \in Goroutines, Check(g) PROVE Filling'
  <2>1. CASE Fields[at[g]] \in filled
    BY <1>2, <2>1, AdvanceKeeps DEF Check, Filling
  <2>2. CASE Fields[at[g]] \notin filled
    <3>1. /\ pc[g] = "check" /\ pc' = [pc EXCEPT ![g] = "write"]
          /\ UNCHANGED <<filled, at, settled>>
      BY <1>2, <2>2 DEF Check, Goto
    <3>2. \A d \in Calls, w \in Workers :
             w # entry /\ pc'[<<d, entry>>] \in {"idle", "check", "write", "use"} => pc'[<<d, w>>] = "idle"
      <4> TAKE d \in Calls, w \in Workers
      <4> HAVE w # entry /\ pc'[<<d, entry>>] \in {"idle", "check", "write", "use"}
      <4>1. pc[<<d, entry>>] \in {"idle", "check", "write", "use"}
        BY <1>0, <3>1 DEF Filling
      <4>2. pc[<<d, w>>] = "idle"
        BY <1>0, <4>1 DEF Filling
      <4> QED BY <1>0, <3>1, <4>2 DEF Filling
    <3> QED BY <2>2, <3>1, <3>2, MoveKeeps DEF Filling
  <2> QED BY <2>1, <2>2
<1>3. ASSUME NEW g \in Goroutines, Write(g) PROVE Filling'
  <2>1. /\ pc[g] = "write" /\ filled' = filled \cup {Fields[at[g]]} /\ Advance(g) /\ UNCHANGED settled
        /\ at[g] \in 1..3 /\ Fields[at[g]] \in Names /\ Fields[at[g]] \notin filled
    BY <1>3, FieldFacts DEF Write, Filling
  <2>2. \A h \in Goroutines : h # g => pc[h] = "idle"
    BY <2>1 DEF Filling
  <2> QED BY <2>1, <2>2, AdvanceKeeps DEF Filling
<1>4. ASSUME NEW c \in Calls, Start(c) PROVE Filling'
  <2>1. /\ pc[<<c, entry>>] = "use" /\ UNCHANGED <<filled, at, settled>> /\ filled = Names
        /\ pc' = [g \in Goroutines |-> IF g = <<c, entry>> THEN "wait"
                                       ELSE IF g[1] = c THEN "check" ELSE pc[g]]
    BY <1>0, <1>4 DEF Start, Filling
  <2>2. \A g \in Goroutines : g # <<c, entry>> /\ g[1] = c => pc[g] = "idle"
    <3> TAKE g \in Goroutines
    <3> HAVE g # <<c, entry>> /\ g[1] = c
    <3>1. PICK w \in Workers : g = <<c, w>> /\ w # entry
      BY DEF Goroutines
    <3> QED BY <1>0, <2>1, <3>1 DEF Filling
  <2>3. \A d \in Calls, w \in Workers :
           w # entry /\ pc'[<<d, entry>>] \in {"idle", "check", "write", "use"} => pc'[<<d, w>>] = "idle"
    <3> TAKE d \in Calls, w \in Workers
    <3> HAVE w # entry /\ pc'[<<d, entry>>] \in {"idle", "check", "write", "use"}
    <3>1. d # c
      BY <1>0, <2>1
    <3>2. <<d, entry>>[1] = d /\ <<d, w>>[1] = d /\ <<d, entry>> # <<c, entry>> /\ <<d, w>> # <<c, entry>>
      BY <3>1
    <3>3. pc'[<<d, entry>>] = pc[<<d, entry>>] /\ pc'[<<d, w>>] = pc[<<d, w>>]
      BY <1>0, <2>1, <3>1, <3>2
    <3> QED BY <3>3 DEF Filling
  <2>4. pc' \in [Goroutines -> {"idle", "check", "write", "use", "wait", "done"}]
    BY <2>1 DEF Filling
  <2>5. \A g \in Goroutines : pc'[g] # pc[g] =>
               \/ pc'[g] = "check" /\ pc[g] = "idle" /\ filled = Names
               \/ pc'[g] \in {"wait", "done"} /\ filled = Names
    BY <2>1, <2>2
  <2> QED BY <2>1, <2>3, <2>4, <2>5, MoveKeeps, Zenon DEF Filling
<1>5. ASSUME NEW g \in Goroutines, Use(g) PROVE Filling'
  <2>1. /\ pc[g] = "use" /\ pc' = [pc EXCEPT ![g] = "done"] /\ filled = Names /\ g[2] # entry
        /\ UNCHANGED <<filled, at, settled>>
    BY <1>5 DEF Use, Goto, Filling
  <2>2. \A d \in Calls, w \in Workers :
           w # entry /\ pc'[<<d, entry>>] \in {"idle", "check", "write", "use"} => pc'[<<d, w>>] = "idle"
    <3> TAKE d \in Calls, w \in Workers
    <3> HAVE w # entry /\ pc'[<<d, entry>>] \in {"idle", "check", "write", "use"}
    <3>1. g # <<d, entry>>
      BY <2>1
    <3>2. pc[<<d, entry>>] \in {"idle", "check", "write", "use"}
      BY <1>0, <2>1, <3>1 DEF Filling
    <3>3. pc[<<d, w>>] = "idle"
      BY <3>2 DEF Filling
    <3> QED BY <1>0, <2>1, <3>3 DEF Filling
  <2> QED BY <2>1, <2>2, MoveKeeps DEF Filling
<1>6. ASSUME NEW c \in Calls, Return(c) PROVE Filling'
  <2>1. /\ pc[<<c, entry>>] = "wait" /\ pc' = [pc EXCEPT ![<<c, entry>>] = "done"]
        /\ filled = Names /\ UNCHANGED <<filled, at>>
    BY <1>0, <1>6 DEF Return, Goto, Filling
  <2>2. \A d \in Calls, w \in Workers :
           w # entry /\ pc'[<<d, entry>>] \in {"idle", "check", "write", "use"} => pc'[<<d, w>>] = "idle"
    <3> TAKE d \in Calls, w \in Workers
    <3> HAVE w # entry /\ pc'[<<d, entry>>] \in {"idle", "check", "write", "use"}
    <3>1. d # c
      BY <1>0, <2>1 DEF Filling
    <3>2. pc[<<d, entry>>] \in {"idle", "check", "write", "use"} /\ pc'[<<d, w>>] = pc[<<d, w>>]
      BY <1>0, <2>1, <3>1 DEF Filling
    <3> QED BY <3>2 DEF Filling
  <2> QED BY <1>0, <2>1, <2>2, MoveKeeps, Zenon DEF Filling
<1>7. CASE UNCHANGED vars
  BY <1>7 DEF vars, Filling
<1> QED BY <1>1, <1>2, <1>3, <1>4, <1>5, <1>6, <1>7 DEF Next, Returned

\* Filling holds throughout.
LEMMA FillingInvariant == Spec => []Filling
<1>1. Init => Filling
  <2> SUFFICES ASSUME Init PROVE Filling
    OBVIOUS
  <2>1. filled \subseteq Names /\ (settled => filled = Names)
    BY Zenon DEF Init
  <2>2. pc = [g \in Goroutines |-> "idle"] /\ at = [g \in Goroutines |-> 1]
    BY DEF Init
  <2>3. /\ \A c \in Calls, w \in Workers : <<c, w>> \in Goroutines
        /\ \A g \in Goroutines : pc[g] = "idle" /\ at[g] = 1
    BY <2>2 DEF Goroutines
  <2> QED BY <2>1, <2>2, <2>3 DEF Filling
<1> QED BY <1>1, FillingNext, PTL DEF Spec

\* For every number of calls with one *Config and of goroutines they start, no field is
\* about to be written by one goroutine while another is about to read or write it.
THEOREM DefaultsRaceFree == Spec => []NoDataRace
<1>1. Filling => NoDataRace
  <2> SUFFICES ASSUME Filling, NEW g \in Goroutines, NEW h \in Goroutines, g # h
               PROVE  writes(g) \cap (reads(h) \cup writes(h)) = {}
    BY DEF NoDataRace
  <2>1. CASE pc[g] # "write"
    BY <2>1 DEF writes
  <2>2. CASE pc[g] = "write"
    <3>1. filled # Names
      BY <2>2, FieldFacts DEF Filling
    <3>2. pc[h] = "idle"
      BY <2>2, <3>1 DEF Filling
    <3>3. reads(h) = {} /\ writes(h) = {}
      BY <3>2, Zenon DEF reads, writes
    <3> QED BY <3>3
  <2> QED BY <2>1, <2>2
<1> QED BY <1>1, FillingInvariant, PTL
==============================================================================
