------------------------------ MODULE Selection ------------------------------
(***************************************************************************)
(* What a caller may rely on when it hands candidates to                   *)
(* validateCandidates (validate_pipeline.go), without the goroutines, the  *)
(* stages and the network: results are chosen one at a time, each of them  *)
(* admissible, none twice, no two that look alike, never more than asked   *)
(* for; and once the call has returned they do not change.  Validation is  *)
(* shown to implement this specification, and Search is composed with it.  *)
(***************************************************************************)
EXTENDS Integers, Sequences

CONSTANTS
    Looks,              \* what pictures may look like
    Admissible(_, _),   \* whether a configuration lets a candidate through at all
    Alike(_, _)         \* whether two pictures look alike

VARIABLES
    call,     \* the arguments [toValidate, maxResults, cfg]
    chosen,   \* the result so far, as records [idx, look]
    closed    \* whether the call has returned

selVars == <<call, chosen, closed>>

Init == chosen = <<>> /\ closed = FALSE

Choose(i, look) ==
    /\ ~closed
    /\ i \in 1..Len(call.toValidate) /\ look \in Looks
    /\ chosen' = Append(chosen, [idx |-> i, look |-> look])
    /\ Len(chosen) < call.maxResults
    /\ Admissible(call.cfg, call.toValidate[i])
    /\ \A k \in 1..Len(chosen) : chosen[k].idx # i /\ ~Alike(chosen[k].look, look)
    /\ UNCHANGED <<call, closed>>

Close ==
    /\ ~closed
    /\ closed' = TRUE
    /\ UNCHANGED <<call, chosen>>

Next ==
    \/ \E i \in 1..Len(call.toValidate), look \in Looks : Choose(i, look)
    \/ Close

Spec == Init /\ [][Next]_selVars
==============================================================================
