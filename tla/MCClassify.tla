------------------------------ MODULE MCClassify -----------------------------
(* Instances of Classify for TLC. *)
EXTENDS Classify, TLC

CONSTANTS c1, c2, c3, u1, u2, house, custom

request(e, u, p, cl, ca, b) ==
    [entry |-> e, url |-> u, VisionPrompt |-> p, Classifier |-> cl, Cache |-> ca, bytes |-> b]

MCPrompts == {house, custom}

\* Two images, both entry points, with and without bytes, cache and classifier, and
\* two configurations that share the cache.
MCRequests ==
    {request("full", u, NoPrompt, TRUE, TRUE, FALSE) : u \in {u1, u2}}
      \cup {request("predownloaded", u1, NoPrompt, TRUE, TRUE, FALSE)}
      \cup {request("predownloaded", u1, custom, TRUE, c, TRUE) : c \in BOOLEAN}
      \cup {request("full", u1, NoPrompt, FALSE, TRUE, FALSE)}

\* In and out of the classes; without a number, with one at and above the limit, and
\* with one that is none.
MCResponses ==
    {[label |-> "PHOTO", number |-> 100], [label |-> "STOCK", number |-> NaN],
     [label |-> "STOCK", number |-> 101], [label |-> "NSFW", number |-> NoNumber]}

symmetry == Permutations(Callers)
==============================================================================
