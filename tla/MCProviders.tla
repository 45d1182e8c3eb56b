----------------------------- MODULE MCProviders ------------------------------
(***************************************************************************)
(* Providers for TLC.                                                      *)
(***************************************************************************)
EXTENDS Providers

MCBlockedDomains == {"stock"}
MCSafeDomains    == {"free"}
MCBlockedURLPatterns == {"/stock-photo"}

Image(t, h, l) == [text |-> t, host |-> h, path |-> {}, logo |-> l]
Photo == [ImgURL |-> Image("photo", {""}, FALSE), Source |-> Image("page", {"", "free"}, FALSE)]
Logo  == [ImgURL |-> Image("logo", {""}, TRUE), Source |-> Image("page", {""}, FALSE)]
Stock == [ImgURL |-> Image("stock", {"", "stock"}, FALSE), Source |-> Image("page", {""}, FALSE)]
Empty == [ImgURL |-> Image("", {}, FALSE), Source |-> Image("page", {""}, FALSE)]

MCRaws == {Photo, Logo, Stock, Empty}

Reply(s, j, t, list) == [status |-> s, json |-> j, token |-> t, results |-> list]
Lists == {<<>>, <<Logo>>, <<Stock, Photo>>}

MCReplies(e) ==
    CASE e = "token"   -> {Reply(200, FALSE, TRUE, <<>>), Reply(200, FALSE, FALSE, <<>>), Reply(403, FALSE, TRUE, <<>>)}
      [] e = "page"    -> {Reply(200, TRUE, FALSE, <<>>), Reply(200, TRUE, FALSE, <<Photo>>)}
      [] e = "engines" -> {Reply(200, TRUE, FALSE, l) : l \in Lists}
      [] OTHER         -> {Reply(200, TRUE, FALSE, l) : l \in Lists \cup {<<Empty, Photo, Logo>>}}
                          \cup {Reply(500, j, FALSE, <<Photo>>) : j \in BOOLEAN}
                          \cup {Reply(302, TRUE, FALSE, <<Photo>>), Reply(200, FALSE, FALSE, <<>>)}

P(name) == [name |-> name, APIKey |-> FALSE, SecretKey |-> FALSE, PageURL |-> TRUE,
            DoerTimeout |-> TRUE]
Pexels  == {[P("pexels") EXCEPT !.APIKey = a, !.SecretKey = s] : a, s \in BOOLEAN}
All     == {P(n) : n \in {"searxng", "openverse", "ddg", "og", "native"}} \cup Pexels
               \cup {[P("og") EXCEPT !.PageURL = FALSE]}

Unbound == [P("native") EXCEPT !.DoerTimeout = FALSE]

\* Nothing hangs; what has a timeout, or the context, hangs; or everything does.
MCHanging == {{}, {"openverse", "page", "engines"}, Endpoints}

MCChains ==
    [fallback : {FALSE}, deadline : BOOLEAN, hanging : MCHanging, Providers : [1..1 -> All \cup {Unbound}]]
    \cup [fallback : {TRUE}, deadline : {TRUE}, hanging : {{"openverse", "page", "engines"}},
          Providers : {<<>>} \cup [1..2 -> All]]
    \cup [fallback : {TRUE}, deadline : {FALSE}, hanging : {{}},
          Providers : [1..3 -> {P("searxng"), P("ddg")}]]
==============================================================================
