------------------------------ MODULE MCContent ------------------------------
(***************************************************************************)
(* Content for TLC.  The page is on www.site.org and its slug has the word *)
(* "opera".  Only a custom transport can fetch the page without a host.    *)
(***************************************************************************)
EXTENDS Content

MCBlockedDomains == {"stock"}
MCSafeDomains    == {"free"}
MCBlockedURLPatterns == {"/stock-photo"}
MCLongWords      == {"opera"}

Own == [NoURL EXCEPT !.http = TRUE, !.labels = <<"img", "site", "org">>, !.host = {""}]

Opera   == [Own EXCEPT !.text = "opera", !.words = {"opera", "the"}]
Opera64 == [Opera EXCEPT !.sizes = <<<<640, 480>>>>]
Twice   == [Opera EXCEPT !.sizes = <<<<640, 480>>, <<320, 240>>>>]
Tiny    == [Opera EXCEPT !.sizes = <<<<199, 150>>>>]
Square  == [Own EXCEPT !.text = "square", !.words = {"the"}]
Edge    == [Square EXCEPT !.sizes = <<<<200, 150>>>>]
Logo    == [Own EXCEPT !.text = "logo", !.logo = TRUE, !.skip = TRUE]
Badge   == [Own EXCEPT !.text = "badge", !.logo = TRUE]
Other   == [NoURL EXCEPT !.text = "other", !.http = TRUE, !.labels = <<"cdn", "net">>, !.host = {"", "free"}]
Stock   == [NoURL EXCEPT !.text = "stock", !.http = TRUE, !.labels = <<"stock", "com">>, !.host = {"", "stock"}]
Data    == [Own EXCEPT !.text = "data", !.http = FALSE, !.labels = <<>>]
Bare    == [Own EXCEPT !.text = "bare", !.labels = <<>>, !.host = {}]

Page    == [Own EXCEPT !.text = "page", !.labels = <<"www", "site", "org">>, !.words = {"opera", "the"}]
NoHost  == [Bare EXCEPT !.words = {"the"}]

Full(S) == S \cup {normalizeImgURL(u) : u \in S}
MCURLs == Full(Full({NoURL, Opera, Opera64, Twice, Tiny, Square, Edge, Logo, Badge, Other, Stock, Data, Bare}))

MCRequests == {[PageURL |-> p, query |-> q] : p \in {NoURL, Page, NoHost}, q \in {{}, {"the", "opera"}}}

Img_(u) == [src |-> u, width |-> 0, height |-> 0]
Tags == {Img_(u) : u \in {Opera, Opera64, Twice, Tiny, Edge, Badge, Stock, Bare}}
        \cup {[src |-> Square, width |-> 199, height |-> 199], [src |-> Square, width |-> 100, height |-> 200]}

Value(kind, u) == [kind |-> kind, url |-> u, items |-> <<>>]
Block(v)       == [parses |-> TRUE, image |-> v]
List(items)    == [kind |-> "list", url |-> NoURL, items |-> items]
Blocks == {Block(Value("text", Edge)), Block(Value("object", Other)), Block(List(<<>>)),
           Block(List(<<Value("text", Opera), Value("text", Other)>>)), Block(Value("other", NoURL)),
           [parses |-> FALSE, image |-> Value("text", Other)]}

Upto(S, n) == UNION {[1..m -> S] : m \in 0..n}

MCDocs ==
    [og : {NoURL, Opera64, Twice, Badge, Other}, twitter : {NoURL, Opera, Stock},
     jsonld : Upto(Blocks, 1), imgs : Upto(Tags, 2)]
    \cup [og : {NoURL, Opera64}, twitter : {NoURL}, jsonld : {<<>>}, imgs : Upto(Tags \ {Img_(Stock), Img_(Bare)}, 3)]
==============================================================================
