------------------------------ MODULE MCFrontier ------------------------------
(***************************************************************************)
(* Batches of two or three URLs for Frontier: one from a small grammar of  *)
(* URLs, the others from those that are near to it.                        *)
(***************************************************************************)
EXTENDS Frontier

CONSTANTS malformed, w1, w2

MCName == {"", ".", "..", "a", "b", "%61", "p.html", "q.pdf"}
MCDecode == [name \in MCName |-> IF name = "%61" THEN "a" ELSE name]
MCExtension == [name \in MCName |->
    CASE name = "p.html" -> ".html" [] name = "q.pdf" -> ".pdf" [] OTHER -> ""]

site == <<"site">>
subsite == <<"sub", "site">>
other == <<"other">>
Sites == {site}
NotSub == {subsite, other}
Html == {".html"}
Pdf == {".pdf"}
Tracking == {3}
Nothing == {}

At(path) ==
    [scheme |-> "http", host |-> site, upper |-> FALSE, port |-> "none", path |-> path,
     params |-> <<>>, badQuery |-> FALSE, forceQuery |-> FALSE, fragment |-> FALSE]
Asking(params) == [At(<<<<"a">>>>) EXCEPT !.params = params]
Param(key, value) == [key |-> key, value |-> value]

Elements == {<<"">>, <<".">>, <<"..">>, <<"a">>, <<"%61">>, <<"a", "b">>}
Paths == UNION {[1..n -> Elements] : n \in 0..3}
Climbs == {<<<<"b">>, <<"a">>, <<"..">>, <<"..">>, <<"a">>>>,
           <<<<"a">>, <<"..">>, <<"..">>, <<"b">>, <<"">>>>}
Files == {<<<<"p.html">>>>, <<<<"q.pdf">>>>, <<<<"a">>, <<"a">>, <<"a">>, <<"a">>>>}
ByPath == {At(path) : path \in Paths \union Climbs \union Files}
NearPath == {At(<<>>), At(<<<<"">>>>), At(<<<<"a">>>>), At(<<<<"a">>, <<"b">>>>),
             At(<<<<"b">>, <<"">>>>), At(<<<<"a", "b">>>>)}

ByHost == {[At(<<<<"a">>>>) EXCEPT !.scheme = scheme, !.host = host, !.upper = upper,
                                   !.port = port, !.fragment = upper] :
    scheme \in {"http", "https", "ftp"}, host \in {<<>>, site, subsite, other},
    upper \in BOOLEAN, port \in {"none", "empty", "80", "443"}}
NearHost == {At(<<<<"a">>>>), [At(<<<<"a">>>>) EXCEPT !.scheme = "https"],
             [At(<<<<"a">>>>) EXCEPT !.port = "443"], malformed}

Params == {Param(1, 1), Param(1, 2), Param(2, 0), Param(2, 1), Param(3, 1)}
ByQuery == {Asking(params) : params \in UNION {[1..n -> Params] : n \in 0..3}}
              \union {[Asking(<<Param(3, 1), Param(1, 1)>>) EXCEPT !.badQuery = TRUE],
                      [Asking(<<>>) EXCEPT !.forceQuery = TRUE]}
NearQuery == {Asking(<<>>), Asking(<<Param(1, 1), Param(1, 2)>>),
              Asking(<<Param(1, 2), Param(2, 1)>>)}

MCBatches == (ByPath \X NearPath) \union (ByHost \X NearHost) \union (ByQuery \X NearQuery)
MCOldUrls == {{}, {At(<<<<"b">>>>)}}
=============================================================================
