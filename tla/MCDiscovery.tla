----------------------------- MODULE MCDiscovery -----------------------------
(***************************************************************************)
(* Sitemaps for Discovery that list others, themselves and blanks, and     *)
(* pages at several places with hrefs of every form.                       *)
(***************************************************************************)
EXTENDS Discovery

CONSTANTS malformed, blank, s1, s2, s3, s4, conventional

MCName == {"", ".", "..", "a", "b", "sms:1", "javascript:b", "data:b", "http:b"}
MCDecode == [name \in MCName |-> name]
MCExtension == [name \in MCName |-> ""]
NoStrings == {}
site == <<"site">>
Sites == {site}

At(path) ==
    [scheme |-> "http", host |-> site, upper |-> FALSE, port |-> "none", path |-> path,
     params |-> <<>>, badQuery |-> FALSE, forceQuery |-> FALSE, fragment |-> FALSE]
Root == At(<<<<"">>>>)
A == At(<<<<"a">>>>)
AB == At(<<<<"a">>, <<"b">>>>)
B == At(<<<<"b">>>>)
Secure(url) == [url EXCEPT !.scheme = "https"]
Ported(url) == [url EXCEPT !.port = "81"]
Foreign(url) == [url EXCEPT !.host = <<"other">>]

MCLocation == {s1, s2, s3, s4, conventional}
Doc(urls_, sitemaps_) == [urls |-> urls_, sitemaps |-> sitemaps_]
MCDocuments ==
    (s1 :> Doc(<<>>, <<s1, blank, s2>>)) @@ (s2 :> Doc(<<AB, malformed>>, <<blank, s4>>))
    @@ (s3 :> Doc(<<A>>, <<s2, s4, s1>>)) @@ (s4 :> Doc(<<B, B>>, <<>>))
    @@ (conventional :> Doc(<<Secure(A)>>, <<s4>>))
MCListings == {<<>>, <<s1>>, <<s2, s1>>, <<s3>>, <<s4, s2, s3>>}

\* An href that has what its URL has.
Refer(url) ==
    [scheme |-> url.scheme, capitals |-> FALSE,
     has |-> (IF url.host # <<>> THEN {"authority"} ELSE {})
                \union (IF url.path # <<>> THEN {"path"} ELSE {})
                \union (IF url.params # <<>> \/ url.forceQuery THEN {"query"} ELSE {}),
     rooted |-> url.host # <<>> /\ url.path # <<>>, marked |-> FALSE, url |-> url]
Relative(url) == [url EXCEPT !.scheme = "", !.host = <<>>]
Of(scheme, path) == Refer([Relative(At(path)) EXCEPT !.scheme = scheme])
Asking(url) == [url EXCEPT !.params = <<[key |-> 1, value |-> 1]>>]
AtRoot(href) == [href EXCEPT !.rooted = TRUE]
Marked(href) == [href EXCEPT !.marked = TRUE]
InCapitals(href) == [href EXCEPT !.capitals = TRUE]

Plainly == {A, AB, At(<<<<"..">>, <<"b">>>>), At(<<<<"b">>, <<"">>>>)}
Below == {Refer(Relative(url)) : url \in Plainly}
Absolutes == {Refer(url) : url \in Plainly \union {Secure(B), Foreign(A), At(<<>>)}}
ToServers == {Refer([url EXCEPT !.scheme = ""]) : url \in {Ported(A), Foreign(A)}}
Queries == {Refer(Relative(Asking(At(<<>>)))),
            Refer([Relative(At(<<>>)) EXCEPT !.forceQuery = TRUE])}
OtherSchemes ==
    {Of("sms", <<<<"sms:1">>>>), Of("data", <<<<"data:b">>, <<"a">>>>),
     Of("http", <<<<"http:b">>>>), Of("javascript", <<<<"javascript:b">>>>),
     InCapitals(Of("javascript", <<<<"javascript:b">>>>)), Marked(Of("sms", <<<<"sms:1">>>>)),
     InCapitals(Refer([A EXCEPT !.upper = TRUE])), Refer([A EXCEPT !.scheme = "ftp"])}
MCHrefs ==
    {Refer(Relative(At(<<>>))), Refer([Relative(At(<<>>)) EXCEPT !.fragment = TRUE]),
     Marked(Refer(Relative(Asking(A)))), Marked(AtRoot(Refer(Relative(Asking(A)))))}
      \union Below \union {AtRoot(href) : href \in Below}
      \union Absolutes \union ToServers \union Queries \union OtherSchemes
      \union {[href EXCEPT !.url = malformed] :
                  href \in Below \union Absolutes \union {Marked(Refer(Relative(A)))}}
Bases == {At(<<>>), Root, A, AB, Secure(AB), Ported(A), Secure(Ported(B))}
MCPages == [base: Bases, hrefs: {<<h>> : h \in MCHrefs}
                \union {<<h, AtRoot(Refer(Relative(A)))>> : h \in MCHrefs}]
=============================================================================
