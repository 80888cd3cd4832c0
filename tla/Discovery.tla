------------------------------ MODULE Discovery ------------------------------
(***************************************************************************)
(* Where a crawl gets its URLs from: a seed, the sitemaps of its host      *)
(* (internal/crawler/sitemap.go) and the links of a page                   *)
(* (internal/extractor/links.go), each processed in turn by enqueue, by    *)
(* the normalization and validation of Normalizer.  Run discovers sitemaps *)
(* before the crawl starts, so nothing here is concurrent; the page is one *)
(* a worker has fetched, at the URL it ended at.                           *)
(***************************************************************************)
EXTENDS Normalizer

CONSTANTS
    Location,       \* where a sitemap may be
    Blank,          \* a <loc> of spaces
    Documents,      \* Documents[location]: its page URLs, the sitemaps it lists
    Listings,       \* what robots.txt may list; <<>> also when it is not to be had
    Conventional,   \* <scheme>://<host>/sitemap.xml of the seed
    MaxSitemapsFetched, MaxSitemapURLs,
    Seed, Pages,    \* a page: the URL it is at, and its hrefs
    Malformed       \* a raw URL that url.Parse rejects

Web == {"http", "https"}

\* An href as RFC 3986 parses it: its scheme, "" for none, and whether that has
\* capitals; which other components it has, a fragment apart; whether its path starts
\* with a slash, and whether "://" stands behind its authority or its scheme.  What no
\* authority says is a host <<>> and a port "none".  A path after a scheme without
\* authority is known by what the whole href is as a path.  The URL is Malformed if
\* what becomes of it does not parse.
Href == [scheme: STRING, capitals: BOOLEAN, has: SUBSET {"authority", "path", "query"},
         rooted: BOOLEAN, marked: BOOLEAN, url: Url \union {Malformed}]

Consistent(href) ==
    /\ href.url.scheme = href.scheme
    /\ "authority" \notin href.has => href.url.host = <<>> /\ href.url.port = "none"
    /\ "path" \in href.has <=> href.url.path # <<>>
    /\ href.rooted => "path" \in href.has

ASSUME DiscoveryAssumption ==
    /\ Conventional \in Location /\ Blank \notin Location
    /\ \A l \in Location :
          /\ Documents[l].sitemaps \in Seq(Location \union {Blank})
          /\ Documents[l].urls \in Seq(ToSet(Documents[l].urls))
    /\ Listings \subseteq Seq(Location)
    /\ \A doc \in Pages :
          /\ doc.base \in Url /\ doc.base.scheme \in Web
          /\ doc.base.host # <<>> \/ doc.base.port # "none"
          /\ \A href \in ToSet(doc.hrefs) :
                href \in Href /\ (href.url = Malformed \/ Consistent(href))
    /\ MaxSitemapsFetched \in Nat /\ MaxSitemapURLs \in Nat

VARIABLES
    stage,      \* what the URLs being enqueued are: seed, sitemaps, page; or fetch
    sitemaps, children, \* sitemaps still to fetch, and of the last one's index
    fetched, urls,      \* how many were fetched, the page URLs found
    page,
    todo, seen,         \* raw URLs to be enqueued, in an order that does not
                        \* matter here, and the seen set
    listed, asked, had  \* history: the sitemaps of the seed and those that one
                        \* of them lists; those asked for, in order; and those
                        \* that answered

sitemapVars == <<sitemaps, children, fetched, urls, listed, asked, had>>
vars == <<stage, sitemapVars, page, todo, seen>>

Init ==
    /\ stage = "seed" /\ todo = {Seed}
    /\ sitemaps = <<>> /\ children = <<>> /\ fetched = 0 /\ urls = <<>>
    /\ page \in Pages
    /\ seen = {}
    /\ listed = {} /\ asked = <<>> /\ had = {}

-----------------------------------------------------------------------------
(* enqueue, as far as Process *)

Entry(raw) == IF raw = Malformed THEN {} ELSE {url \in {Normalize(raw)} : IsValid(url)}

Enqueue ==
    /\ \E raw \in todo : seen' = seen \union Entry(raw) /\ todo' = todo \ {raw}
    /\ UNCHANGED <<stage, sitemapVars, page>>

-----------------------------------------------------------------------------
(* discoverSitemapURLs *)

SitemapsForSeed ==
    /\ stage = "seed" /\ todo = {}
    /\ \E listing \in Listings :
          sitemaps' = IF listing = <<>> THEN <<Conventional>> ELSE listing
    /\ listed' = ToSet(sitemaps')
    /\ stage' = "fetch"
    /\ UNCHANGED <<children, fetched, urls, asked, had, page, todo, seen>>

Capped == fetched >= MaxSitemapsFetched \/ Len(urls) >= MaxSitemapURLs

Room == MaxSitemapURLs - Len(urls)
Added(more) == urls \o SubSeq(more, 1, IF Len(more) < Room THEN Len(more) ELSE Room)

\* Any failure of a fetch is like an empty document.
Nothing == [urls |-> <<>>, sitemaps |-> <<>>]

Fetch(location, doc) ==
    /\ doc \in {Documents[location], Nothing}
    /\ fetched' = fetched + 1
    /\ urls' = Added(doc.urls)
    /\ asked' = Append(asked, location)
    /\ had' = IF doc = Nothing THEN had ELSE had \union {location}
    /\ UNCHANGED <<stage, page, todo, seen>>

FetchListed ==
    /\ stage = "fetch" /\ children = <<>> /\ sitemaps # <<>> /\ ~Capped
    /\ \E doc \in {Documents[Head(sitemaps)], Nothing} :
          /\ Fetch(Head(sitemaps), doc)
          /\ children' = doc.sitemaps
          /\ listed' = listed \union (ToSet(doc.sitemaps) \ {Blank})
    /\ sitemaps' = Tail(sitemaps)

\* An index that a child lists is not followed.
FetchChild ==
    /\ stage = "fetch" /\ children # <<>> /\ ~Capped /\ Head(children) # Blank
    /\ \E doc \in {Documents[Head(children)], Nothing} : Fetch(Head(children), doc)
    /\ children' = Tail(children)
    /\ UNCHANGED <<sitemaps, listed>>

\* What is left of an index after an empty <loc>.
BrokenOff == <<>>
AfterBlank == Tail(children)

SkipBlank ==
    /\ stage = "fetch" /\ children # <<>> /\ ~Capped /\ Head(children) = Blank
    /\ children' = AfterBlank
    /\ UNCHANGED <<stage, sitemaps, fetched, urls, listed, asked, had, page, todo, seen>>

EndDiscovery ==
    /\ stage = "fetch"
    /\ Capped \/ (sitemaps = <<>> /\ children = <<>>)
    /\ stage' = "sitemaps"
    /\ todo' = ToSet(urls)
    /\ UNCHANGED <<sitemapVars, page, seen>>

-----------------------------------------------------------------------------
(* ExtractLinksFromDocument *)

\* What the prefix of an href says of it.
Skipped(href) ==
    \/ href.scheme \in {"javascript", "mailto", "tel"} /\ ~href.capitals
    \/ href.scheme = "" /\ href.has = {}
Absolute(href) == href.scheme \in Web /\ ~href.capitals /\ "authority" \in href.has
ProtocolRelative(href) == href.scheme = "" /\ "authority" \in href.has
RootRelative(href) == href.scheme = "" /\ "authority" \notin href.has /\ href.rooted
WithMark(href) == href.marked \/ (href.scheme # "" /\ "authority" \in href.has)

SchemeOf(base) == IF base.scheme = "https" THEN "https" ELSE "http"
WithoutPort(base) == "none"
PortOf(base) == base.port
OnHostOf(url, base) ==
    [url EXCEPT !.scheme = SchemeOf(base), !.host = base.host, !.upper = base.upper,
                !.port = PortOf(base)]

\* All the rest is put behind the slash of the page's root.
AfterSlash(url) == [url EXCEPT !.path = IF @ = <<>> THEN <<<<"">>>> ELSE @]

ByPrefix(href, base) ==
    CASE Absolute(href) -> href.url
      [] ProtocolRelative(href) -> [href.url EXCEPT !.scheme = SchemeOf(base)]
      [] RootRelative(href) -> OnHostOf(href.url, base)
      [] OTHER -> OnHostOf(AfterSlash(href.url), base)

\* With a "://" it is left to Process as it is.
ResolveURLUsingFrontier(href, base) ==
    IF WithMark(href) /\ ~Absolute(href) /\ ~ProtocolRelative(href) /\ ~RootRelative(href)
    THEN {href.url}
    ELSE IF href.url = Malformed THEN {} ELSE {ByPrefix(href, base)}

Link(href, base) ==
    IF Skipped(href) THEN {} ELSE ResolveURLUsingFrontier(href, base)

\* A link that occurs twice counts once.
LinksOf(doc) == UNION {Link(href, doc.base) : href \in ToSet(doc.hrefs)}

ExtractLinks ==
    /\ stage = "sitemaps" /\ todo = {}
    /\ stage' = "page"
    /\ todo' = LinksOf(page)
    /\ UNCHANGED <<sitemapVars, page, seen>>

Ended == stage = "page" /\ todo = {}
Done == Ended /\ UNCHANGED vars

Next ==
    \/ Enqueue \/ SitemapsForSeed \/ FetchListed \/ FetchChild \/ SkipBlank
    \/ EndDiscovery \/ ExtractLinks \/ Done

Spec == Init /\ [][Next]_vars

-----------------------------------------------------------------------------
(* Properties *)

\* However robots.txt and the indexes list sitemaps, themselves among them, and
\* whichever fail, a seed costs a bounded number of requests and of URLs.  Unless a
\* cap was met, discovery asks for exactly the sitemaps of the seed and those that
\* one of them lists, in spite of blanks and failures, and finds every URL of those
\* that answered.
SitemapsComplete ==
    /\ Len(asked) <= MaxSitemapsFetched /\ Len(urls) <= MaxSitemapURLs
    /\ stage \in {"sitemaps", "page"} /\ ~Capped =>
        /\ ToSet(asked) = listed
        /\ \A l \in had : ToSet(Documents[l].urls) \subseteq ToSet(urls)

\* What a reference refers to, by its components and those of the page's URL: section
\* 5.2.2 of RFC 3986, without the last step, 5.2.4, which takes the dot segments out.
\* Normalization does that, and OneOfEachResource of Frontier is about it.
Merged(path, base) == (IF base.path = <<>> THEN <<>> ELSE Front(base.path)) \o path
Target(href, base) ==
    LET url == href.url
        here == [url EXCEPT !.scheme = base.scheme, !.host = base.host, !.port = base.port,
                            !.upper = base.upper]
    IN  CASE href.scheme # "" -> url
          [] href.scheme = "" /\ "authority" \in href.has -> [url EXCEPT !.scheme = base.scheme]
          [] href.scheme = "" /\ href.has = {"query"} -> [here EXCEPT !.path = base.path]
          [] href.scheme = "" /\ href.has = {} -> [base EXCEPT !.fragment = url.fragment]
          [] OTHER -> IF href.rooted THEN here ELSE [here EXCEPT !.path = Merged(@, base)]

\* What names the page itself is not a link.
SameDocument(href) == href.scheme = "" /\ href.has = {}

\* What the code is known to resolve otherwise: a scheme that it takes for a path, and
\* what is relative, neither to the root nor to a scheme, and has a "://", has a path and
\* is on a page below the root, or has none and is on another page than the root.
Misread(href, base) ==
    /\ href.url # Malformed /\ ~Skipped(href)
    /\ \/ href.scheme # "" /\ "authority" \notin href.has /\ ~href.marked
       \/ /\ href.scheme = "" /\ "authority" \notin href.has /\ ~href.rooted
          /\ \/ href.marked
             \/ "path" \in href.has /\ Len(base.path) > 1
             \/ "path" \notin href.has /\ base.path # <<<<"">>>>

AtOrigin(url, base) ==
    /\ url.scheme = base.scheme /\ url.host = base.host
    /\ url.port = RemoveDefaultPort(base.port, base.scheme)

\* The links of a page reach the seen set as what they refer to, and nothing else does
\* that the seed or a sitemap does not name; but for the links that are misread, of
\* which nothing but URLs of the page's own origin may come.
LinksAreTheirTargets ==
    LET hrefs == ToSet(page.hrefs)
        read == {href \in hrefs : /\ href.url # Malformed
                                  /\ ~SameDocument(href) /\ ~Misread(href, page.base)}
        given == UNION {Entry(raw) : raw \in {Seed} \union ToSet(urls)}
        named == given \union (UNION {Entry(Target(href, page.base)) : href \in read})
    IN  Ended =>
          /\ named \subseteq seen
          /\ \A url \in seen \ named :
                AtOrigin(url, page.base) /\ \E href \in hrefs : Misread(href, page.base)
=============================================================================
