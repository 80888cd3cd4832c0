--------------------------- MODULE DiscoveryProofs ---------------------------
(***************************************************************************)
(* Proofs that the discovery of sitemaps is bounded and complete, for      *)
(* every graph of sitemaps and every cap, and that the links of every page *)
(* become what they refer to, but for those that are misread.              *)
(***************************************************************************)
EXTENDS Discovery, SequenceFacts

-----------------------------------------------------------------------------
(* What a document adds *)

PageURL == UNION {ToSet(Documents[l].urls) : l \in Location}

\* The URLs of a document are cut off where the cap is met; below the cap, all of
\* them are added.
LEMMA AddedFits ==
    ASSUME urls \in Seq(PageURL), Len(urls) < MaxSitemapURLs,
           NEW more \in Seq(PageURL)
    PROVE  /\ Added(more) \in Seq(PageURL)
           /\ Len(Added(more)) <= MaxSitemapURLs
           /\ Len(Added(more)) < MaxSitemapURLs =>
                ToSet(Added(more)) = ToSet(urls) \union ToSet(more)
PROOF
<1> DEFINE cut == IF Len(more) < Room THEN Len(more) ELSE Room
           part == SubSeq(more, 1, cut)
<1>1. /\ Len(urls) \in Nat /\ Len(more) \in Nat
      /\ MaxSitemapURLs \in Nat
    BY DiscoveryAssumption
<1>2. /\ Room \in Nat /\ cut \in 0..Len(more) /\ cut <= Room
      /\ Len(urls) + Room = MaxSitemapURLs
    BY <1>1 DEF Room
<1> HIDE DEF cut
<1>3. part \in Seq(PageURL) /\ Len(part) = cut
    BY <1>2, <1>1, SubSeqProperties
<1>4. cut = Len(more) => part = more
    BY <1>1, <1>2, SubSeqProperties
<1>5. Added(more) = urls \o part
    BY DEF Added, cut
<1> HIDE DEF part
<1>6. Added(more) \in Seq(PageURL) /\ Len(Added(more)) = Len(urls) + cut
    BY <1>3, <1>5, ConcatProperties
<1>7. Len(Added(more)) <= MaxSitemapURLs
    BY <1>6, <1>2, <1>1
<1>8. Len(Added(more)) < MaxSitemapURLs => cut = Len(more)
    BY <1>6, <1>2, <1>1 DEF cut
<1>9. ToSet(urls \o part) = ToSet(urls) \union ToSet(part)
    BY <1>3, ToSetConcat
<1> QED
    BY <1>4, <1>5, <1>6, <1>7, <1>8, <1>9

\* A document that is had, or nothing, is made of sequences.
LEMMA DocumentTypes ==
    ASSUME NEW l \in Location, NEW doc \in {Documents[l], Nothing}
    PROVE  doc.urls \in Seq(PageURL) /\ doc.sitemaps \in Seq(Location \union {Blank})
PROOF
<1>1. CASE doc = Nothing
  <2>1. doc.urls = <<>> /\ doc.sitemaps = <<>>
      BY <1>1 DEF Nothing
  <2> QED
      BY <2>1
<1>2. CASE doc = Documents[l]
  <2>1. /\ doc.sitemaps \in Seq(Location \union {Blank})
        /\ doc.urls \in Seq(ToSet(doc.urls))
      BY <1>2, DiscoveryAssumption
  <2>2. \A x \in ToSet(doc.urls) : x \in PageURL
      BY <1>2 DEF PageURL
  <2>3. doc.urls \in Seq(PageURL)
    <3>1. /\ Len(doc.urls) \in Nat /\ DOMAIN doc.urls = 1..Len(doc.urls)
          /\ doc.urls = [i \in 1..Len(doc.urls) |-> doc.urls[i]]
        BY <2>1
    <3>2. \A i \in 1..Len(doc.urls) : doc.urls[i] \in PageURL
        BY <2>2, <3>1 DEF ToSet
    <3> QED
        BY <3>1, <3>2, SeqDef
  <2> QED
      BY <2>1, <2>3
<1> QED
    BY <1>1, <1>2

-----------------------------------------------------------------------------
(* The invariant *)

Lists ==
    /\ sitemaps \in Seq(Location) /\ children \in Seq(Location \union {Blank})
    /\ asked \in Seq(Location) /\ urls \in Seq(PageURL)

Counted ==
    /\ fetched = Len(asked) /\ fetched <= MaxSitemapsFetched
    /\ Len(urls) <= MaxSitemapURLs

Accounted ==
    /\ listed = ToSet(asked) \union ToSet(sitemaps) \union (ToSet(children) \ {Blank})
    /\ stage = "seed" => asked = <<>> /\ sitemaps = <<>> /\ children = <<>>

Found ==
    Len(urls) < MaxSitemapURLs => \A l \in had : ToSet(Documents[l].urls) \subseteq ToSet(urls)

Exhausted ==
    stage \in {"sitemaps", "page"} /\ ~Capped => sitemaps = <<>> /\ children = <<>>

SitemapInv == Lists /\ Counted /\ Accounted /\ Found /\ Exhausted

\* Before discovery nothing is listed, asked for or found.
LEMMA SitemapInit == Init => SitemapInv
PROOF
<1> SUFFICES ASSUME Init PROVE SitemapInv
    OBVIOUS
<1>1. /\ sitemaps = <<>> /\ children = <<>> /\ asked = <<>> /\ urls = <<>> /\ fetched = 0
      /\ listed = {} /\ had = {} /\ stage = "seed"
    BY DEF Init
<1>2. Lists
    BY <1>1 DEF Lists
<1>3. Len(asked) = 0 /\ Len(urls) = 0
    BY <1>1
<1>4. Counted
    BY <1>1, <1>3, DiscoveryAssumption DEF Counted
<1>5. Accounted
    BY <1>1, ToSetEmpty DEF Accounted
<1>6. Found /\ Exhausted
    BY <1>1 DEF Found, Exhausted
<1> QED
    BY <1>2, <1>4, <1>5, <1>6 DEF SitemapInv

\* A fetch that the caps allow is one more request, and gets all of its document's
\* URLs unless it meets the cap on them.
LEMMA FetchCounts ==
    ASSUME Lists, Counted, Found, ~Capped,
           NEW l \in Location, NEW doc \in {Documents[l], Nothing}, Fetch(l, doc)
    PROVE  /\ asked' \in Seq(Location) /\ urls' \in Seq(PageURL)
           /\ ToSet(asked') = ToSet(asked) \union {l}
           /\ Counted' /\ Found' /\ stage' = stage
PROOF
<1>1. /\ asked \in Seq(Location) /\ urls \in Seq(PageURL)
      /\ fetched = Len(asked) /\ MaxSitemapsFetched \in Nat /\ MaxSitemapURLs \in Nat
    BY DiscoveryAssumption DEF Lists, Counted
<1>2. /\ fetched' = fetched + 1 /\ urls' = Added(doc.urls)
      /\ asked' = Append(asked, l) /\ stage' = stage
      /\ had' = IF doc = Nothing THEN had ELSE had \union {l}
    BY DEF Fetch
<1>3. Len(asked) \in Nat /\ Len(urls) \in Nat
    BY <1>1
<1>4. Len(asked) < MaxSitemapsFetched /\ Len(urls) < MaxSitemapURLs
    BY <1>1, <1>3 DEF Capped
<1>5. asked' \in Seq(Location) /\ Len(asked') = Len(asked) + 1
    BY <1>1, <1>2
<1>6. ToSet(asked') = ToSet(asked) \union {l}
    BY <1>1, <1>2, ToSetAppend
<1>7. doc.urls \in Seq(PageURL)
    BY DocumentTypes
<1>8. /\ urls' \in Seq(PageURL) /\ Len(urls') <= MaxSitemapURLs
      /\ Len(urls') < MaxSitemapURLs => ToSet(urls') = ToSet(urls) \union ToSet(doc.urls)
    BY <1>1, <1>2, <1>4, <1>7, AddedFits
<1>9. Counted'
    BY <1>1, <1>2, <1>3, <1>4, <1>5, <1>8 DEF Counted
<1>10. Found'
  <2> SUFFICES ASSUME Len(urls') < MaxSitemapURLs, NEW m \in had'
               PROVE  ToSet(Documents[m].urls) \subseteq ToSet(urls')
      BY DEF Found
  <2>1. ToSet(urls') = ToSet(urls) \union ToSet(doc.urls)
      BY <1>8
  <2>2. CASE m \in had
      BY <2>1, <2>2, <1>4 DEF Found
  <2>3. CASE m \notin had
    <3>1. m = l /\ doc = Documents[l]
        BY <2>3, <1>2
    <3> QED
        BY <2>1, <3>1
  <2> QED
      BY <2>2, <2>3
<1> QED
    BY <1>2, <1>5, <1>6, <1>8, <1>9, <1>10

\* A sitemap of the seed is asked for, and what it lists is listed.
LEMMA FetchListedKeeps == SitemapInv /\ FetchListed => SitemapInv'
PROOF
<1> SUFFICES ASSUME SitemapInv, FetchListed PROVE SitemapInv'
    OBVIOUS
<1>1. Lists /\ Counted /\ Accounted /\ Found
    BY DEF SitemapInv
<1>2. /\ stage = "fetch" /\ children = <<>> /\ sitemaps # <<>> /\ ~Capped
      /\ sitemaps' = Tail(sitemaps)
    BY DEF FetchListed
<1>3. PICK doc \in {Documents[Head(sitemaps)], Nothing} :
        /\ Fetch(Head(sitemaps), doc)
        /\ children' = doc.sitemaps
        /\ listed' = listed \union (ToSet(doc.sitemaps) \ {Blank})
    BY DEF FetchListed
<1>4. /\ Head(sitemaps) \in Location /\ Tail(sitemaps) \in Seq(Location)
      /\ ToSet(sitemaps) = {Head(sitemaps)} \union ToSet(Tail(sitemaps))
    BY <1>1, <1>2, ToSetTail DEF Lists
<1>5. doc.sitemaps \in Seq(Location \union {Blank})
    BY <1>3, <1>4, DocumentTypes
<1>6. /\ asked' \in Seq(Location) /\ urls' \in Seq(PageURL)
      /\ ToSet(asked') = ToSet(asked) \union {Head(sitemaps)}
      /\ Counted' /\ Found' /\ stage' = stage
    BY <1>1, <1>2, <1>3, <1>4, FetchCounts
<1>7. Lists'
    BY <1>2, <1>3, <1>4, <1>5, <1>6 DEF Lists
<1>8. listed = ToSet(asked) \union ToSet(sitemaps)
    BY <1>1, <1>2, ToSetEmpty DEF Accounted
<1>9. Accounted'
    BY <1>2, <1>3, <1>4, <1>6, <1>8 DEF Accounted
<1>10. Exhausted'
    BY <1>2, <1>6 DEF Exhausted
<1> QED
    BY <1>6, <1>7, <1>9, <1>10 DEF SitemapInv

\* A child of an index is asked for, and what it lists is not.
LEMMA FetchChildKeeps == SitemapInv /\ FetchChild => SitemapInv'
PROOF
<1> SUFFICES ASSUME SitemapInv, FetchChild PROVE SitemapInv'
    OBVIOUS
<1>1. Lists /\ Counted /\ Accounted /\ Found
    BY DEF SitemapInv
<1>2. /\ stage = "fetch" /\ children # <<>> /\ ~Capped /\ Head(children) # Blank
      /\ children' = Tail(children) /\ sitemaps' = sitemaps /\ listed' = listed
    BY DEF FetchChild
<1>3. PICK doc \in {Documents[Head(children)], Nothing} : Fetch(Head(children), doc)
    BY DEF FetchChild
<1>4. /\ Head(children) \in Location \union {Blank}
      /\ Tail(children) \in Seq(Location \union {Blank})
      /\ ToSet(children) = {Head(children)} \union ToSet(Tail(children))
    BY <1>1, <1>2, ToSetTail DEF Lists
<1>5. Head(children) \in Location
    BY <1>2, <1>4
<1>6. /\ asked' \in Seq(Location) /\ urls' \in Seq(PageURL)
      /\ ToSet(asked') = ToSet(asked) \union {Head(children)}
      /\ Counted' /\ Found' /\ stage' = stage
    BY <1>1, <1>2, <1>3, <1>5, FetchCounts
<1>7. Lists'
    BY <1>1, <1>2, <1>4, <1>6 DEF Lists
<1>8. Accounted'
    BY <1>1, <1>2, <1>4, <1>6 DEF Accounted
<1>9. Exhausted'
    BY <1>2, <1>6 DEF Exhausted
<1> QED
    BY <1>6, <1>7, <1>8, <1>9 DEF SitemapInv

\* A blank entry is passed over, and the rest of its index is kept.
LEMMA SkipBlankKeeps == SitemapInv /\ SkipBlank => SitemapInv'
PROOF
<1> SUFFICES ASSUME SitemapInv, SkipBlank PROVE SitemapInv'
    OBVIOUS
<1>1. Lists /\ Counted /\ Accounted /\ Found
    BY DEF SitemapInv
<1>2. /\ stage = "fetch" /\ children # <<>> /\ Head(children) = Blank
      /\ children' = Tail(children)
      /\ stage' = stage /\ sitemaps' = sitemaps /\ fetched' = fetched /\ urls' = urls
      /\ listed' = listed /\ asked' = asked /\ had' = had
    BY DEF SkipBlank, AfterBlank
<1>3. /\ Tail(children) \in Seq(Location \union {Blank})
      /\ ToSet(children) = {Blank} \union ToSet(Tail(children))
    BY <1>1, <1>2, ToSetTail DEF Lists
<1>4. Lists'
    BY <1>1, <1>2, <1>3 DEF Lists
<1>5. Counted' /\ Found' /\ Exhausted'
    BY <1>1, <1>2 DEF Counted, Found, Exhausted
<1>6. Accounted'
    BY <1>1, <1>2, <1>3 DEF Accounted
<1> QED
    BY <1>4, <1>5, <1>6 DEF SitemapInv

\* The sitemaps of the seed are the first that are listed.
LEMMA SitemapsForSeedKeeps == SitemapInv /\ SitemapsForSeed => SitemapInv'
PROOF
<1> SUFFICES ASSUME SitemapInv, SitemapsForSeed PROVE SitemapInv'
    OBVIOUS
<1>1. Lists /\ Counted /\ Accounted /\ Found
    BY DEF SitemapInv
<1>2. /\ stage = "seed" /\ stage' = "fetch" /\ listed' = ToSet(sitemaps')
      /\ children' = children /\ fetched' = fetched /\ urls' = urls
      /\ asked' = asked /\ had' = had
    BY DEF SitemapsForSeed
<1>3. PICK listing \in Listings :
        sitemaps' = IF listing = <<>> THEN <<Conventional>> ELSE listing
    BY DEF SitemapsForSeed
<1>4. sitemaps' \in Seq(Location)
    BY <1>3, DiscoveryAssumption
<1>5. asked = <<>> /\ children = <<>>
    BY <1>1, <1>2 DEF Accounted
<1>6. Lists'
    BY <1>1, <1>2, <1>4 DEF Lists
<1>7. Counted' /\ Found' /\ Exhausted'
    BY <1>1, <1>2 DEF Counted, Found, Exhausted
<1>8. ToSet(asked') = {} /\ ToSet(children') = {}
    BY <1>2, <1>5, ToSetEmpty
<1>9. Accounted'
    BY <1>2, <1>8 DEF Accounted
<1> QED
    BY <1>6, <1>7, <1>9 DEF SitemapInv

\* Discovery ends at a cap, or when nothing is left to fetch.
LEMMA SitemapInvariance == SitemapInv /\ [Next]_vars => SitemapInv'
PROOF
<1> SUFFICES ASSUME SitemapInv, [Next]_vars PROVE SitemapInv'
    OBVIOUS
<1>1. Lists /\ Counted /\ Accounted /\ Found /\ Exhausted
    BY DEF SitemapInv
<1>2. ASSUME stage' = stage, UNCHANGED sitemapVars PROVE SitemapInv'
    BY <1>1, <1>2 DEF SitemapInv, Lists, Counted, Accounted, Found, Exhausted, Capped,
                      sitemapVars
<1>3. CASE Enqueue
    BY <1>3, <1>2 DEF Enqueue
<1>4. CASE Done \/ UNCHANGED vars
    BY <1>4, <1>2 DEF Done, vars
<1>5. CASE EndDiscovery
  <2>1. /\ UNCHANGED sitemapVars /\ stage = "fetch" /\ stage' = "sitemaps"
        /\ Capped \/ (sitemaps = <<>> /\ children = <<>>)
      BY <1>5 DEF EndDiscovery
  <2>2. Lists' /\ Counted' /\ Accounted' /\ Found'
      BY <1>1, <2>1 DEF Lists, Counted, Accounted, Found, sitemapVars
  <2>3. Exhausted'
      BY <2>1 DEF Exhausted, Capped, sitemapVars
  <2> QED
      BY <2>2, <2>3 DEF SitemapInv
<1>6. CASE ExtractLinks
  <2>1. UNCHANGED sitemapVars /\ stage = "sitemaps" /\ stage' = "page"
      BY <1>6 DEF ExtractLinks
  <2>2. Lists' /\ Counted' /\ Accounted' /\ Found'
      BY <1>1, <2>1 DEF Lists, Counted, Accounted, Found, sitemapVars
  <2>3. Exhausted'
      BY <1>1, <2>1 DEF Exhausted, Capped, sitemapVars
  <2> QED
      BY <2>2, <2>3 DEF SitemapInv
<1> QED
    BY <1>3, <1>4, <1>5, <1>6, SitemapsForSeedKeeps, FetchListedKeeps, FetchChildKeeps,
       SkipBlankKeeps DEF Next

\* A seed costs a bounded number of sitemap requests and URLs, and unless a cap was
\* met discovery asked for every sitemap listed, and found every URL of those had
\* (discoverSitemapURLs).
THEOREM SitemapsCompleteHolds == Spec => []SitemapsComplete
PROOF
<1>1. SitemapInv => SitemapsComplete
  <2> SUFFICES ASSUME SitemapInv PROVE SitemapsComplete
      OBVIOUS
  <2>1. Lists /\ Counted /\ Accounted /\ Found /\ Exhausted
      BY DEF SitemapInv
  <2>2. Len(asked) <= MaxSitemapsFetched /\ Len(urls) <= MaxSitemapURLs
      BY <2>1 DEF Counted
  <2>3. ASSUME stage \in {"sitemaps", "page"}, ~Capped
        PROVE  /\ ToSet(asked) = listed
               /\ \A l \in had : ToSet(Documents[l].urls) \subseteq ToSet(urls)
    <3>1. sitemaps = <<>> /\ children = <<>>
        BY <2>1, <2>3 DEF Exhausted
    <3>2. ToSet(asked) = listed
        BY <2>1, <3>1, ToSetEmpty DEF Accounted
    <3>3. Len(urls) \in Nat /\ MaxSitemapURLs \in Nat
        BY <2>1, DiscoveryAssumption DEF Lists
    <3>4. Len(urls) < MaxSitemapURLs
        BY <2>3, <3>3 DEF Capped
    <3> QED
        BY <2>1, <3>2, <3>4 DEF Found
  <2> QED
      BY <2>2, <2>3 DEF SitemapsComplete
<1> QED
    BY <1>1, SitemapInit, SitemapInvariance, PTL DEF Spec

-----------------------------------------------------------------------------
(* Links *)

Entries(raws) == UNION {Entry(raw) : raw \in raws}

\* What is entered for one URL after the other.
LEMMA EntriesOfUnion ==
    ASSUME NEW S, NEW T
    PROVE  Entries(S \union T) = Entries(S) \union Entries(T)
PROOF
    BY DEF Entries

\* A path relative to a page at the root is one of the root.
LEMMA MergedAtRoot ==
    ASSUME NEW S, NEW path \in Seq(S), NEW here \in Seq(S), ~(Len(here) > 1),
           NEW base, base.path = here
    PROVE  Merged(path, base) = path
PROOF
<1>1. <<>> \o path = path
    BY ConcatEmptySeq
<1>2. here = <<>> \/ Front(here) = <<>>
  <2>1. Len(here) \in Nat /\ (here # <<>> => Len(here) # 0)
      BY EmptySeq
  <2>2. PICK n : n = Len(here)
      OBVIOUS
  <2>3. n \in Nat /\ n <= 1 /\ (here # <<>> => n # 0)
      BY <2>1, <2>2
  <2>4. n = 0 \/ n = 1
      BY <2>3
  <2>5. n = 1 => Front(here) = <<>>
      BY <2>2 DEF Front
  <2> QED
      BY <2>3, <2>4, <2>5
<1> QED
    BY <1>1, <1>2 DEF Merged

\* A URL that is not of the web is not entered.
LEMMA OnlyWebEnters ==
    ASSUME NEW url \in Url,
           url.scheme \notin Web \/ (url.host = <<>> /\ url.port = "none")
    PROVE  Entry(url) = {}
PROOF
<1>1. PICK normal : normal = Normalize(url)
    OBVIOUS
<1>2. /\ normal.scheme = url.scheme /\ normal.host = url.host
      /\ normal.port = RemoveDefaultPort(url.port, url.scheme)
    BY <1>1 DEF Normalize, Url
<1>3. ~IsValid(normal)
  <2>1. CASE url.scheme \notin Web
      BY <1>2, <2>1 DEF IsValid, ValidateScheme, Web
  <2>2. CASE url.host = <<>> /\ url.port = "none"
    <3>1. normal.port = "none"
        BY <1>2, <2>2 DEF RemoveDefaultPort
    <3> QED
        BY <1>2, <2>2, <3>1 DEF IsValid, ValidateDomain
  <2> QED
      BY <2>1, <2>2
<1>4. \A u \in {normal} : ~IsValid(u)
    BY <1>3
<1> QED
    BY <1>1, <1>4 DEF Entry

\* What is entered for a URL on the page's host is at the page's origin.
LEMMA EntersAtOrigin ==
    ASSUME NEW base \in Url, base.scheme \in Web, NEW url \in Url,
           NEW entered \in Entry(OnHostOf(url, base))
    PROVE  AtOrigin(entered, base)
PROOF
<1>1. PICK here : here = OnHostOf(url, base)
    OBVIOUS
<1>2. /\ here.scheme = base.scheme /\ here.host = base.host /\ here.port = base.port
      /\ DOMAIN here = DOMAIN url
    BY <1>1 DEF OnHostOf, SchemeOf, PortOf, Url, Web
<1>3. entered = Normalize(here)
    BY <1>1 DEF Entry
<1>4. /\ entered.scheme = here.scheme /\ entered.host = here.host
      /\ entered.port = RemoveDefaultPort(here.port, here.scheme)
  <2>1. DOMAIN here = {"scheme", "host", "upper", "port", "path", "params", "badQuery",
                       "forceQuery", "fragment"}
      BY <1>2 DEF Url
  <2> QED
      BY <1>3, <2>1 DEF Normalize
<1> QED
    BY <1>2, <1>4 DEF AtOrigin

\* What parses, and is neither the page nor misread, is resolved to what it refers to, or
\* that is not entered anyway.
LEMMA ReadIsTarget ==
    ASSUME NEW doc \in Pages, NEW href \in ToSet(doc.hrefs),
           href.url # Malformed, ~SameDocument(href), ~Misread(href, doc.base)
    PROVE  Entries(Link(href, doc.base)) = Entry(Target(href, doc.base))
PROOF
<1> DEFINE base == doc.base
           url == href.url
<1>1. /\ base \in Url /\ base.scheme \in Web /\ href \in Href /\ Consistent(href)
      /\ url \in Url
    BY DiscoveryAssumption DEF Href
<1>2. /\ href.scheme \in STRING /\ href.has \subseteq {"authority", "path", "query"}
      /\ href.capitals \in BOOLEAN /\ href.rooted \in BOOLEAN /\ href.marked \in BOOLEAN
    BY <1>1 DEF Href
<1>3. /\ url.scheme = href.scheme
      /\ "authority" \notin href.has => url.host = <<>> /\ url.port = "none"
      /\ "path" \in href.has <=> url.path # <<>>
      /\ href.rooted => "path" \in href.has
    BY <1>1 DEF Consistent
<1>4. \A u : Entries({u}) = Entry(u)
    BY DEF Entries
<1>5. Entries({}) = {}
    BY DEF Entries
<1>6. SchemeOf(base) = base.scheme
    BY <1>1 DEF SchemeOf, Web
<1>7. PICK here : here = OnHostOf(url, base)
    OBVIOUS
<1>8. here = [url EXCEPT !.scheme = base.scheme, !.host = base.host, !.port = base.port,
                         !.upper = base.upper]
    BY <1>1, <1>6, <1>7 DEF OnHostOf, PortOf, Url
<1> HIDE DEF url, base
<1>9. CASE href.scheme # ""
  <2>1. Target(href, base) = url
      BY <1>9 DEF Target, url
  <2>2. CASE Skipped(href)
    <3>1. url.scheme \notin Web
        BY <1>3, <1>9, <2>2 DEF Skipped, Web
    <3> QED
        BY <1>1, <1>5, <2>1, <2>2, <3>1, OnlyWebEnters DEF Link, base
  <2>3. CASE ~Skipped(href)
    <3>1. Absolute(href) \/ WithMark(href)
        BY <1>2, <1>9, <2>3 DEF Misread, WithMark
    <3>2. Link(href, base) = {url}
      <4>1. ~ProtocolRelative(href) /\ ~RootRelative(href)
          BY <1>9 DEF ProtocolRelative, RootRelative
      <4> QED
          BY <2>3, <3>1, <4>1 DEF Link, ResolveURLUsingFrontier, ByPrefix, url
    <3> QED
        BY <1>4, <2>1, <3>2 DEF base
  <2> QED
      BY <2>2, <2>3
<1>10. CASE href.scheme = "" /\ "authority" \in href.has
  <2>1. ~Skipped(href) /\ ~Absolute(href) /\ ProtocolRelative(href) /\ ~RootRelative(href)
      BY <1>10 DEF Skipped, Absolute, ProtocolRelative, RootRelative, Web
  <2>2. Link(href, base) = {[url EXCEPT !.scheme = base.scheme]}
      BY <1>6, <2>1 DEF Link, ResolveURLUsingFrontier, ByPrefix, url
  <2>3. Target(href, base) = [url EXCEPT !.scheme = base.scheme]
    <3>1. href.has # {"query"} /\ href.has # {}
        BY <1>10
    <3> QED
        BY <1>10, <3>1 DEF Target, url
  <2> QED
      BY <1>4, <2>2, <2>3 DEF base
<1>11. CASE href.scheme = "" /\ "authority" \notin href.has
  <2>1. /\ ~Absolute(href) /\ ~ProtocolRelative(href)
        /\ ~Skipped(href)
      BY <1>11 DEF Skipped, Absolute, ProtocolRelative, SameDocument, Web
  <2>2. CASE href.rooted
    <3>1. RootRelative(href)
        BY <1>11, <2>2 DEF RootRelative
    <3>2. Link(href, base) = {here}
        BY <1>7, <2>1, <3>1 DEF Link, ResolveURLUsingFrontier, ByPrefix, url
    <3>3. "path" \in href.has
        BY <1>3, <2>2
    <3>4. Target(href, base) = here
      <4>1. href.has # {"query"} /\ href.has # {}
          BY <3>3
      <4> QED
          BY <1>8, <1>11, <2>2, <4>1 DEF Target, url
    <3> QED
        BY <1>4, <3>2, <3>4 DEF base
  <2>3. CASE ~href.rooted
    <3>1. /\ ~href.marked
          /\ ~("path" \in href.has /\ Len(base.path) > 1)
          /\ ~("path" \notin href.has /\ base.path # <<<<"">>>>)
        BY <1>11, <2>1, <2>3 DEF Misread, base
    <3>2. ~RootRelative(href) /\ ~WithMark(href)
        BY <1>11, <2>3, <3>1 DEF RootRelative, WithMark
    <3>3. Link(href, base) = {OnHostOf(AfterSlash(url), base)}
        BY <2>1, <3>2 DEF Link, ResolveURLUsingFrontier, ByPrefix, url
    <3>4. CASE "path" \in href.has
      <4>1. AfterSlash(url) = url
        <5>1. url.path # <<>>
            BY <1>3, <3>4
        <5> QED
            BY <1>1, <5>1 DEF AfterSlash, Url
      <4>2. Merged(url.path, base) = url.path
        <5>1. PICK own \in Seq(Seq(DOMAIN Decode)) : own = base.path
            BY <1>1 DEF Url
        <5>2. ~(Len(own) > 1)
            BY <3>1, <3>4, <5>1
        <5>3. url.path \in Seq(Seq(DOMAIN Decode))
            BY <1>1 DEF Url
        <5> QED
            BY <5>1, <5>2, <5>3, MergedAtRoot DEF base
      <4>3. here.path = url.path /\ here = [here EXCEPT !.path = url.path]
          BY <1>1, <1>8 DEF Url
      <4>4. Target(href, base) = here
        <5>1. href.has # {"query"} /\ href.has # {}
            BY <3>4
        <5> QED
            BY <1>8, <1>11, <2>3, <4>2, <4>3, <5>1 DEF Target, url
      <4> QED
          BY <1>4, <1>7, <3>3, <4>1, <4>4 DEF base
    <3>5. CASE "path" \notin href.has
      <4>1. href.has = {"query"} /\ base.path = <<<<"">>>>
          BY <1>2, <1>11, <3>1, <3>5 DEF SameDocument
      <4>2. url.path = <<>>
          BY <1>3, <3>5
      <4>3. AfterSlash(url) = [url EXCEPT !.path = base.path]
          BY <4>1, <4>2 DEF AfterSlash
      <4>4. OnHostOf(AfterSlash(url), base) = [here EXCEPT !.path = base.path]
          BY <1>1, <1>6, <1>8, <4>3 DEF OnHostOf, PortOf, Url
      <4>5. Target(href, base) = [here EXCEPT !.path = base.path]
          BY <1>8, <1>11, <4>1 DEF Target, url
      <4> QED
          BY <1>4, <3>3, <4>4, <4>5 DEF base
    <3> QED
        BY <3>4, <3>5
  <2> QED
      BY <1>2, <2>2, <2>3
<1> QED
    BY <1>9, <1>10, <1>11

\* One element, as a path of one segment.
LEMMA OneInOne == ASSUME NEW S, NEW x \in S PROVE <<<<x>>>> \in Seq(Seq(S))
PROOF
    OBVIOUS

\* What is misread leads to the page's origin, if anywhere.
LEMMA MisreadStays ==
    ASSUME NEW doc \in Pages, NEW href \in ToSet(doc.hrefs), Misread(href, doc.base),
           NEW entered \in Entries(Link(href, doc.base))
    PROVE  AtOrigin(entered, doc.base)
PROOF
<1> DEFINE base == doc.base
           url == href.url
<1>1. /\ base \in Url /\ base.scheme \in Web /\ href \in Href /\ Consistent(href)
      /\ url \in Url /\ ~Skipped(href)
    BY DiscoveryAssumption DEF Href, Misread
<1>2. "authority" \notin href.has
    BY DEF Misread
<1>3. ~Absolute(href) /\ ~ProtocolRelative(href) /\ ~RootRelative(href)
    BY <1>2 DEF Absolute, ProtocolRelative, RootRelative, Misread
<1>4. CASE WithMark(href)
  <2>1. Link(href, base) = {url}
      BY <1>1, <1>3, <1>4 DEF Link, ResolveURLUsingFrontier
  <2>2. url.host = <<>> /\ url.port = "none"
      BY <1>1, <1>2 DEF Consistent
  <2>3. Entry(url) = {}
      BY <1>1, <2>2, OnlyWebEnters
  <2>4. Entries(Link(href, base)) = {}
      BY <2>1, <2>3 DEF Entries
  <2> QED
      BY <2>4
<1>5. CASE ~WithMark(href)
  <2>1. Link(href, base) = {OnHostOf(AfterSlash(url), base)}
      BY <1>1, <1>3, <1>5 DEF Link, ResolveURLUsingFrontier, ByPrefix, Misread
  <2>2. AfterSlash(url) \in Url
    <3>1. <<<<"">>>> \in Seq(Seq(DOMAIN Decode))
        BY DecodeAssumption, OneInOne, Zenon
    <3>2. PICK path \in Seq(Seq(DOMAIN Decode)) :
            AfterSlash(url) = [url EXCEPT !.path = path]
        BY <1>1, <3>1 DEF AfterSlash, Url
    <3> QED
        BY <1>1, <3>2 DEF Url
  <2>3. entered \in Entry(OnHostOf(AfterSlash(url), base))
      BY <2>1 DEF Entries
  <2> QED
      BY <1>1, <2>2, <2>3, EntersAtOrigin
<1> QED
    BY <1>4, <1>5

\* What does not parse is not entered, nor what names the page itself.
LEMMA OthersDoNotEnter ==
    ASSUME NEW doc \in Pages, NEW href \in ToSet(doc.hrefs),
           href.url = Malformed \/ SameDocument(href)
    PROVE  Entries(Link(href, doc.base)) = {}
PROOF
<1>1. Link(href, doc.base) \subseteq {Malformed}
  <2>1. CASE SameDocument(href)
      BY <2>1 DEF SameDocument, Link, Skipped
  <2>2. CASE href.url = Malformed
      BY <2>2 DEF Link, ResolveURLUsingFrontier
  <2> QED
      BY <2>1, <2>2
<1>2. Entry(Malformed) = {}
    BY DEF Entry
<1> QED
    BY <1>1, <1>2 DEF Entries

Sources ==
    {Seed} \union (IF stage \in {"sitemaps", "page"} THEN ToSet(urls) ELSE {})
           \union (IF stage = "page" THEN LinksOf(page) ELSE {})

LinkInv ==
    /\ page \in Pages
    /\ seen \union Entries(todo) = Entries(Sources)
    /\ stage = "fetch" => todo = {}

\* The seed is the first to be entered.
LEMMA LinkInit == Init => LinkInv
PROOF
    BY DEF Init, LinkInv, Sources

\* Each stage adds its URLs once those of the last are entered.
LEMMA LinkInvariance == LinkInv /\ [Next]_vars => LinkInv'
PROOF
<1> SUFFICES ASSUME LinkInv, [Next]_vars PROVE LinkInv'
    OBVIOUS
<1>1. /\ page \in Pages /\ page' = page
      /\ seen \union Entries(todo) = Entries(Sources)
      /\ stage = "fetch" => todo = {}
    BY DEF LinkInv, Next, vars, Enqueue, SitemapsForSeed, FetchListed, FetchChild, Fetch,
           SkipBlank, EndDiscovery, ExtractLinks, Done
<1>2. Entries({}) = {}
    BY DEF Entries
<1>3. ASSUME stage' = stage, urls' = urls PROVE Sources' = Sources
    BY <1>1, <1>3 DEF Sources
<1>4. CASE Enqueue
  <2>1. PICK raw \in todo : seen' = seen \union Entry(raw) /\ todo' = todo \ {raw}
      BY <1>4 DEF Enqueue
  <2>2. stage' = stage /\ urls' = urls
      BY <1>4 DEF Enqueue, sitemapVars
  <2>3. seen' \union Entries(todo') = seen \union Entries(todo)
      BY <2>1 DEF Entries
  <2>4. stage' = "fetch" => todo' = {}
      BY <1>1, <2>1, <2>2
  <2> QED
      BY <1>1, <1>3, <2>2, <2>3, <2>4 DEF LinkInv
<1>5. CASE SitemapsForSeed
  <2>1. /\ todo = {} /\ todo' = {} /\ seen' = seen /\ stage = "seed" /\ stage' = "fetch"
      BY <1>5 DEF SitemapsForSeed
  <2>2. Sources' = Sources
      BY <2>1 DEF Sources
  <2> QED
      BY <1>1, <2>1, <2>2 DEF LinkInv
<1>6. CASE FetchListed \/ FetchChild \/ SkipBlank
  <2>1. todo' = todo /\ seen' = seen /\ stage = "fetch" /\ stage' = "fetch"
      BY <1>6 DEF FetchListed, FetchChild, Fetch, SkipBlank
  <2>2. Sources' = Sources
      BY <2>1 DEF Sources
  <2> QED
      BY <1>1, <2>1, <2>2 DEF LinkInv
<1>7. CASE EndDiscovery
  <2>1. /\ todo' = ToSet(urls) /\ seen' = seen /\ urls' = urls
        /\ stage = "fetch" /\ stage' = "sitemaps"
      BY <1>7 DEF EndDiscovery, sitemapVars
  <2>2. Sources = {Seed} /\ Sources' = {Seed} \union ToSet(urls)
      BY <2>1 DEF Sources
  <2>3. seen = Entries({Seed})
      BY <1>1, <1>2, <2>1, <2>2
  <2>4. Entries(Sources') = Entries({Seed}) \union Entries(ToSet(urls))
      BY <2>2, EntriesOfUnion
  <2> QED
      BY <1>1, <2>1, <2>3, <2>4 DEF LinkInv
<1>8. CASE ExtractLinks
  <2>1. /\ todo = {} /\ todo' = LinksOf(page) /\ seen' = seen /\ urls' = urls
        /\ stage = "sitemaps" /\ stage' = "page"
      BY <1>8 DEF ExtractLinks, sitemapVars
  <2>2. Sources' = Sources \union LinksOf(page)
      BY <1>1, <2>1 DEF Sources
  <2>3. seen = Entries(Sources)
      BY <1>1, <1>2, <2>1
  <2>4. Entries(Sources') = Entries(Sources) \union Entries(LinksOf(page))
      BY <2>2, EntriesOfUnion
  <2> QED
      BY <1>1, <2>1, <2>3, <2>4 DEF LinkInv
<1>9. CASE Done \/ UNCHANGED vars
  <2>1. UNCHANGED vars
      BY <1>9 DEF Done
  <2> QED
      BY <1>1, <1>3, <2>1 DEF vars, sitemapVars, LinkInv
<1> QED
    BY <1>4, <1>5, <1>6, <1>7, <1>8, <1>9 DEF Next

\* What the seen set has at the end is what the seed, the sitemaps and the links of
\* the page refer to, by their components and RFC 3986, and of links that are misread
\* nothing but URLs of the page's origin (ExtractLinksFromDocument and
\* ResolveURLUsingFrontier).
THEOREM LinksAreTheirTargetsHolds == Spec => []LinksAreTheirTargets
PROOF
<1>1. LinkInv => LinksAreTheirTargets
  <2> DEFINE hrefs == ToSet(page.hrefs)
             read == {href \in hrefs : /\ href.url # Malformed
                                       /\ ~SameDocument(href) /\ ~Misread(href, page.base)}
             given == UNION {Entry(raw) : raw \in {Seed} \union ToSet(urls)}
             linked == UNION {Entry(Target(href, page.base)) : href \in read}
  <2> SUFFICES ASSUME LinkInv, Ended
               PROVE  /\ given \union linked \subseteq seen
                      /\ \A url \in seen \ (given \union linked) :
                            /\ AtOrigin(url, page.base)
                            /\ \E href \in hrefs : Misread(href, page.base)
      BY DEF LinksAreTheirTargets
  <2>1. stage = "page" /\ todo = {} /\ page \in Pages
      BY DEF Ended, LinkInv
  <2>2. Sources = ({Seed} \union ToSet(urls)) \union LinksOf(page)
      BY <2>1 DEF Sources
  <2>3. seen = Entries({Seed} \union ToSet(urls)) \union Entries(LinksOf(page))
    <3>1. Entries(todo) = {}
        BY <2>1 DEF Entries
    <3>2. seen = Entries(Sources)
        BY <3>1 DEF LinkInv
    <3> QED
        BY <2>2, <3>2, EntriesOfUnion
  <2>4. Entries({Seed} \union ToSet(urls)) = given
      BY DEF Entries
  <2>5. Entries(LinksOf(page)) = UNION {Entries(Link(href, page.base)) : href \in hrefs}
      BY DEF Entries, LinksOf
  <2>6. \A href \in read : Entries(Link(href, page.base)) = Entry(Target(href, page.base))
      BY <2>1, ReadIsTarget
  <2>7. linked \subseteq seen
    <3>1. \A href \in read : Entry(Target(href, page.base)) \subseteq Entries(LinksOf(page))
        BY <2>5, <2>6
    <3> QED
        BY <2>3, <3>1
  <2>8. ASSUME NEW url \in seen, url \notin given \union linked
        PROVE  AtOrigin(url, page.base) /\ \E href \in hrefs : Misread(href, page.base)
    <3>1. PICK href \in hrefs : url \in Entries(Link(href, page.base))
        BY <2>3, <2>4, <2>5, <2>8
    <3>2. href \notin read
        BY <2>6, <2>8, <3>1
    <3>3. Misread(href, page.base)
        BY <2>1, <3>1, <3>2, OthersDoNotEnter
    <3> QED
        BY <2>1, <3>1, <3>3, MisreadStays
  <2> QED
      BY <2>3, <2>4, <2>7, <2>8
<1> QED
    BY <1>1, LinkInit, LinkInvariance, PTL DEF Spec
=============================================================================
