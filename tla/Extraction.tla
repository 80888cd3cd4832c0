----------------------------- MODULE Extraction -----------------------------
(***************************************************************************)
(* From settings to records: the command or a caller of the package builds *)
(* a crawl, and pages go through ProcessJob (internal/crawler/worker.go),  *)
(* the extractors (internal/extractor) and ResultToRecord                  *)
(* (internal/crawler/sink.go).                                             *)
(*                                                                         *)
(* A document is the sequence of its pieces in order: each has a passage,  *)
(* perhaps a link, may be a paragraph, and lies in areas, which are what   *)
(* the selectors of the code find.  The HTML extractor reads a document    *)
(* and removes pieces from it in turn; what is left is the set of the      *)
(* places of the pieces not removed.                                       *)
(***************************************************************************)
EXTENDS Settings, FiniteSets

CONSTANTS
    Target,         \* what links lead to
    Language,       \* primary language tags
    English,        \* "en"
    InitialSettings,    \* what the file and the environment, or a caller, may say
    Flags,              \* what the command line may say
    Offered(_, _)       \* bound: the pages met by an engine under some limits

ASSUME SettingsAssumption == InitialSettings \subseteq Config /\ Flags \subseteq FlagValues

Code == {"script", "noscript"}      \* script and style; its text has no elements
Area == Code \union {"template", "boilerplate", "main", "article", "content", "roleMain",
                     "post", "text"}

\* A link is a set of at most one; "absolute" is all that XML links may be.
Link == [target: Target, absolute: BOOLEAN]
Piece == [kind: Kind, lines: Nat \ {0}, areas: SUBSET Area, paragraph: BOOLEAN, link: SUBSET Link]

\* A title may be missing, blank, or worth having.
Title == {"missing", "blank", "given"}

Fetched == [type: {"html", "plain", "xml"}, empty: BOOLEAN, pieces: Seq(Piece),
            article: SUBSET Nat,    \* external: the pieces that readability renders
            articleTitle: BOOLEAN,  \* external: whether it found a title
            title: Seq(Title),      \* of <title>, og:title, twitter:title, h1, meta title
            lang: Seq(SUBSET Language)]     \* of html, meta, og:locale; sets of at most one

\* What readability renders has no code.
Page == {p \in Fetched : \A i \in p.article : i \in DOMAIN p.pieces
                                            /\ p.pieces[i].areas \intersect Code = {}}

\* What a crawl may be built from.
Possible ==
    InitialSettings \union {Overridden(given, flags) : given \in InitialSettings, flags \in Flags}

ASSUME OfferedAssumption ==
    \A given \in Possible : Offered(EngineOf(given), LimitsOf(given)) \subseteq Page

VARIABLES
    phase,      \* where the call is
    origin,     \* "command", or "package" for a caller of NewCoordinator
    settings,
    engine, limits, extractor,      \* what NewCoordinator derived from them
    page,       \* the page under way
    doc,        \* what is left of it
    title, method, text, links, paragraphs, language, score,    \* ExtractedContent
    record      \* the record written for it, as a set

setupVars == <<origin, settings, engine, limits, extractor>>
contentVars == <<title, method, text, links, paragraphs, language, score>>
vars == <<phase, setupVars, page, doc, contentVars, record>>

Nothing == "nothing"

Init ==
    /\ origin \in {"command", "package"}
    /\ phase = IF origin = "command" THEN "load" ELSE "construct"
    /\ settings \in InitialSettings
    /\ engine = Nothing /\ limits = Nothing /\ extractor = Nothing
    /\ page = Nothing /\ doc = {}
    /\ title = "missing" /\ method = "none" /\ text = <<>> /\ links = {}
    /\ paragraphs = 0 /\ language = {} /\ score = 0
    /\ record = {}

-----------------------------------------------------------------------------
(* LoadConfig, main and NewCoordinator *)

\* ValidateConfig also creates directories, and may fail to.
LoadConfig ==
    /\ phase = "load"
    /\ phase' \in {"refused"} \union (IF Valid(settings) THEN {"flags"} ELSE {})
    /\ UNCHANGED <<setupVars, page, doc, contentVars, record>>

ApplyFlags ==
    /\ phase = "flags"
    /\ phase' = "construct"
    /\ \E flags \in Flags : settings' = Overridden(settings, flags)
    /\ UNCHANGED <<origin, engine, limits, extractor, page, doc, contentVars, record>>

NewCoordinator ==
    /\ phase = "construct"
    /\ phase' = "idle"
    /\ engine' = EngineOf(settings)
    /\ limits' = LimitsOf(settings)
    /\ extractor' = ExtractorOf(settings)
    /\ UNCHANGED <<origin, settings, page, doc, contentVars, record>>

-----------------------------------------------------------------------------
(* ProcessJob and the factory *)

\* CreateExtractor goes by the content type, and takes what it does not know for
\* HTML.  An empty body is an error of extraction.
Parsed(fetched) == DOMAIN fetched.pieces

CreateExtractor ==
    /\ phase = "idle"
    /\ \E fetched \in Offered(engine, limits) :
          /\ page' = fetched
          /\ doc' = Parsed(fetched)
          /\ phase' = IF fetched.empty THEN "failed" ELSE fetched.type
    /\ UNCHANGED <<setupVars, contentVars, record>>

\* In the order of the document.
Texts(left) ==
    LET order == Only([i \in DOMAIN page.pieces |-> i], left)
        passage(i) == [kind |-> page.pieces[i].kind, lines |-> page.pieces[i].lines]
    IN  [n \in DOMAIN order |-> passage(order[n])]
LinksIn(left) == UNION {page.pieces[i].link : i \in left}
Targets(found) == {link.target : link \in found}

Within(left, areas) == {i \in left : page.pieces[i].areas \intersect areas # {}}
Without(left, areas) == left \ Within(left, areas)

\* ExtractLinksFromDocument finds every <a href>, also in a template.
HTMLLinks(left) == Targets(LinksIn(Without(left, Code)))
\* ExtractLinksFromXML finds whole URLs in attributes.
XMLLinks(left) == Targets({link \in LinksIn(left) : link.absolute})

Clean(raw) == Truncate(raw, extractor.maxText)

-----------------------------------------------------------------------------
(* The HTML extractor *)

\* The first source that has a title counts, but a blank one is trimmed to none.
ExtractTitle(sources) ==
    LET present == {i \in DOMAIN sources : sources[i] # "missing"}
    IN  \E i \in present : sources[i] = "given" /\ \A j \in present : i <= j

ReadTitle ==
    /\ phase = "html"
    /\ phase' = "main"
    /\ title' = IF ExtractTitle(page.title) THEN "given" ELSE "missing"
    /\ UNCHANGED <<setupVars, page, doc, method, text, links, paragraphs, language, score,
                   record>>

\* What readability renders is a miss below 40 characters.
Article == Texts(page.article)
Usable(article) == LineRunes * Lines(article) >= 40

ExtractWithReadability ==
    /\ phase = "main"
    /\ extractor.extractMainContent /\ Usable(Article)
    /\ phase' = "links"
    /\ method' = "readability"
    /\ text' = Clean(Article)
    /\ title' = IF title = "missing" /\ page.articleTitle THEN "given" ELSE title
    /\ UNCHANGED <<setupVars, page, doc, links, paragraphs, language, score, record>>

ContentSelectors == <<<<"main">>, <<"article">>, <<"content">>>>
CommonSelectors ==
    <<<<"main">>, <<"article">>, <<"content", "roleMain">>, <<"post">>, <<"text">>>>
Selectors == ContentSelectors \o CommonSelectors

\* A selector's text has the texts of all elements that it finds, one after the
\* other, so what lies in two of them occurs twice.  Areas are different elements.
Selected(left, selector) ==
    Joined([n \in DOMAIN selector |-> Texts(Within(left, {selector[n]}))])

Stripped(left) ==
    Without(left, Code \union {"template"}
                      \union (IF extractor.removeBoilerplate THEN {"boilerplate"} ELSE {}))

\* The first selector whose text scores best, or 0 if none scores.
BestSelector(left) ==
    FirstBest([i \in DOMAIN Selectors |->
                  ScoreContentByLength(Selected(left, Selectors[i]), extractor.minText)])

ExtractMainContent ==
    /\ phase = "main"
    /\ extractor.extractMainContent /\ ~Usable(Article)
    /\ phase' = "links"
    /\ doc' = Stripped(doc)
    /\ LET best == BestSelector(doc')
       IN  /\ method' = IF best = 0 THEN "body" ELSE "selector"
           /\ text' = Clean(IF best = 0 THEN Texts(doc') ELSE Selected(doc', Selectors[best]))
    /\ UNCHANGED <<setupVars, page, title, links, paragraphs, language, score, record>>

ExtractAllText ==
    /\ phase = "main"
    /\ ~extractor.extractMainContent
    /\ phase' = "links"
    /\ doc' = Without(doc, Code \union (IF extractor.removeBoilerplate THEN {"boilerplate"}
                                        ELSE {}))
    /\ method' = "full"
    /\ text' = Clean(Texts(doc'))
    /\ UNCHANGED <<setupVars, page, title, links, paragraphs, language, score, record>>

\* Links, and images and the rest of the metadata, are read from what is left.
ReadLinks ==
    /\ phase = "links"
    /\ phase' = "metadata"
    /\ links' = HTMLLinks(doc)
    /\ UNCHANGED <<setupVars, page, doc, title, method, text, paragraphs, language, score,
                   record>>

ExtractLanguage(sources) ==
    LET present == {i \in DOMAIN sources : sources[i] # {}}
    IN  IF present = {} THEN {English}
        ELSE sources[CHOOSE i \in present : \A j \in present : i <= j]

ReadMetadata ==
    /\ phase = "metadata"
    /\ phase' = "score"
    /\ paragraphs' = Cardinality({i \in doc : page.pieces[i].paragraph})
    /\ language' = ExtractLanguage(page.lang)
    /\ UNCHANGED <<setupVars, page, doc, title, method, text, links, score, record>>

CalculateQualityScore ==
    /\ phase = "score"
    /\ phase' = "filter"
    /\ score' = ScoreContentQuality(text, method = "readability", paragraphs, title = "given")
    /\ UNCHANGED <<setupVars, page, doc, title, method, text, links, paragraphs, language,
                   record>>

-----------------------------------------------------------------------------
(* The other extractors *)

\* Paragraphs are told apart by newlines, which normalized whitespace has none of.
ParagraphsOf(content) == IF extractor.normalizeWhitespace THEN AtMost(1, Len(content))
                         ELSE Len(content)

ExtractPlainText ==
    /\ phase = "plain"
    /\ phase' = "filter"
    /\ method' = "plain"
    /\ text' = Clean(Texts(doc))
    /\ title' = IF text' = <<>> THEN "missing" ELSE "given"
    /\ links' = {}
    /\ paragraphs' = ParagraphsOf(text')
    /\ language' = {English}
    /\ score' = ScorePlainText(text', extractor.minText, paragraphs')
    /\ UNCHANGED <<setupVars, page, doc, record>>

ExtractXML ==
    /\ phase = "xml"
    /\ phase' = "filter"
    /\ method' = "xml"
    /\ text' = Clean(Texts(doc))
    /\ title' \in {"missing", "given"}
    /\ links' = XMLLinks(doc)
    /\ paragraphs' = ParagraphsOf(text')
    /\ language' = {English}
    /\ score' = ScoreXML(text', extractor.minText, paragraphs')
    /\ UNCHANGED <<setupVars, page, doc, record>>

-----------------------------------------------------------------------------
(* The end of ProcessJob, and the sink *)

\* The content is dropped, and the links are extracted from the body once more.
WhatIsLeft == doc
WholeBody == Parsed(page)
Harvested == CASE page.type = "html" -> HTMLLinks(WholeBody)
               [] page.type = "plain" -> {}
               [] page.type = "xml" -> XMLLinks(WholeBody)

BelowThreshold == score < extractor.threshold

RejectContent ==
    /\ phase = "filter" /\ BelowThreshold
    /\ phase' = "done"
    /\ links' = Harvested
    /\ UNCHANGED <<setupVars, page, doc, title, method, text, paragraphs, language, score,
                   record>>

AcceptContent ==
    /\ phase = "filter" /\ ~BelowThreshold
    /\ phase' = "done"
    /\ record' = {[title |-> title, text |-> text, language |-> language, score |-> score]}
    /\ UNCHANGED <<setupVars, page, doc, contentVars>>

FailExtraction ==
    /\ phase = "failed"
    /\ phase' = "done"
    /\ UNCHANGED <<setupVars, page, doc, contentVars, record>>

NextJob ==
    /\ phase = "done"
    /\ phase' = "idle"
    /\ page' = Nothing /\ doc' = {}
    /\ title' = "missing" /\ method' = "none" /\ text' = <<>> /\ links' = {}
    /\ paragraphs' = 0 /\ language' = {} /\ score' = 0
    /\ record' = {}
    /\ UNCHANGED setupVars

Refused == phase = "refused" /\ UNCHANGED vars

ProcessHTML ==
    \/ ReadTitle
    \/ ExtractWithReadability \/ ExtractMainContent \/ ExtractAllText
    \/ ReadLinks \/ ReadMetadata \/ CalculateQualityScore

Next ==
    \/ LoadConfig \/ ApplyFlags \/ NewCoordinator \/ Refused
    \/ CreateExtractor
    \/ ProcessHTML \/ ExtractPlainText \/ ExtractXML
    \/ RejectContent \/ AcceptContent \/ FailExtraction
    \/ NextJob

Spec == Init /\ [][Next]_vars

-----------------------------------------------------------------------------
(* Properties *)

Constructed == phase \notin {"load", "refused", "flags", "construct"}

\* Whoever builds a crawl, and whatever is missing from the settings, the engine
\* gets what Engine and HostLimiters assume: workers, room in its channels, rates,
\* bursts and times that are not zero.  A crawl of the command also has the limits
\* that Coordinator assumes, and text limits that a text can meet, if the minimum
\* was not left at zero.
SettingsAreSound ==
    Constructed =>
        /\ \A field \in {"workers", "jobs", "results", "requestTimeout", "globalRate",
                         "globalBurst", "perHostRate", "perHostBurst", "cacheTTL"} :
              engine[field] > 0
        /\ extractor.maxText > 0 /\ extractor.minText > 0 /\ extractor.threshold > 0
        /\ origin = "command" =>
              /\ limits.maxPages > 0 /\ limits.maxDepth >= 0 /\ limits.maxQueue > 0
              /\ extractor.threshold <= Whole
              /\ settings.minText > 0 => extractor.minText < extractor.maxText

Everything == DOMAIN page.pieces

\* Whatever an extractor removed from the page, and however its text was judged,
\* discovery gets every link that lies outside templates and boilerplate, and
\* every link of a page that has no record or whose text readability found.
LinksKept ==
    phase = "done" /\ page.type = "html" /\ ~page.empty =>
        /\ links \subseteq HTMLLinks(Everything)
        /\ HTMLLinks(Without(Everything, {"template", "boilerplate"})) \subseteq links
        /\ record = {} \/ method = "readability" => links = HTMLLinks(Everything)

PassagesOf(content) == {passage.kind : passage \in ToSet(content)}

BestChosen(content) ==
    LET scoreOf(i) == ScoreContentByLength(Selected(doc, Selectors[i]), extractor.minText)
        best == {i \in DOMAIN Selectors : \A j \in DOMAIN Selectors :
                    scoreOf(i) > scoreOf(j) \/ (scoreOf(i) = scoreOf(j) /\ i <= j)}
        i == CHOOSE k \in best : TRUE
    IN  content = Clean(IF scoreOf(i) > 0 THEN Selected(doc, Selectors[i]) ELSE Texts(doc))

\* A record has a text, within the limit, that reaches the threshold.  A record of
\* an HTML page has nothing of its scripts, styles and, unless readability chose
\* the text, boilerplate; it is not made of labels, unless the threshold is so low
\* that the cap on labels does not keep them out; and if selectors chose it, it
\* comes from the area that scores best.
RecordsAreContent ==
    \A written \in record :
        /\ Lines(written.text) > 0 /\ LineRunes * Lines(written.text) <= extractor.maxText
        /\ written.score >= extractor.threshold
        /\ page.type = "html" =>
              /\ PassagesOf(written.text) \subseteq PassagesOf(Texts(Without(Everything, Code)))
              /\ extractor.removeBoilerplate /\ method # "readability" =>
                    PassagesOf(written.text)
                        \subseteq PassagesOf(Texts(Without(Everything, {"boilerplate"})))
              /\ extractor.threshold > Percent(20) =>
                    ~NoProse(Total("words", written.text), Total("stops", written.text))
              /\ method \in {"selector", "body"} => BestChosen(written.text)
=============================================================================
