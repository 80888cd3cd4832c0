---------------------------- MODULE MCExtraction ----------------------------
(***************************************************************************)
(* A small instance of Extraction: lines of forty characters of five       *)
(* kinds, settings that differ from the defaults in one or two values,     *)
(* and pages of one or two pieces, one of them a likely text.              *)
(***************************************************************************)
EXTENDS Extraction

CONSTANTS prose, labels, chant, legal, source, hub, story, en, de

MCKind == {prose, labels, chant, legal, source}
Measured(bytes, words, stops, marks, pauses, phrases) ==
    [measure \in Measures |->
        CASE measure = "bytes" -> bytes [] measure = "words" -> words
          [] measure = "stops" -> stops [] measure = "marks" -> marks
          [] measure = "ends" -> marks [] measure = "pauses" -> pauses
          [] measure = "legal" -> phrases]
MCMeasure == [kind \in MCKind |->
    CASE kind = prose -> Measured(40, 8, 2, 1, 2, 0)
      [] kind = labels -> Measured(40, 6, 0, 0, 0, 0)
      [] kind = chant -> Measured(120, 9, 8, 1, 1, 0)
      [] kind = legal -> Measured(40, 6, 1, 2, 2, 1)
      [] kind = source -> Measured(40, 5, 1, 3, 4, 0)]

-----------------------------------------------------------------------------
(* Settings *)

Defaults == [maxPages |-> 10000, maxDepth |-> 5, workers |-> 10, requestTimeout |-> 30,
             globalRate |-> 5, globalBurst |-> 10, perHostRate |-> 3, perHostBurst |-> 5,
             minText |-> 100, maxText |-> 100000, threshold |-> Percent(70),
             removeBoilerplate |-> TRUE, extractMainContent |-> TRUE,
             normalizeWhitespace |-> TRUE, storage |-> "file", queueCapacity |-> 100000,
             cacheDuration |-> 86400, waitStrategy |-> "load", waitSelector |-> FALSE,
             renderTimeout |-> 15, maxSubresources |-> 50, rest |-> TRUE]

\* Values that other rules, defaults and clamps meet.
Changed(field, values) == {[Defaults EXCEPT ![field] = value] : value \in values}
CrawlSettings ==
    Changed("maxPages", {-1, 0, 1}) \union Changed("maxDepth", {-1, 0})
        \union Changed("workers", {-1, 0, 1, 200}) \union Changed("requestTimeout", {0})
        \union Changed("globalRate", {-1, 0}) \union Changed("globalBurst", {0})
        \union Changed("perHostRate", {0}) \union Changed("perHostBurst", {-1, 0})
        \union Changed("storage", {"redis", "s3"}) \union Changed("queueCapacity", {-1, 0, 9})
        \union Changed("cacheDuration", {0}) \union Changed("waitStrategy", {"selector", "idle"})
        \union Changed("renderTimeout", {0}) \union Changed("maxSubresources", {-1, 0})
        \union Changed("rest", {FALSE})
ContentSettings ==
    {[Defaults EXCEPT !.threshold = threshold, !.extractMainContent = main,
                      !.removeBoilerplate = removed] :
        threshold \in {Percent(10), Percent(30), Percent(70)},
        main \in BOOLEAN, removed \in BOOLEAN}
    \union {[Defaults EXCEPT !.minText = min, !.maxText = max] :
        min \in {-1, 0, 40, 100}, max \in {0, 80, 100000}}
    \union Changed("threshold", {-1, 0, Whole + 1})
    \union Changed("normalizeWhitespace", {FALSE})
MCSettings == CrawlSettings \union ContentSettings

MCFlags == {[workers |-> workers, maxPages |-> pages] : workers \in {0, 500}, pages \in {0, 2}}

-----------------------------------------------------------------------------
(* Pages *)

Whereto(target) == {[target |-> target, absolute |-> TRUE]}
Relative(target) == {[target |-> target, absolute |-> FALSE]}
PieceOf(kind, lines, areas, paragraph, link) ==
    [kind |-> kind, lines |-> lines, areas |-> areas, paragraph |-> paragraph, link |-> link]

Texty ==
    {PieceOf(prose, 10, areas, TRUE, {}) :
        areas \in {{}, {"main", "article"}, {"content", "roleMain"}, {"post"}, {"template"}}}
    \union {PieceOf(prose, 2, {"main"}, TRUE, Relative(story)),
            PieceOf(prose, 140, {"main"}, TRUE, {}),
            PieceOf(labels, 25, {}, TRUE, Whereto(hub))}
Others ==
    {PieceOf(prose, 10, {"article"}, TRUE, {}),
     PieceOf(labels, 25, {"boilerplate"}, FALSE, Whereto(hub)),
     PieceOf(labels, 25, {"content"}, FALSE, Relative(hub)),
     PieceOf(labels, 3, {"template"}, FALSE, Whereto(story)),
     PieceOf(chant, 5, {"text"}, TRUE, {}),
     PieceOf(legal, 4, {"content"}, TRUE, Whereto(story)),
     PieceOf(source, 30, {"script", "main"}, FALSE, {})}

Untitled == <<"missing", "missing">>
Titles == {<<"given", "missing">>, <<"blank", "given">>}
Documents == {<<piece>> : piece \in Texty \union Others}
                \union {<<first, second>> : first \in Texty, second \in Others}
                \union {<<first, second>> : first \in Others, second \in Texty}

PageOf(type, pieces, article, headings, lang) ==
    [type |-> type, empty |-> pieces = <<>>, pieces |-> pieces, article |-> article,
     articleTitle |-> Cardinality(article) > 1, title |-> headings, lang |-> lang]

\* Readability gives up, or renders pieces that are not code.
Articles(pieces) ==
    {{}, {i \in DOMAIN pieces : pieces[i].areas \intersect Code = {} /\ pieces[i].paragraph}}

HTMLPages ==
    UNION {{PageOf("html", pieces, article, headings, <<{}, {de}>>) :
                article \in Articles(pieces), headings \in Titles} : pieces \in Documents}
OtherPages ==
    {PageOf(type, pieces, {}, Untitled, <<{}, {}>>) :
        type \in {"plain", "xml"}, pieces \in Documents \union {<<>>}}
    \union {PageOf("html", <<>>, {}, Untitled, <<{}, {}>>)}

FewPages == {PageOf("html", <<PieceOf(prose, 10, {"main"}, TRUE, Whereto(hub))>>, {}, Untitled,
                    <<{}, {}>>)}

\* Only an engine of the defaults meets all the pages.
MCOffered(someEngine, someLimits) ==
    IF someEngine = EngineOf(Defaults) /\ someLimits = LimitsOf(Defaults)
    THEN HTMLPages \union OtherPages ELSE FewPages
=============================================================================
