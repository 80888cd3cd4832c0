--------------------------- MODULE ExtractionProofs ---------------------------
(***************************************************************************)
(* Proofs that the values a crawl is built with are sound, whoever gives   *)
(* its settings, that no link of a page is lost, whatever the extractor    *)
(* removes from it, and that a record holds what it should of its page.    *)
(***************************************************************************)
EXTENDS Extraction, SequenceFacts

-----------------------------------------------------------------------------
(* The constructors *)

\* A default takes the place of what is not positive.
LEMMA DefaultsArePositive ==
    ASSUME NEW value \in Int, NEW default \in Nat \ {0}
    PROVE  /\ OrDefault(value, default) \in Int /\ OrDefault(value, default) > 0
           /\ value > 0 => OrDefault(value, default) = value
PROOF
    BY DEF OrDefault, Positive

\* The engine has workers, room, rates and times, from any settings.
LEMMA EngineIsSound ==
    ASSUME NEW s \in Config
    PROVE  /\ EngineOf(s).workers > 0
           /\ EngineOf(s).jobs > 0 /\ EngineOf(s).results > 0
           /\ EngineOf(s).requestTimeout > 0
           /\ EngineOf(s).globalRate > 0 /\ EngineOf(s).globalBurst > 0
           /\ EngineOf(s).perHostRate > 0 /\ EngineOf(s).perHostBurst > 0
           /\ EngineOf(s).cacheTTL > 0
PROOF
<1>1. /\ s.workers \in Int /\ s.requestTimeout \in Int /\ s.globalRate \in Int
      /\ s.globalBurst \in Int /\ s.perHostRate \in Int /\ s.perHostBurst \in Int
      /\ s.cacheDuration \in Int
    BY DEF Config
<1>2. AtMost(50, 3 * Cores) \in Nat \ {0}
    BY CoresAssumption DEF AtMost
<1>3. PICK workers : workers = OrDefault(s.workers, AtMost(50, 3 * Cores))
    OBVIOUS
<1>4. workers \in Int /\ workers > 0
    BY <1>1, <1>2, <1>3, DefaultsArePositive
<1>5. Between(50, 10 * workers, 1000) > 0 /\ Between(25, 5 * workers, 500) > 0
    BY <1>4 DEF Between, AtMost
<1>6. /\ EngineOf(s).workers = workers
      /\ EngineOf(s).jobs = Between(50, 10 * workers, 1000)
      /\ EngineOf(s).results = Between(25, 5 * workers, 500)
      /\ EngineOf(s).requestTimeout = OrDefault(s.requestTimeout, 30)
      /\ EngineOf(s).globalRate = OrDefault(s.globalRate, 5)
      /\ EngineOf(s).globalBurst = OrDefault(s.globalBurst, 10)
      /\ EngineOf(s).perHostRate = OrDefault(s.perHostRate, 3)
      /\ EngineOf(s).perHostBurst = OrDefault(s.perHostBurst, 5)
      /\ EngineOf(s).cacheTTL = OrDefault(s.cacheDuration, 24 * 3600)
    BY <1>3 DEF EngineOf
<1>7. OrDefault(s.requestTimeout, 30) > 0
    BY <1>1, DefaultsArePositive
<1>8. OrDefault(s.globalRate, 5) > 0 /\ OrDefault(s.globalBurst, 10) > 0
    BY <1>1, DefaultsArePositive
<1>9. OrDefault(s.perHostRate, 3) > 0 /\ OrDefault(s.perHostBurst, 5) > 0
    BY <1>1, DefaultsArePositive
<1>10. OrDefault(s.cacheDuration, 24 * 3600) > 0
  <2>1. 24 * 3600 \in Nat \ {0}
      OBVIOUS
  <2> QED
      BY <1>1, <2>1, DefaultsArePositive
<1> QED
    BY <1>4, <1>5, <1>6, <1>7, <1>8, <1>9, <1>10

\* Half of the whole is positive, and not more than the whole.
LEMMA HalfIsPositive == Percent(50) \in Nat \ {0} /\ Percent(50) <= Whole
PROOF
    BY DEF Percent, Whole

\* The extractor has limits and a threshold, from any settings; and those that
\* validation agreed on, if the minimum was given.
LEMMA ExtractorIsSound ==
    ASSUME NEW s \in Config
    PROVE  /\ ExtractorOf(s).minText > 0 /\ ExtractorOf(s).maxText > 0
           /\ ExtractorOf(s).threshold > 0
           /\ Fraction(s.threshold) => ExtractorOf(s).threshold <= Whole
           /\ TextLimitsAgree(s) /\ s.minText > 0 =>
                ExtractorOf(s).minText < ExtractorOf(s).maxText
PROOF
<1>1. s.minText \in Int /\ s.maxText \in Int /\ s.threshold \in Int
    BY DEF Config
<1>2. /\ ExtractorOf(s).minText = OrDefault(s.minText, 100)
      /\ ExtractorOf(s).maxText = OrDefault(s.maxText, 100000)
      /\ ExtractorOf(s).threshold = OrDefault(s.threshold, Percent(50))
    BY DEF ExtractorOf
<1>3. /\ OrDefault(s.minText, 100) > 0
      /\ s.minText > 0 => OrDefault(s.minText, 100) = s.minText
    BY <1>1, DefaultsArePositive
<1>4. /\ OrDefault(s.maxText, 100000) > 0
      /\ s.maxText > 0 => OrDefault(s.maxText, 100000) = s.maxText
    BY <1>1, DefaultsArePositive
<1>5. OrDefault(s.threshold, Percent(50)) > 0
    BY <1>1, HalfIsPositive, DefaultsArePositive
<1>6. Fraction(s.threshold) => OrDefault(s.threshold, Percent(50)) <= Whole
  <2>1. Whole \in Nat
      BY DEF Whole
  <2>2. OrDefault(s.threshold, Percent(50)) \in {s.threshold, Percent(50)}
      BY DEF OrDefault
  <2> QED
      BY <1>1, <2>1, <2>2, HalfIsPositive DEF Fraction
<1>7. TextLimitsAgree(s) /\ s.minText > 0 => s.maxText > 0 /\ s.minText < s.maxText
    BY <1>1 DEF TextLimitsAgree
<1> QED
    BY <1>2, <1>3, <1>4, <1>5, <1>6, <1>7

-----------------------------------------------------------------------------
(* Settings on their way into a crawl *)

\* What validation promised, and the command's flags do not take back.
Agreed(s) ==
    /\ s.maxPages > 0 /\ s.maxDepth >= 0 /\ s.queueCapacity > 0
    /\ TextLimitsAgree(s) /\ Fraction(s.threshold)

\* Flags change the number of workers and of pages, to a positive one or not at all.
LEMMA OverridesAgree ==
    ASSUME NEW s \in Config, NEW flags \in FlagValues
    PROVE  /\ Overridden(s, flags) \in Config
           /\ Agreed(s) => Agreed(Overridden(s, flags))
PROOF
<1>1. flags.workers \in Int /\ flags.maxPages \in Int
    BY DEF FlagValues
<1>2. s.workers \in Int /\ s.maxPages \in Int
    BY DEF Config
<1>3. PICK workers \in Int : workers = IF Positive(flags.workers) THEN flags.workers ELSE s.workers
    BY <1>1, <1>2
<1>4. PICK pages \in Int : pages = IF Positive(flags.maxPages) THEN flags.maxPages ELSE s.maxPages
    BY <1>1, <1>2
<1>5. Overridden(s, flags) = [s EXCEPT !.workers = workers, !.maxPages = pages]
    BY <1>3, <1>4 DEF Overridden
<1>6. Overridden(s, flags) \in Config
    BY <1>5 DEF Config
<1>7. LET o == Overridden(s, flags)
      IN  /\ o.maxPages = pages /\ o.maxDepth = s.maxDepth
          /\ o.queueCapacity = s.queueCapacity /\ o.threshold = s.threshold
          /\ o.minText = s.minText /\ o.maxText = s.maxText
    BY <1>5 DEF Config
<1>8. s.maxPages > 0 => pages > 0
    BY <1>1, <1>4 DEF Positive
<1> QED
    BY <1>6, <1>7, <1>8 DEF Agreed, TextLimitsAgree

\* Everything a crawl may be built from is a configuration.
LEMMA PossibleIsConfig == Possible \subseteq Config
PROOF
    BY SettingsAssumption, OverridesAgree DEF Possible

SettingsInv ==
    /\ settings \in Possible
    /\ phase \in {"load", "flags"} => settings \in InitialSettings
    /\ origin = "command" /\ phase \notin {"load", "refused"} => Agreed(settings)
    /\ Constructed => /\ engine = EngineOf(settings)
                      /\ limits = LimitsOf(settings)
                      /\ extractor = ExtractorOf(settings)

\* A caller starts at the constructor, the command with what the file says.
LEMMA SettingsInit == Init => SettingsInv
PROOF
    BY DEF Init, SettingsInv, Possible, Constructed

\* Only the command's start changes the settings, and only the constructor derives
\* anything from them.
LEMMA SettingsInvariance == SettingsInv /\ [Next]_vars => SettingsInv'
PROOF
<1> SUFFICES ASSUME SettingsInv, [Next]_vars PROVE SettingsInv'
    OBVIOUS
<1>1. /\ settings \in Possible
      /\ phase \in {"load", "flags"} => settings \in InitialSettings
      /\ origin = "command" /\ phase \notin {"load", "refused"} => Agreed(settings)
      /\ Constructed => /\ engine = EngineOf(settings)
                        /\ limits = LimitsOf(settings)
                        /\ extractor = ExtractorOf(settings)
    BY DEF SettingsInv
<1>2. settings \in Config
    BY <1>1, PossibleIsConfig
<1>3. CASE LoadConfig
  <2>1. /\ UNCHANGED setupVars /\ phase = "load"
        /\ phase' = "refused" \/ (phase' = "flags" /\ Valid(settings))
      BY <1>3 DEF LoadConfig
  <2>2. Valid(settings) => Agreed(settings)
      BY <1>2 DEF Valid, Agreed, Positive, Config
  <2> QED
      BY <1>1, <2>1, <2>2 DEF SettingsInv, setupVars, Constructed
<1>4. CASE ApplyFlags
  <2>1. PICK flags \in Flags : settings' = Overridden(settings, flags)
      BY <1>4 DEF ApplyFlags
  <2>2. /\ phase = "flags" /\ phase' = "construct"
        /\ origin' = origin /\ engine' = engine /\ limits' = limits /\ extractor' = extractor
      BY <1>4 DEF ApplyFlags
  <2>3. settings \in InitialSettings
      BY <1>1, <2>2
  <2>4. settings' \in Possible
      BY <2>1, <2>3 DEF Possible
  <2>5. Agreed(settings) => Agreed(settings')
      BY <1>2, <2>1, SettingsAssumption, OverridesAgree
  <2> QED
      BY <1>1, <2>2, <2>4, <2>5 DEF SettingsInv, Constructed
<1>5. CASE NewCoordinator
    BY <1>1, <1>5 DEF NewCoordinator, SettingsInv, Constructed
<1>6. ASSUME UNCHANGED setupVars, Constructed, Constructed' PROVE SettingsInv'
    BY <1>1, <1>6 DEF SettingsInv, setupVars, Constructed
<1>7. CASE Refused \/ UNCHANGED vars
    BY <1>1, <1>7 DEF Refused, vars, setupVars, SettingsInv, Constructed
<1>8. CASE CreateExtractor
  <2>1. PICK fetched \in Offered(engine, limits) :
          phase' = IF fetched.empty THEN "failed" ELSE fetched.type
      BY <1>8 DEF CreateExtractor
  <2>2. phase = "idle" /\ UNCHANGED setupVars
      BY <1>8 DEF CreateExtractor
  <2>3. Constructed
      BY <2>2 DEF Constructed
  <2>4. fetched \in Page
      BY <1>1, <2>1, <2>3, OfferedAssumption
  <2>5. phase' \in {"failed", "html", "plain", "xml"}
      BY <2>1, <2>4 DEF Page, Fetched
  <2>6. Constructed'
      BY <2>5 DEF Constructed
  <2> QED
      BY <1>6, <2>2, <2>3, <2>6
<1>9. CASE ProcessHTML
  <2>1. /\ UNCHANGED setupVars
        /\ phase \in {"html", "main", "links", "metadata", "score"}
        /\ phase' \in {"main", "links", "metadata", "score", "filter"}
      BY <1>9 DEF ProcessHTML, ReadTitle, ExtractWithReadability, ExtractMainContent,
                  ExtractAllText, ReadLinks, ReadMetadata, CalculateQualityScore
  <2>2. Constructed /\ Constructed'
      BY <2>1 DEF Constructed
  <2> QED
      BY <1>6, <2>1, <2>2
<1>10. CASE ExtractPlainText \/ ExtractXML
  <2>1. UNCHANGED setupVars /\ phase \in {"plain", "xml"} /\ phase' = "filter"
      BY <1>10 DEF ExtractPlainText, ExtractXML
  <2>2. Constructed /\ Constructed'
      BY <2>1 DEF Constructed
  <2> QED
      BY <1>6, <2>1, <2>2
<1>11. CASE RejectContent \/ AcceptContent \/ FailExtraction \/ NextJob
  <2>1. UNCHANGED setupVars /\ phase \in {"filter", "failed", "done"} /\ phase' \in {"done", "idle"}
      BY <1>11 DEF RejectContent, AcceptContent, FailExtraction, NextJob
  <2>2. Constructed /\ Constructed'
      BY <2>1 DEF Constructed
  <2> QED
      BY <1>6, <2>1, <2>2
<1> QED
    BY <1>3, <1>4, <1>5, <1>7, <1>8, <1>9, <1>10, <1>11 DEF Next

\* An engine, limits and an extractor are sound, whoever builds the crawl and
\* whatever the settings leave out (ValidateConfig, main, NewCoordinator,
\* NewCrawlerEngine and ExtractorConfigFromContent together).
THEOREM SettingsAreSoundHolds == Spec => []SettingsAreSound
PROOF
<1>1. SettingsInv => SettingsAreSound
  <2> SUFFICES ASSUME SettingsInv, Constructed PROVE SettingsAreSound
      BY DEF SettingsAreSound
  <2>1. /\ settings \in Config
        /\ origin = "command" => Agreed(settings)
        /\ engine = EngineOf(settings) /\ limits = LimitsOf(settings)
        /\ extractor = ExtractorOf(settings)
      BY PossibleIsConfig DEF SettingsInv, Constructed
  <2>2. \A field \in {"workers", "jobs", "results", "requestTimeout", "globalRate",
                      "globalBurst", "perHostRate", "perHostBurst", "cacheTTL"} :
            engine[field] > 0
      BY <2>1, EngineIsSound
  <2>3. extractor.maxText > 0 /\ extractor.minText > 0 /\ extractor.threshold > 0
      BY <2>1, ExtractorIsSound
  <2>4. ASSUME origin = "command"
        PROVE  /\ limits.maxPages > 0 /\ limits.maxDepth >= 0 /\ limits.maxQueue > 0
               /\ extractor.threshold <= Whole
               /\ settings.minText > 0 => extractor.minText < extractor.maxText
    <3>1. Agreed(settings)
        BY <2>1, <2>4
    <3>2. /\ limits.maxPages = settings.maxPages /\ limits.maxDepth = settings.maxDepth
          /\ limits.maxQueue = settings.queueCapacity
        BY <2>1 DEF LimitsOf
    <3> QED
        BY <2>1, <3>1, <3>2, ExtractorIsSound DEF Agreed
  <2> QED
      BY <2>2, <2>3, <2>4 DEF SettingsAreSound
<1> QED
    BY <1>1, SettingsInit, SettingsInvariance, PTL DEF Spec

-----------------------------------------------------------------------------
(* What is left of a page *)

Pruned == {"template", "boilerplate"}

\* More pieces outside code have more links.
LEMMA LinksGrow ==
    ASSUME NEW few, NEW many, Without(few, Code) \subseteq Without(many, Code)
    PROVE  HTMLLinks(few) \subseteq HTMLLinks(many)
PROOF
<1>1. LinksIn(Without(few, Code)) \subseteq LinksIn(Without(many, Code))
    BY DEF LinksIn
<1> HIDE DEF LinksIn
<1> QED
    BY <1>1 DEF HTMLLinks, Targets

\* What an extractor removes is code, templates and boilerplate, so that the links
\* of the rest are some of the page's, and all of those outside what was removed.
LEMMA RemovalKeepsLinks ==
    ASSUME NEW areas, Code \subseteq areas, areas \subseteq Code \union Pruned
    PROVE  /\ HTMLLinks(Without(Everything, areas)) \subseteq HTMLLinks(Everything)
           /\ HTMLLinks(Without(Everything, Pruned))
                \subseteq HTMLLinks(Without(Everything, areas))
PROOF
<1>1. Without(Without(Everything, areas), Code) \subseteq Without(Everything, Code)
    BY DEF Without, Within
<1>2. Without(Without(Everything, Pruned), Code) \subseteq Without(Without(Everything, areas), Code)
    BY DEF Without, Within
<1> QED
    BY <1>1, <1>2, LinksGrow

\* Nothing was removed for readability; otherwise code was, and at most templates
\* and boilerplate besides.
Trimmed ==
    IF method = "readability" THEN doc = Everything
    ELSE \E areas : /\ Code \subseteq areas /\ areas \subseteq Code \union Pruned
                    /\ doc = Without(Everything, areas)

LinksInv ==
    /\ phase \in {"html", "main"} => page.type = "html" /\ doc = Everything
    /\ phase \in {"links", "metadata", "score"} => page.type = "html" /\ Trimmed
    /\ phase \in {"metadata", "score"} => links = HTMLLinks(doc)
    /\ phase = "plain" => page.type = "plain"
    /\ phase = "xml" => page.type = "xml"
    /\ phase = "filter" /\ page.type = "html" => Trimmed /\ links = HTMLLinks(doc)
    /\ phase = "failed" => page.empty
    /\ phase # "done" => record = {}
    /\ LinksKept

\* Before a page is met nothing is claimed of one.
LEMMA LinksInit == Init => LinksInv
PROOF
    BY DEF Init, LinksInv, LinksKept

\* What is left of the page holds every link that should be kept.
LEMMA TrimmedKeepsLinks ==
    ASSUME Trimmed
    PROVE  /\ HTMLLinks(doc) \subseteq HTMLLinks(Everything)
           /\ HTMLLinks(Without(Everything, Pruned)) \subseteq HTMLLinks(doc)
           /\ method = "readability" => HTMLLinks(doc) = HTMLLinks(Everything)
PROOF
<1>1. CASE method = "readability"
  <2>1. doc = Everything
      BY <1>1 DEF Trimmed
  <2>2. Without(Without(Everything, Pruned), Code) \subseteq Without(Everything, Code)
      BY DEF Without, Within
  <2> QED
      BY <2>1, <2>2, LinksGrow
<1>2. CASE method # "readability"
  <2>1. PICK areas : /\ Code \subseteq areas /\ areas \subseteq Code \union Pruned
                     /\ doc = Without(Everything, areas)
      BY <1>2 DEF Trimmed
  <2> QED
      BY <1>2, <2>1, RemovalKeepsLinks
<1> QED
    BY <1>1, <1>2

\* Each way of choosing a text removes what it may and nothing else.
LEMMA TextKeepsLinks ==
    ASSUME LinksInv,
           ExtractWithReadability \/ ExtractMainContent \/ ExtractAllText
    PROVE  LinksInv'
PROOF
<1>1. /\ phase = "main" /\ phase' = "links" /\ page' = page /\ record' = record
      /\ page.type = "html" /\ doc = Everything
    BY DEF ExtractWithReadability, ExtractMainContent, ExtractAllText, LinksInv
<1>2. Everything' = Everything
    BY <1>1 DEF Everything
<1>3. ASSUME NEW areas, doc' = Without(doc, areas) PROVE doc' = Without(Everything, areas)'
    BY <1>1, <1>2, <1>3 DEF Without, Within
<1>4. Trimmed'
  <2>1. CASE ExtractWithReadability
      BY <2>1, <1>1, <1>2 DEF ExtractWithReadability, Trimmed
  <2>2. CASE ExtractMainContent
    <3>1. PICK some : some = IF extractor.removeBoilerplate THEN {"boilerplate"} ELSE {}
        OBVIOUS
    <3>2. doc' = Without(doc, Code \union {"template"} \union some)
        BY <2>2, <3>1 DEF ExtractMainContent, Stripped
    <3>3. doc' = Without(Everything, Code \union {"template"} \union some)'
        BY <3>2, <1>3
    <3>4. Code \union {"template"} \union some \subseteq Code \union Pruned
        BY <3>1 DEF Pruned
    <3>5. method' # "readability"
        BY <2>2 DEF ExtractMainContent
    <3> QED
        BY <3>3, <3>4, <3>5 DEF Trimmed
  <2>3. CASE ExtractAllText
    <3>1. PICK some : some = IF extractor.removeBoilerplate THEN {"boilerplate"} ELSE {}
        OBVIOUS
    <3>2. doc' = Without(doc, Code \union some) /\ method' = "full"
        BY <2>3, <3>1 DEF ExtractAllText
    <3>3. doc' = Without(Everything, Code \union some)'
        BY <3>2, <1>3
    <3>4. Code \union some \subseteq Code \union Pruned
        BY <3>1 DEF Pruned
    <3> QED
        BY <3>2, <3>3, <3>4 DEF Trimmed
  <2> QED
      BY <2>1, <2>2, <2>3
<1> QED
    BY <1>1, <1>4 DEF LinksInv, LinksKept

\* Of a rejected page the links are read anew from the whole body, of an accepted
\* one those stay that were read from what is left.
LEMMA JudgementKeepsLinks ==
    ASSUME LinksInv, RejectContent \/ AcceptContent
    PROVE  LinksInv'
PROOF
<1>1. phase = "filter" /\ phase' = "done" /\ page' = page /\ method' = method
    BY DEF RejectContent, AcceptContent, contentVars
<1>2. page.type = "html" => Trimmed /\ links = HTMLLinks(doc)
    BY <1>1 DEF LinksInv
<1>3. /\ Everything' = Everything
      /\ HTMLLinks(Everything)' = HTMLLinks(Everything)
      /\ HTMLLinks(Without(Everything, Pruned))' = HTMLLinks(Without(Everything, Pruned))
    BY <1>1 DEF Everything, HTMLLinks, Targets, LinksIn, Without, Within
<1>4. ASSUME page.type = "html"
      PROVE  /\ links' \subseteq HTMLLinks(Everything)
             /\ HTMLLinks(Without(Everything, Pruned)) \subseteq links'
             /\ record' = {} \/ method = "readability" => links' = HTMLLinks(Everything)
  <2>1. CASE RejectContent
    <3>1. links' = HTMLLinks(Everything)
        BY <1>4, <2>1 DEF RejectContent, Harvested, WholeBody, Parsed, Everything
    <3>2. Without(Without(Everything, Pruned), Code) \subseteq Without(Everything, Code)
        BY DEF Without, Within
    <3> QED
        BY <3>1, <3>2, LinksGrow
  <2>2. CASE AcceptContent
    <3>1. links' = HTMLLinks(doc) /\ record' # {}
        BY <1>2, <1>4, <2>2 DEF AcceptContent, contentVars
    <3> QED
        BY <1>2, <1>4, <3>1, TrimmedKeepsLinks
  <2> QED
      BY <2>1, <2>2
<1>5. LinksKept'
    BY <1>1, <1>3, <1>4 DEF LinksKept, Pruned
<1> QED
    BY <1>1, <1>5 DEF LinksInv

\* No step loses a link that should be kept.
LEMMA LinksInvariance == SettingsInv /\ LinksInv /\ [Next]_vars => LinksInv'
PROOF
<1> SUFFICES ASSUME SettingsInv, LinksInv, [Next]_vars PROVE LinksInv'
    OBVIOUS
<1>1. CASE LoadConfig \/ ApplyFlags \/ NewCoordinator
  <2>1. /\ phase \in {"load", "flags", "construct"}
        /\ phase' \in {"refused", "flags", "construct", "idle"}
        /\ record' = record
      BY <1>1 DEF LoadConfig, ApplyFlags, NewCoordinator
  <2> QED
      BY <2>1 DEF LinksInv, LinksKept
<1>2. CASE Refused \/ UNCHANGED vars
  <2>1. UNCHANGED vars
      BY <1>2 DEF Refused
  <2>2. /\ Everything' = Everything /\ HTMLLinks(doc)' = HTMLLinks(doc)
        /\ Trimmed' = Trimmed /\ LinksKept' = LinksKept
      BY <2>1 DEF vars, contentVars, setupVars, Everything, HTMLLinks, Targets, LinksIn, Without,
                  Within, Trimmed, LinksKept
  <2> QED
      BY <2>1, <2>2 DEF vars, contentVars, LinksInv
<1>3. CASE CreateExtractor
  <2>1. PICK fetched \in Offered(engine, limits) :
          /\ page' = fetched /\ doc' = Parsed(fetched)
          /\ phase' = IF fetched.empty THEN "failed" ELSE fetched.type
      BY <1>3 DEF CreateExtractor
  <2>2. phase = "idle" /\ record' = record
      BY <1>3 DEF CreateExtractor
  <2>3. fetched \in Page
      BY <2>1, <2>2, OfferedAssumption DEF SettingsInv, Constructed
  <2>4. fetched.type \in {"html", "plain", "xml"}
      BY <2>3 DEF Page, Fetched
  <2>5. doc' = Everything'
      BY <2>1 DEF Parsed, Everything
  <2> QED
      BY <2>1, <2>2, <2>4, <2>5 DEF LinksInv, LinksKept
<1>4. CASE ReadTitle
  <2>1. /\ phase = "html" /\ phase' = "main" /\ page' = page /\ doc' = doc /\ record' = record
      BY <1>4 DEF ReadTitle
  <2> QED
      BY <2>1 DEF LinksInv, LinksKept, Everything
<1>5. CASE ReadLinks \/ ReadMetadata \/ CalculateQualityScore
  <2>1. /\ page' = page /\ doc' = doc /\ method' = method /\ record' = record
        /\ phase \in {"links", "metadata", "score"}
        /\ phase' \in {"metadata", "score", "filter"}
      BY <1>5 DEF ReadLinks, ReadMetadata, CalculateQualityScore
  <2>2. /\ Trimmed' = Trimmed /\ HTMLLinks(doc)' = HTMLLinks(doc)
      BY <2>1 DEF Trimmed, Everything, HTMLLinks, Targets, LinksIn, Without, Within
  <2>3. links' = HTMLLinks(doc)
      BY <1>5 DEF ReadLinks, ReadMetadata, CalculateQualityScore, LinksInv
  <2> QED
      BY <2>1, <2>2, <2>3 DEF LinksInv, LinksKept
<1>6. CASE ExtractPlainText \/ ExtractXML
  <2>1. /\ page' = page /\ record' = record
        /\ phase' = "filter" /\ page.type \in {"plain", "xml"}
        /\ record = {}
      BY <1>6 DEF ExtractPlainText, ExtractXML, LinksInv
  <2> QED
      BY <2>1 DEF LinksInv, LinksKept
<1>7. CASE FailExtraction
  <2>1. phase = "failed" /\ phase' = "done" /\ page' = page
      BY <1>7 DEF FailExtraction
  <2> QED
      BY <2>1 DEF LinksInv, LinksKept
<1>8. CASE NextJob
    BY <1>8 DEF NextJob, LinksInv, LinksKept
<1> QED
    BY <1>1, <1>2, <1>3, <1>4, <1>5, <1>6, <1>7, <1>8, TextKeepsLinks, JudgementKeepsLinks
    DEF Next, ProcessHTML

\* Discovery gets every link of a page outside templates and boilerplate, and every
\* link at all if the page has no record or readability found its text, however its
\* extraction went (HTMLContentExtractor and ProcessJob).
THEOREM LinksKeptHolds == Spec => []LinksKept
PROOF
<1>1. LinksInv => LinksKept
    BY DEF LinksInv
<1> QED
    BY <1>1, SettingsInit, SettingsInvariance, LinksInit, LinksInvariance, PTL DEF Spec

-----------------------------------------------------------------------------
(* Texts and what is counted in them *)

Passage == [kind: Kind, lines: Nat \ {0}]

\* A natural number times another is one.
LEMMA ProductIsNumber == \A m, n \in Nat : m * n \in Nat
PROOF
    OBVIOUS

\* What is counted in a text is a number.
LEMMA CountsAreNumbers ==
    ASSUME NEW content \in Seq(Passage)
    PROVE  /\ [i \in DOMAIN content |-> content[i].lines] \in Seq(Nat)
           /\ Lines(content) \in Nat
           /\ \A measure \in Measures : Total(measure, content) \in Nat
PROOF
<1>1. /\ Len(content) \in Nat /\ DOMAIN content = 1..Len(content)
      /\ \A i \in 1..Len(content) : content[i] \in Passage
    OBVIOUS
<1>2. \A i \in 1..Len(content) : content[i].lines \in Nat /\ content[i].kind \in Kind
    BY <1>1 DEF Passage
<1>3. [i \in DOMAIN content |-> content[i].lines] \in Seq(Nat)
    BY <1>1, <1>2
<1>4. ASSUME NEW measure \in Measures
      PROVE  [i \in DOMAIN content |-> content[i].lines * Measure[content[i].kind][measure]] \in Seq(Nat)
  <2>1. \A i \in 1..Len(content) : Measure[content[i].kind][measure] \in Nat
      BY <1>2, MeasureAssumption
  <2>2. \A i \in 1..Len(content) :
          content[i].lines * Measure[content[i].kind][measure] \in Nat
      BY <1>2, <2>1, ProductIsNumber
  <2> QED
      BY <1>1, <2>2
<1> QED
    BY <1>3, <1>4, SumOfNumbers DEF Lines, Total

\* Nothing is counted in no text.
LEMMA NothingCounted ==
    /\ Lines(<<>>) = 0
    /\ \A measure \in Measures : Total(measure, <<>>) = 0
PROOF
<1>1. [i \in DOMAIN <<>> |-> <<>>[i].lines] = <<>>
    OBVIOUS
<1>2. ASSUME NEW measure
      PROVE  [i \in DOMAIN <<>> |-> <<>>[i].lines * Measure[<<>>[i].kind][measure]] = <<>>
    OBVIOUS
<1> QED
    BY <1>1, <1>2, SumOfNumbers DEF Lines, Total

\* A text with one passage more has its lines more.
LEMMA LinesOfAppend ==
    ASSUME NEW content \in Seq(Passage), NEW passage \in Passage
    PROVE  Lines(Append(content, passage)) = Lines(content) + passage.lines
PROOF
<1> DEFINE N == Len(content)
           longer == Append(content, passage)
           numbers == [i \in DOMAIN content |-> content[i].lines]
           more == [i \in DOMAIN longer |-> longer[i].lines]
<1>1. /\ N \in Nat /\ DOMAIN content = 1..N /\ longer \in Seq(Passage) /\ DOMAIN longer = 1..(N + 1)
      /\ longer[N + 1] = passage /\ \A i \in 1..N : longer[i] = content[i]
    OBVIOUS
<1> HIDE DEF longer, N
<1>2. numbers \in Seq(Nat) /\ more \in Seq(Nat)
    BY <1>1, CountsAreNumbers
<1>3. Len(numbers) = N /\ Len(more) = N + 1
    BY <1>1, <1>2
<1>4. passage.lines \in Nat
    BY DEF Passage
<1>5. /\ \A i \in 1..N : more[i] = numbers[i]
      /\ more[N + 1] = passage.lines
  <2>1. N + 1 \in 1..(N + 1) /\ \A i \in 1..N : i \in 1..(N + 1)
      BY <1>1
  <2> QED
      BY <1>1, <2>1
<1>6. more = Append(numbers, passage.lines)
  <2> HIDE DEF more, numbers
  <2>1. /\ Append(numbers, passage.lines) \in Seq(Nat)
        /\ Len(Append(numbers, passage.lines)) = N + 1
        /\ \A i \in 1..N : Append(numbers, passage.lines)[i] = numbers[i]
        /\ Append(numbers, passage.lines)[N + 1] = passage.lines
      BY <1>2, <1>3, <1>4, AppendProperties
  <2>2. \A i \in 1..(N + 1) : i \in 1..N \/ i = N + 1
      BY <1>1
  <2> QED
      BY <1>2, <1>3, <1>5, <2>1, <2>2, SeqEqual
<1> QED
    BY <1>2, <1>4, <1>6, SumOfNumbers DEF Lines, longer

\* Whole lines that fit into some characters are not longer than them.
LEMMA WholeLinesFit ==
    ASSUME NEW runes \in Nat, NEW count \in Nat, count <= runes \div LineRunes
    PROVE  LineRunes * count <= runes
PROOF
<1> DEFINE room == runes \div LineRunes
<1>1. room \in Nat /\ LineRunes * room <= runes /\ LineRunes \in Nat
    BY MeasureAssumption
<1> HIDE DEF room
<1>2. \A a, b, c \in Nat : b <= c => a * b <= a * c
    OBVIOUS
<1>3. LineRunes * count <= LineRunes * room
    BY <1>1, <1>2 DEF room
<1>4. LineRunes * count \in Nat /\ LineRunes * room \in Nat
    BY <1>1, ProductIsNumber
<1> QED
    BY <1>1, <1>3, <1>4

\* What is left of a text that is cut to a limit is within the limit, and has passages
\* of the text only (truncateRunes).
LEMMA TruncateFits ==
    ASSUME NEW content \in Seq(Passage), NEW maxRunes \in Nat \ {0}
    PROVE  /\ Truncate(content, maxRunes) \in Seq(Passage)
           /\ LineRunes * Lines(Truncate(content, maxRunes)) <= maxRunes
           /\ PassagesOf(Truncate(content, maxRunes)) \subseteq PassagesOf(content)
PROOF
<1> DEFINE N == Len(content)
           room == maxRunes \div LineRunes
           L(n) == Lines(SubSeq(content, 1, n))
           left(i) == room - L(i - 1)
           cut == [i \in 1..N |-> [content[i] EXCEPT !.lines = AtMost(left(i), @)]]
           Filled == {passage \in ToSet(cut) : passage.lines > 0}
           Cut == [kind: Kind, lines: Int]
<1>1. N \in Nat /\ DOMAIN content = 1..N /\ \A i \in 1..N : content[i] \in Passage
    OBVIOUS
<1>2. Truncate(content, maxRunes) = Only(cut, Filled)
    BY <1>1 DEF Truncate
<1> HIDE DEF N
<1>3. room \in Nat
    BY MeasureAssumption
<1>4. \A n \in 0..N : SubSeq(content, 1, n) \in Seq(Passage) /\ L(n) \in Nat
  <2> TAKE n \in 0..N
  <2>1. SubSeq(content, 1, n) \in Seq(Passage)
      BY <1>1, SubSeqProperties
  <2> QED
      BY <2>1, CountsAreNumbers
<1>5. L(0) = 0
  <2>1. SubSeq(content, 1, 0) = <<>>
      BY SubSeqEmpty
  <2> QED
      BY <2>1, NothingCounted
<1>6. \A n \in 0..(N - 1) : L(n + 1) = L(n) + content[n + 1].lines
  <2> TAKE n \in 0..(N - 1)
  <2>1. n + 1 \in 1..N /\ n \in 0..N /\ (n + 1) - 1 = n /\ content[n + 1] \in Passage
      BY <1>1
  <2>2. SubSeq(content, 1, n + 1) = SubSeq(content, 1, n) \o <<content[n + 1]>>
    <3>1. 1 \in 1..Len(content) /\ n + 1 \in 1..Len(content)
        BY <1>1, <2>1 DEF N
    <3> QED
        BY <2>1, <3>1, SubSeqRecursiveSecond
  <2>3. SubSeq(content, 1, n + 1) = Append(SubSeq(content, 1, n), content[n + 1])
      BY <1>4, <2>1, <2>2, AppendIsConcat
  <2> QED
      BY <1>4, <2>1, <2>3, LinesOfAppend
<1> HIDE DEF room, L
<1>7. \A i \in 1..N : /\ cut[i] \in Cut /\ cut[i].kind = content[i].kind
                      /\ cut[i].lines = AtMost(left(i), content[i].lines)
  <2> TAKE i \in 1..N
  <2>1. i - 1 \in 0..N
      BY <1>1
  <2>2. left(i) \in Int /\ content[i].lines \in Int /\ content[i].kind \in Kind
      BY <1>1, <1>3, <1>4, <2>1 DEF Passage
  <2>3. AtMost(left(i), content[i].lines) \in Int
      BY <2>2 DEF AtMost
  <2>4. content[i] \in [kind: Kind, lines: Nat \ {0}]
      BY <1>1 DEF Passage
  <2> HIDE DEF left
  <2> QED
      BY <2>2, <2>3, <2>4
<1>8. cut \in Seq(Cut) /\ Len(cut) = N /\ DOMAIN cut = 1..N
  <2>1. DOMAIN cut = 1..N
      OBVIOUS
  <2>2. cut = [i \in 1..N |-> cut[i]]
      OBVIOUS
  <2> HIDE DEF cut, Cut
  <2>3. cut \in [1..N -> Cut]
      BY <1>7, <2>2
  <2> QED
      BY <1>1, <2>1, <2>3
<1> HIDE DEF cut, Filled
<1>9. PICK part \in [0..N -> Seq(Cut)] :
        /\ part[0] = <<>> /\ Only(cut, Filled) = part[N]
        /\ \A n \in 0..(N - 1) : part[n + 1] = IF cut[n + 1] \in Filled
                                                THEN Append(part[n], cut[n + 1]) ELSE part[n]
  <2> HIDE DEF Cut
  <2>1. Growing(Cut, cut, Filled) # {}
      BY <1>8, OnlyGrows
  <2> QED
      BY <1>8, <2>1 DEF Growing
<1> DEFINE A == {n \in 0..N : part[n] \in Seq(Passage) /\ Lines(part[n]) = AtMost(room, L(n))}
<1>10. 0 \in A
  <2>1. 0 \in 0..N /\ <<>> \in Seq(Passage)
      BY <1>1
  <2>2. AtMost(room, L(0)) = 0
      BY <1>3, <1>5 DEF AtMost
  <2> QED
      BY <1>9, <2>1, <2>2, NothingCounted
<1>11. ASSUME NEW n \in 0..(N - 1), n \in A PROVE n + 1 \in A
  <2>1. n + 1 \in 1..N /\ n + 1 \in 0..N /\ n \in 0..N /\ (n + 1) - 1 = n
      BY <1>1
  <2>2. part[n] \in Seq(Passage) /\ Lines(part[n]) = AtMost(room, L(n))
      BY <1>11
  <2>3. /\ L(n) \in Nat /\ content[n + 1].lines \in Nat \ {0}
        /\ L(n + 1) = L(n) + content[n + 1].lines
      BY <1>1, <1>4, <1>6, <2>1 DEF Passage
  <2>4. /\ cut[n + 1].lines = AtMost(room - L(n), content[n + 1].lines)
        /\ cut[n + 1] \in Cut
      BY <1>7, <2>1
  <2>5. cut[n + 1] \in Filled <=> cut[n + 1].lines > 0
      BY <1>8, <2>1 DEF Filled, ToSet
  <2>6. CASE L(n) < room
    <3>1. cut[n + 1].lines > 0 /\ AtMost(room, L(n)) = L(n)
          /\ L(n) + cut[n + 1].lines = AtMost(room, L(n + 1))
        BY <1>3, <2>3, <2>4, <2>6 DEF AtMost
    <3>2. cut[n + 1] \in Passage
        BY <2>4, <3>1 DEF Passage
    <3>3. part[n + 1] = Append(part[n], cut[n + 1])
        BY <1>9, <2>5, <3>1
    <3>4. Append(part[n], cut[n + 1]) \in Seq(Passage)
        BY <2>2, <3>2, AppendProperties
    <3>5. Lines(part[n + 1]) = Lines(part[n]) + cut[n + 1].lines
        BY <2>2, <3>2, <3>3, LinesOfAppend
    <3> QED
        BY <2>1, <2>2, <3>1, <3>3, <3>4, <3>5
  <2>7. CASE ~(L(n) < room)
    <3>1. ~(cut[n + 1].lines > 0) /\ AtMost(room, L(n)) = AtMost(room, L(n + 1))
        BY <1>3, <2>3, <2>4, <2>7 DEF AtMost
    <3>2. part[n + 1] = part[n]
        BY <1>9, <2>5, <3>1
    <3> QED
        BY <2>1, <2>2, <3>1, <3>2
  <2> QED
      BY <2>6, <2>7
<1>12. part[N] \in Seq(Passage) /\ Lines(part[N]) = AtMost(room, L(N))
  <2> HIDE DEF A
  <2>1. \A n \in 0..N : n \in A
      BY <1>1, <1>10, <1>11, InductionUpTo
  <2> QED
      BY <1>1, <2>1 DEF A
<1>13. Lines(part[N]) \in Nat /\ Lines(part[N]) <= room
    BY <1>1, <1>3, <1>4, <1>12 DEF AtMost
<1>14. LineRunes * Lines(part[N]) <= maxRunes
    BY <1>13, WholeLinesFit DEF room
<1>15. PassagesOf(part[N]) \subseteq PassagesOf(content)
  <2>1. ToSet(part[N]) \subseteq ToSet(cut)
      BY <1>8, <1>9, OnlyElements
  <2>2. \A passage \in ToSet(cut) : \E i \in 1..N : passage.kind = content[i].kind
      BY <1>7, <1>8 DEF ToSet
  <2>3. \A i \in 1..N : content[i].kind \in PassagesOf(content)
      BY <1>1 DEF PassagesOf, ToSet
  <2> QED
      BY <2>1, <2>2, <2>3 DEF PassagesOf
<1> QED
    BY <1>2, <1>9, <1>12, <1>14, <1>15

-----------------------------------------------------------------------------
(* Texts of pages *)

\* A text with no lines has no passages.
LEMMA EmptyTexts ==
    ASSUME NEW content \in Seq(Passage), Lines(content) = 0
    PROVE  content = <<>>
PROOF
<1> SUFFICES ASSUME content # <<>> PROVE FALSE
    OBVIOUS
<1>1. PICK some \in Seq(Passage), passage \in Passage : content = Append(some, passage)
    BY SequenceEmptyOrAppend
<1>2. Lines(content) = Lines(some) + passage.lines
    BY <1>1, LinesOfAppend
<1>3. Lines(some) \in Nat /\ passage.lines \in Nat \ {0}
    BY CountsAreNumbers DEF Passage
<1> QED
    BY <1>2, <1>3

\* The kinds of some pieces of the page.
Kinds(left) == {page.pieces[i].kind : i \in DOMAIN page.pieces \intersect left}

\* A text has the passages of the pieces that it was made of.
LEMMA TextsElements ==
    ASSUME page \in Page, NEW left
    PROVE  Texts(left) \in Seq(Passage) /\ PassagesOf(Texts(left)) = Kinds(left)
PROOF
<1> DEFINE N == Len(page.pieces)
           index == [i \in DOMAIN page.pieces |-> i]
           order == Only(index, left)
           passage(i) == [kind |-> page.pieces[i].kind, lines |-> page.pieces[i].lines]
<1>1. page.pieces \in Seq(Piece)
    BY DEF Page, Fetched
<1>2. N \in Nat /\ DOMAIN page.pieces = 1..N /\ \A i \in 1..N : page.pieces[i] \in Piece
    BY <1>1
<1>3. index \in Seq(1..N) /\ ToSet(index) = 1..N
  <2>1. DOMAIN index = 1..N /\ \A i \in 1..N : index[i] = i
      BY <1>2
  <2>2. index \in [1..N -> 1..N]
      BY <1>2
  <2> HIDE DEF index, N
  <2>3. index \in Seq(1..N)
      BY <1>2, <2>2
  <2>4. ToSet(index) = {index[i] : i \in 1..N}
      BY <2>1 DEF ToSet
  <2> QED
      BY <2>1, <2>3, <2>4
<1>4. order \in Seq(1..N) /\ ToSet(order) = (1..N) \cap left
  <2> HIDE DEF index, N
  <2> QED
      BY <1>3, OnlyElements
<1>5. Texts(left) = [n \in DOMAIN order |-> passage(order[n])]
    BY DEF Texts
<1>6. \A i \in 1..N : passage(i) \in Passage
    BY <1>2 DEF Passage, Piece
<1> HIDE DEF order, N, index
<1>7. /\ DOMAIN order = 1..Len(order) /\ Len(order) \in Nat
      /\ \A n \in 1..Len(order) : order[n] \in 1..N
  <2> DEFINE places == 1..N
  <2>1. order \in Seq(places)
      BY <1>4
  <2> HIDE DEF places
  <2>2. /\ DOMAIN order = 1..Len(order) /\ Len(order) \in Nat
        /\ \A n \in 1..Len(order) : order[n] \in places
      BY <2>1, LenProperties, ElementOfSeq
  <2> QED
      BY <2>2 DEF places
<1>8. Texts(left) \in Seq(Passage) /\ DOMAIN Texts(left) = DOMAIN order
  <2> HIDE DEF passage
  <2>1. \A n \in 1..Len(order) : passage(order[n]) \in Passage
      BY <1>6, <1>7
  <2> QED
      BY <1>5, <1>7, <2>1
<1>9. \A n \in DOMAIN order : Texts(left)[n].kind = page.pieces[order[n]].kind
    BY <1>5
<1>10. PassagesOf(Texts(left)) = {page.pieces[i].kind : i \in ToSet(order)}
  <2>1. PassagesOf(Texts(left)) = {Texts(left)[n].kind : n \in DOMAIN order}
      BY <1>8 DEF PassagesOf, ToSet
  <2>2. ToSet(order) = {order[n] : n \in DOMAIN order}
      BY DEF ToSet
  <2> QED
      BY <1>9, <2>1, <2>2
<1> QED
    BY <1>2, <1>4, <1>8, <1>10 DEF Kinds

\* What a selector finds consists of passages of what is left.
LEMMA SelectedElements ==
    ASSUME page \in Page, NEW left, NEW selector \in Seq(Area)
    PROVE  /\ Selected(left, selector) \in Seq(Passage)
           /\ PassagesOf(Selected(left, selector)) \subseteq Kinds(left)
PROOF
<1> DEFINE N == Len(selector)
           found == [n \in DOMAIN selector |-> Texts(Within(left, {selector[n]}))]
<1>1. N \in Nat /\ DOMAIN selector = 1..N
    OBVIOUS
<1>2. Selected(left, selector) = Joined(found)
    BY DEF Selected
<1>3. \A n \in 1..N : /\ found[n] \in Seq(Passage)
                      /\ PassagesOf(found[n]) \subseteq Kinds(left)
  <2> TAKE n \in 1..N
  <2>1. found[n] = Texts(Within(left, {selector[n]}))
      BY <1>1
  <2>2. Within(left, {selector[n]}) \subseteq left
      BY DEF Within
  <2>3. Kinds(Within(left, {selector[n]})) \subseteq Kinds(left)
      BY <2>2 DEF Kinds
  <2> QED
      BY <2>1, <2>3, TextsElements
<1>4. DOMAIN found = 1..N
    BY <1>1
<1>5. found = [n \in 1..N |-> found[n]]
    BY <1>1
<1> HIDE DEF found, N
<1>6. found \in Seq(Seq(Passage))
  <2>1. found \in [1..N -> Seq(Passage)]
      BY <1>3, <1>5
  <2> QED
      BY <1>1, <2>1
<1>7. /\ Joined(found) \in Seq(Passage)
      /\ ToSet(Joined(found)) = UNION {ToSet(found[i]) : i \in 1..N}
    BY <1>4, <1>6, JoinedElements
<1>8. \A passage \in ToSet(Joined(found)) : \E n \in 1..N : passage.kind \in PassagesOf(found[n])
    BY <1>7 DEF PassagesOf
<1> QED
    BY <1>2, <1>3, <1>7, <1>8 DEF PassagesOf

\* The selectors are lists of areas.
LEMMA SelectorsAreLists == Selectors \in Seq(Seq(Area))
PROOF
<1>1. ContentSelectors \in Seq(Seq(Area))
  <2>1. <<"main">> \in Seq(Area) /\ <<"article">> \in Seq(Area) /\ <<"content">> \in Seq(Area)
      BY DEF Area
  <2> QED
      BY <2>1 DEF ContentSelectors
<1>2. CommonSelectors \in Seq(Seq(Area))
  <2>1. <<"main">> \in Seq(Area) /\ <<"article">> \in Seq(Area)
      BY DEF Area
  <2>2. <<"content", "roleMain">> \in Seq(Area)
      BY DEF Area
  <2>3. <<"post">> \in Seq(Area) /\ <<"text">> \in Seq(Area)
      BY DEF Area
  <2> QED
      BY <2>1, <2>2, <2>3 DEF CommonSelectors
<1> QED
    BY <1>1, <1>2, ConcatProperties DEF Selectors

\* The score of a selector is a number.
LEMMA LengthScoreIsNumber ==
    ASSUME NEW content \in Seq(Passage), NEW minLength \in Int
    PROVE  ScoreContentByLength(content, minLength) \in Nat
PROOF
<1>1. Total("bytes", content) \in Nat
    BY CountsAreNumbers DEF Measures
<1>2. PICK formula \in Nat : formula = IF Total("legal", content) > 0 THEN 4 ELSE 10
    OBVIOUS
<1>3. PICK sparse \in Nat : sparse = IF 200 * Total("pauses", content) < Total("bytes", content)
                                    THEN 5 ELSE 10
    OBVIOUS
<1>4. PICK range \in Nat : range = IF Total("bytes", content) \in 500..5000 THEN 15 ELSE 10
    OBVIOUS
<1>5. Total("bytes", content) * formula \in Nat
    BY <1>1, ProductIsNumber
<1>6. Total("bytes", content) * formula * sparse \in Nat
    BY <1>5, ProductIsNumber
<1>7. Total("bytes", content) * formula * sparse * range \in Nat
    BY <1>6, ProductIsNumber
<1>8. ScoreContentByLength(content, minLength)
        = IF Total("bytes", content) < minLength THEN 0
          ELSE Total("bytes", content) * formula * sparse * range
    BY <1>2, <1>3, <1>4 DEF ScoreContentByLength
<1> QED
    BY <1>7, <1>8

\* What BestChosen says of what is left.
BestOf(left, content) ==
    LET scoreOf(i) == ScoreContentByLength(Selected(left, Selectors[i]), extractor.minText)
        best == {i \in DOMAIN Selectors : \A j \in DOMAIN Selectors :
                    scoreOf(i) > scoreOf(j) \/ (scoreOf(i) = scoreOf(j) /\ i <= j)}
        i == CHOOSE k \in best : TRUE
    IN  content = Clean(IF scoreOf(i) > 0 THEN Selected(left, Selectors[i]) ELSE Texts(left))

\* The loop over the selectors finds the first that scores best, if one scores.
LEMMA BestSelectorIsBest ==
    ASSUME page \in Page, extractor.minText \in Int, NEW left
    PROVE  LET best == BestSelector(left)
           IN  /\ best \in {0} \union DOMAIN Selectors
               /\ BestOf(left, Clean(IF best = 0 THEN Texts(left)
                                     ELSE Selected(left, Selectors[best])))
PROOF
<1> DEFINE N == Len(Selectors)
           scoreOf(i) == ScoreContentByLength(Selected(left, Selectors[i]), extractor.minText)
           numbers == [i \in DOMAIN Selectors |-> scoreOf(i)]
           best == {i \in DOMAIN Selectors : \A j \in DOMAIN Selectors :
                       scoreOf(i) > scoreOf(j) \/ (scoreOf(i) = scoreOf(j) /\ i <= j)}
           first == FirstBest(numbers)
<1>1. /\ N \in Nat /\ DOMAIN Selectors = 1..N
      /\ \A i \in 1..N : Selectors[i] \in Seq(Area)
    BY SelectorsAreLists
<1>2. N > 0
  <2>1. ContentSelectors # <<>>
      BY DEF ContentSelectors
  <2> QED
      BY <1>1, <2>1, SelectorsAreLists DEF Selectors, ContentSelectors, CommonSelectors
<1>3. BestSelector(left) = first
    BY DEF BestSelector
<1>4. \A i \in 1..N : scoreOf(i) \in Nat
  <2> TAKE i \in 1..N
  <2>1. Selected(left, Selectors[i]) \in Seq(Passage)
      BY <1>1, SelectedElements
  <2> QED
      BY <2>1, LengthScoreIsNumber
<1>5. \A content : BestOf(left, content)
        <=> content = Clean(IF scoreOf(CHOOSE k \in best : TRUE) > 0
                            THEN Selected(left, Selectors[CHOOSE k \in best : TRUE])
                            ELSE Texts(left))
    BY DEF BestOf
<1> HIDE DEF N, scoreOf
<1>6. numbers \in Seq(Nat) /\ DOMAIN numbers = 1..N /\ \A i \in 1..N : numbers[i] = scoreOf(i)
    BY <1>1, <1>4
<1> HIDE DEF numbers
<1>7. \/ first = 0 /\ \A i \in 1..N : scoreOf(i) = 0
      \/ /\ first \in 1..N /\ scoreOf(first) > 0
         /\ \A i \in 1..N : scoreOf(i) <= scoreOf(first)
         /\ \A i \in 1..(first - 1) : scoreOf(i) < scoreOf(first)
  <2>1. \/ first = 0 /\ \A i \in 1..N : numbers[i] = 0
        \/ /\ first \in 1..N /\ numbers[first] > 0
           /\ \A i \in 1..N : numbers[i] <= numbers[first]
           /\ \A i \in 1..(first - 1) : numbers[i] < numbers[first]
      BY <1>6, FirstBestIsBest
  <2> HIDE DEF first
  <2>2. first \in 1..N => \A i \in 1..(first - 1) : i \in 1..N
      BY <1>1
  <2> QED
      BY <1>6, <2>1, <2>2
<1> HIDE DEF first
<1>8. CASE first = 0
  <2>1. \A i \in 1..N : scoreOf(i) = 0
      BY <1>1, <1>7, <1>8
  <2>2. 1 \in best
      BY <1>1, <1>2, <2>1
  <2> HIDE DEF best
  <2>3. (CHOOSE k \in best : TRUE) \in best
      BY <2>2
  <2>4. scoreOf(CHOOSE k \in best : TRUE) = 0
      BY <1>1, <2>1, <2>3 DEF best
  <2> QED
      BY <1>3, <1>5, <1>8, <2>4
<1>9. CASE first # 0
  <2>1. /\ first \in 1..N /\ scoreOf(first) > 0
        /\ \A i \in 1..N : scoreOf(i) <= scoreOf(first)
        /\ \A i \in 1..(first - 1) : scoreOf(i) < scoreOf(first)
      BY <1>7, <1>9
  <2>2. first \in best
    <3>1. ASSUME NEW j \in 1..N
          PROVE  scoreOf(first) > scoreOf(j) \/ (scoreOf(first) = scoreOf(j) /\ first <= j)
      <4>1. scoreOf(j) \in Nat /\ scoreOf(first) \in Nat /\ scoreOf(j) <= scoreOf(first)
          BY <1>4, <2>1
      <4>2. first <= j \/ j \in 1..(first - 1)
          BY <1>1, <2>1
      <4> QED
          BY <2>1, <4>1, <4>2
    <3> QED
        BY <1>1, <2>1, <3>1
  <2>3. \A k \in best : k = first
    <3> TAKE k \in best
    <3>1. /\ k \in 1..N
          /\ scoreOf(k) > scoreOf(first) \/ (scoreOf(k) = scoreOf(first) /\ k <= first)
        BY <1>1, <2>1
    <3>2. scoreOf(k) \in Nat /\ scoreOf(first) \in Nat /\ scoreOf(k) <= scoreOf(first)
        BY <1>4, <2>1, <3>1
    <3>3. k <= first /\ ~(k \in 1..(first - 1))
        BY <2>1, <3>1, <3>2
    <3> QED
        BY <1>1, <2>1, <3>1, <3>3
  <2> HIDE DEF best
  <2>4. (CHOOSE k \in best : TRUE) = first
      BY <2>2, <2>3
  <2> QED
      BY <1>1, <1>3, <1>5, <1>9, <2>1, <2>4
<1> QED
    BY <1>8, <1>9

-----------------------------------------------------------------------------
(* Scores *)

\* A text with no lines has nothing to count.
LEMMA NoLinesNoCounts ==
    ASSUME NEW content \in Seq(Passage), ~(Lines(content) > 0)
    PROVE  \A measure \in Measures : Total(measure, content) = 0
PROOF
<1>1. Lines(content) \in Nat
    BY CountsAreNumbers
<1>2. Lines(content) = 0
    BY <1>1
<1>3. content = <<>>
    BY <1>2, EmptyTexts
<1> QED
    BY <1>3, NothingCounted

\* Dividing by a positive number gives a number.
LEMMA QuotientIsNumber == \A a \in Int, b \in Nat \ {0} : a \div b \in Int
PROOF
    OBVIOUS

\* The share of function words gives a number of points.
LEMMA ProseScoreIsNumber ==
    ASSUME NEW words \in Nat \ {0}, NEW stops \in Nat
    PROVE  ProseScore(words, stops) \in Int
PROOF
<1>1. Percent(45) \in Int
    BY DEF Percent, Whole
<1>2. 20 * stops - words \in Int /\ 95 * words - 100 * stops \in Int
    OBVIOUS
<1>3. \A a, b \in Int : a * b \in Int
    OBVIOUS
<1>4. /\ Percent(45) * (20 * stops - words) \in Int
      /\ Percent(45) * (95 * words - 100 * stops) \in Int
    BY <1>1, <1>2, <1>3
<1>5. 3 * words \in Nat \ {0} /\ 40 * words \in Nat \ {0}
    OBVIOUS
<1>6. /\ (Percent(45) * (20 * stops - words)) \div (3 * words) \in Int
      /\ (Percent(45) * (95 * words - 100 * stops)) \div (40 * words) \in Int
    BY <1>4, <1>5, QuotientIsNumber
<1>7. Percent(45) \div 2 \in Int
    BY <1>1, QuotientIsNumber
<1>8. PICK some, most, half \in Int :
        /\ some = (Percent(45) * (20 * stops - words)) \div (3 * words)
        /\ most = (Percent(45) * (95 * words - 100 * stops)) \div (40 * words)
        /\ half = Percent(45) \div 2
    BY <1>6, <1>7
<1>9. PICK few, less, fit, more : /\ few = NoProse(words, stops)
                                 /\ less = (~NoProse(words, stops) /\ 5 * stops < words)
                                 /\ fit = (5 * stops >= words /\ 20 * stops <= 11 * words)
                                 /\ more = (20 * stops > 11 * words /\ 4 * stops < 3 * words)
    OBVIOUS
<1>10. ProseScore(words, stops) = CASE few -> 0
                                    [] less -> some
                                    [] fit -> Percent(45)
                                    [] more -> most
                                    [] OTHER -> half
    BY <1>8, <1>9 DEF ProseScore
<1>11. ProseScore(words, stops) \in {0, some, Percent(45), most, half}
    BY <1>10
<1> QED
    BY <1>1, <1>8, <1>11

\* The score of a text of an HTML page is a number; it is not positive if the text has
\* no lines, and at most a fifth of the whole if it has almost no function words.
LEMMA QualityScore ==
    ASSUME NEW content \in Seq(Passage), NEW rendered, NEW count, NEW titled
    PROVE  LET value == ScoreContentQuality(content, rendered, count, titled)
           IN  /\ value \in Int
               /\ value > 0 => Lines(content) > 0
               /\ NoProse(Total("words", content), Total("stops", content))
                    => value <= Percent(20)
PROOF
<1>1. PICK words, stops, marks : /\ words = Total("words", content)
                                 /\ stops = Total("stops", content)
                                 /\ marks = Total("marks", content)
    OBVIOUS
<1>2. words \in Nat /\ stops \in Nat
    BY <1>1, CountsAreNumbers DEF Measures
<1>3. words > 0 => Lines(content) > 0
    BY <1>1, NoLinesNoCounts DEF Measures
<1>4. PICK value : value = ScoreContentQuality(content, rendered, count, titled)
    OBVIOUS
<1>5. CASE words = 0
  <2>1. value = 0
      BY <1>1, <1>4, <1>5 DEF ScoreContentQuality
  <2>2. Percent(20) \in Nat
      BY DEF Percent, Whole
  <2> QED
      BY <1>4, <2>1, <2>2
<1>6. CASE words # 0
  <2>1. ProseScore(words, stops) \in Int
      BY <1>2, <1>6, ProseScoreIsNumber
  <2>2. Structure(marks, count) \in Int
      BY DEF Structure, Percent, Whole
  <2>3. AtMost(Percent(15), 15 * words) \in Int
      BY <1>2 DEF AtMost, Percent, Whole
  <2>4. /\ (IF rendered THEN Percent(12) ELSE 0) \in Int
        /\ (IF titled THEN Percent(8) ELSE 0) \in Int
      BY DEF Percent, Whole
  <2>5. PICK points \in Int :
          points = ProseScore(words, stops) + Structure(marks, count)
                      + AtMost(Percent(15), 15 * words)
                      + (IF rendered THEN Percent(12) ELSE 0)
                      + (IF titled THEN Percent(8) ELSE 0)
      BY <2>1, <2>2, <2>3, <2>4
  <2>6. value = CappedScore(NoProse(words, stops), points)
      BY <1>1, <1>4, <1>6, <2>5 DEF ScoreContentQuality
  <2>7. value \in Int /\ (NoProse(words, stops) => value <= Percent(20))
      BY <2>6 DEF CappedScore, AtMost, Percent, Whole
  <2>8. words > 0
      BY <1>2, <1>6
  <2> QED
      BY <1>1, <1>3, <1>4, <2>7, <2>8
<1> QED
    BY <1>5, <1>6

\* The score of plain text is a number, not positive if the text has no lines.
LEMMA PlainTextScore ==
    ASSUME NEW content \in Seq(Passage), NEW minLength \in Nat \ {0}, NEW count \in Nat,
           content = <<>> => count = 0
    PROVE  LET value == ScorePlainText(content, minLength, count)
           IN  value \in Int /\ (value > 0 => Lines(content) > 0)
PROOF
<1>1. PICK bytes, words, ends : /\ bytes = Total("bytes", content)
                                /\ words = Total("words", content)
                                /\ ends = Total("ends", content)
    OBVIOUS
<1>2. bytes \in Nat /\ words \in Nat /\ ends \in Nat
    BY <1>1, CountsAreNumbers DEF Measures
<1>3. ~(Lines(content) > 0) => bytes = 0 /\ words = 0 /\ ends = 0 /\ count = 0
  <2>1. ~(Lines(content) > 0) => bytes = 0 /\ words = 0 /\ ends = 0
      BY <1>1, NoLinesNoCounts DEF Measures
  <2>2. Lines(content) \in Nat
      BY CountsAreNumbers
  <2>3. ~(Lines(content) > 0) => content = <<>>
      BY <2>2, EmptyTexts
  <2> QED
      BY <2>1, <2>3
<1>4. PICK long \in Int :
        long = IF bytes >= minLength THEN AtMost(Percent(40), (24 * bytes) \div 5) ELSE 0
  <2>1. (24 * bytes) \div 5 \in Int
      BY <1>2
  <2> QED
      BY <2>1 DEF AtMost, Percent, Whole
<1>5. PICK wordy \in Int : wordy = IF words > 20 THEN AtMost(Percent(30), 12 * words) ELSE 0
    BY <1>2 DEF AtMost, Percent, Whole
<1>6. PICK ended \in Int : ended = IF ends > 3 THEN Percent(10) ELSE 0
    BY DEF Percent, Whole
<1>7. PICK parted \in Int : parted = IF count > 1 THEN Percent(10) ELSE 0
    BY DEF Percent, Whole
<1>8. PICK even \in Int :
        even = IF ends > 0 /\ words \in 8 * ends .. 25 * ends THEN Percent(10) ELSE 0
    BY DEF Percent, Whole
<1>9. ScorePlainText(content, minLength, count)
        = AtMost(Whole, long + wordy + ended + parted + even)
    BY <1>1, <1>4, <1>5, <1>6, <1>7, <1>8 DEF ScorePlainText
<1>10. ~(Lines(content) > 0) => long = 0 /\ wordy = 0 /\ ended = 0 /\ parted = 0 /\ even = 0
    BY <1>3, <1>4, <1>5, <1>6, <1>7, <1>8
<1>11. AtMost(Whole, long + wordy + ended + parted + even) \in Int
  <2>1. long + wordy + ended + parted + even \in Int
      OBVIOUS
  <2> QED
      BY <2>1 DEF AtMost, Whole
<1>12. AtMost(Whole, 0) = 0
    BY DEF AtMost, Whole
<1> QED
    BY <1>9, <1>10, <1>11, <1>12

\* So is that of an XML text.
LEMMA XMLScore ==
    ASSUME NEW content \in Seq(Passage), NEW minLength \in Nat \ {0}, NEW count \in Nat,
           content = <<>> => count = 0
    PROVE  LET value == ScoreXML(content, minLength, count)
           IN  value \in Int /\ (value > 0 => Lines(content) > 0)
PROOF
<1>1. PICK bytes, words, ends : /\ bytes = Total("bytes", content)
                                /\ words = Total("words", content)
                                /\ ends = Total("ends", content)
    OBVIOUS
<1>2. bytes \in Nat /\ words \in Nat /\ ends \in Nat
    BY <1>1, CountsAreNumbers DEF Measures
<1>3. ~(Lines(content) > 0) => bytes = 0 /\ words = 0 /\ ends = 0 /\ count = 0
  <2>1. ~(Lines(content) > 0) => bytes = 0 /\ words = 0 /\ ends = 0
      BY <1>1, NoLinesNoCounts DEF Measures
  <2>2. Lines(content) \in Nat
      BY CountsAreNumbers
  <2>3. ~(Lines(content) > 0) => content = <<>>
      BY <2>2, EmptyTexts
  <2> QED
      BY <2>1, <2>3
<1>4. PICK long \in Int :
        long = IF bytes >= minLength THEN AtMost(Percent(35), (14 * bytes) \div 5) ELSE 0
  <2>1. (14 * bytes) \div 5 \in Int
      BY <1>2
  <2> QED
      BY <2>1 DEF AtMost, Percent, Whole
<1>5. PICK wordy \in Int : wordy = IF words > 15 THEN AtMost(Percent(25), 12 * words) ELSE 0
    BY <1>2 DEF AtMost, Percent, Whole
<1>6. PICK ended \in Int : ended = IF ends > 2 THEN Percent(25) \div 2 ELSE 0
    BY DEF Percent, Whole
<1>7. PICK parted \in Int : parted = IF count > 1 THEN Percent(25) \div 2 ELSE 0
    BY DEF Percent, Whole
<1>8. ScoreXML(content, minLength, count) = AtMost(Whole, long + wordy + ended + parted)
    BY <1>1, <1>4, <1>5, <1>6, <1>7 DEF ScoreXML
<1>9. ~(Lines(content) > 0) => long = 0 /\ wordy = 0 /\ ended = 0 /\ parted = 0
    BY <1>3, <1>4, <1>5, <1>6, <1>7
<1>10. AtMost(Whole, long + wordy + ended + parted) \in Int
  <2>1. long + wordy + ended + parted \in Int
      OBVIOUS
  <2> QED
      BY <2>1 DEF AtMost, Whole
<1>11. AtMost(Whole, 0) = 0
    BY DEF AtMost, Whole
<1> QED
    BY <1>8, <1>9, <1>10, <1>11

-----------------------------------------------------------------------------
(* From texts to records *)

\* The limits of an extractor are positive numbers.
LEMMA ExtractorHasLimits ==
    ASSUME SettingsInv, Constructed
    PROVE  /\ extractor.minText \in Nat \ {0} /\ extractor.maxText \in Nat \ {0}
           /\ extractor.threshold \in Nat \ {0}
PROOF
<1>1. settings \in Config /\ extractor = ExtractorOf(settings)
    BY PossibleIsConfig DEF SettingsInv
<1>2. settings.minText \in Int /\ settings.maxText \in Int /\ settings.threshold \in Int
    BY <1>1 DEF Config
<1>3. /\ extractor.minText = OrDefault(settings.minText, 100)
      /\ extractor.maxText = OrDefault(settings.maxText, 100000)
      /\ extractor.threshold = OrDefault(settings.threshold, Percent(50))
    BY <1>1 DEF ExtractorOf
<1>4. OrDefault(settings.minText, 100) \in Nat \ {0}
    BY <1>2, DefaultsArePositive
<1>5. OrDefault(settings.maxText, 100000) \in Nat \ {0}
    BY <1>2, DefaultsArePositive
<1>6. OrDefault(settings.threshold, Percent(50)) \in Nat \ {0}
    BY <1>2, DefaultsArePositive, HalfIsPositive
<1> QED
    BY <1>3, <1>4, <1>5, <1>6

\* A text within the limit.
Bounded == text \in Seq(Passage) /\ LineRunes * Lines(text) <= extractor.maxText

\* A text of an HTML page has nothing of what its extractor must not take.
Chosen ==
    /\ PassagesOf(text) \subseteq Kinds(Without(Everything, Code))
    /\ extractor.removeBoilerplate /\ method # "readability" =>
          PassagesOf(text) \subseteq Kinds(Without(Everything, {"boilerplate"}))
    /\ method \in {"selector", "body"} => BestOf(doc, text)

\* What a score says of the text.
Judged ==
    /\ score \in Int
    /\ score > 0 => Lines(text) > 0
    /\ page.type = "html" /\ NoProse(Total("words", text), Total("stops", text)) =>
          score <= Percent(20)

Reading == {"html", "main", "links", "metadata", "score", "plain", "xml", "filter"}

ContentInv ==
    /\ phase \in Reading => page \in Page
    /\ phase \in {"plain", "xml"} => doc = Everything
    /\ phase \in {"links", "metadata", "score"} => Bounded /\ Chosen
    /\ phase = "filter" => Bounded /\ Judged /\ (page.type = "html" => Chosen)
    /\ RecordsAreContent

\* Before a page is read there is no record.
LEMMA ContentInit == Init => ContentInv
PROOF
    BY DEF Init, ContentInv, RecordsAreContent, Reading

\* What is cut from passages of a page is bounded, and has no others.
LEMMA CleanFits ==
    ASSUME NEW content \in Seq(Passage), extractor.maxText \in Nat \ {0}
    PROVE  /\ Clean(content) \in Seq(Passage)
           /\ LineRunes * Lines(Clean(content)) <= extractor.maxText
           /\ PassagesOf(Clean(content)) \subseteq PassagesOf(content)
PROOF
    BY TruncateFits DEF Clean

\* Readability's article has no code.
LEMMA ArticleHasNoCode ==
    ASSUME page \in Page
    PROVE  Article \in Seq(Passage) /\ PassagesOf(Article) \subseteq Kinds(Without(Everything, Code))
PROOF
<1>1. Article \in Seq(Passage) /\ PassagesOf(Article) = Kinds(page.article)
    BY TextsElements DEF Article
<1>2. page.article \subseteq Without(Everything, Code)
    BY DEF Page, Without, Within, Everything
<1> QED
    BY <1>1, <1>2 DEF Kinds

\* Kinds of pieces left after a removal are kinds left after a smaller one.
LEMMA KindsShrink ==
    ASSUME NEW few, NEW many, few \subseteq many
    PROVE  Kinds(Without(Everything, many)) \subseteq Kinds(Without(Everything, few))
PROOF
<1>1. Without(Everything, many) \subseteq Without(Everything, few)
    BY DEF Without, Within
<1> QED
    BY <1>1 DEF Kinds

\* Each way of choosing a text takes what it may.
LEMMA ChoiceIsContent ==
    ASSUME SettingsInv, LinksInv, ContentInv,
           ExtractWithReadability \/ ExtractMainContent \/ ExtractAllText
    PROVE  ContentInv'
PROOF
<1>1. /\ phase = "main" /\ phase' = "links" /\ page' = page /\ record' = record
      /\ extractor' = extractor /\ page \in Page /\ doc = Everything /\ record = {}
    BY DEF ExtractWithReadability, ExtractMainContent, ExtractAllText, LinksInv, ContentInv,
           setupVars, Reading
<1>2. extractor.maxText \in Nat \ {0} /\ extractor.minText \in Int
    BY <1>1, ExtractorHasLimits DEF Constructed
<1>3. PICK some : some = IF extractor.removeBoilerplate THEN {"boilerplate"} ELSE {}
    OBVIOUS
<1> DEFINE Takes(content) ==
            /\ PassagesOf(content) \subseteq Kinds(Without(Everything, Code))
            /\ extractor.removeBoilerplate /\ method' # "readability" =>
                  PassagesOf(content) \subseteq Kinds(Without(Everything, {"boilerplate"}))
<1>4. ASSUME NEW areas, Code \subseteq areas, some \subseteq areas, NEW content,
             PassagesOf(content) \subseteq Kinds(Without(Everything, areas))
      PROVE  Takes(content)
    BY <1>3, <1>4, KindsShrink
<1>5. ASSUME NEW content \in Seq(Passage), Takes(content), text' = Clean(content),
             method' \in {"selector", "body"} => BestOf(doc', text')
      PROVE  ContentInv'
  <2>1. /\ text' \in Seq(Passage) /\ LineRunes * Lines(text') <= extractor.maxText
        /\ PassagesOf(text') \subseteq PassagesOf(content)
      BY <1>2, <1>5, CleanFits
  <2>2. Takes(text')
      BY <1>5, <2>1
  <2>3. Bounded'
      BY <1>1, <2>1 DEF Bounded
  <2>4. BestOf(doc, text)' <=> BestOf(doc', text')
      BY <1>1 DEF BestOf, Selected, Texts, Within, Clean
  <2>5. /\ Kinds(Without(Everything, Code))' = Kinds(Without(Everything, Code))
        /\ Kinds(Without(Everything, {"boilerplate"}))'
             = Kinds(Without(Everything, {"boilerplate"}))
      BY <1>1 DEF Kinds, Without, Within, Everything
  <2>6. Chosen'
      BY <1>1, <1>5, <2>2, <2>4, <2>5 DEF Chosen
  <2> QED
      BY <1>1, <2>3, <2>6 DEF ContentInv, RecordsAreContent
<1>6. CASE ExtractWithReadability
  <2>1. method' = "readability" /\ text' = Clean(Article)
      BY <1>6 DEF ExtractWithReadability
  <2>2. Article \in Seq(Passage) /\ Takes(Article)
      BY <1>1, <2>1, ArticleHasNoCode
  <2> QED
      BY <1>5, <2>1, <2>2
<1>7. CASE ExtractMainContent
  <2> DEFINE areas == Code \union {"template"} \union some
             best == BestSelector(doc')
             content == IF best = 0 THEN Texts(doc') ELSE Selected(doc', Selectors[best])
  <2>1. doc' = Without(Everything, areas)
      BY <1>1, <1>3, <1>7 DEF ExtractMainContent, Stripped
  <2>2. text' = Clean(content)
      BY <1>7 DEF ExtractMainContent
  <2>3. best \in {0} \union DOMAIN Selectors /\ BestOf(doc', Clean(content))
      BY <1>1, <1>2, BestSelectorIsBest
  <2>4. content \in Seq(Passage) /\ PassagesOf(content) \subseteq Kinds(doc')
    <3>1. Texts(doc') \in Seq(Passage) /\ PassagesOf(Texts(doc')) \subseteq Kinds(doc')
        BY <1>1, TextsElements
    <3>2. ASSUME best # 0
          PROVE  /\ Selected(doc', Selectors[best]) \in Seq(Passage)
                 /\ PassagesOf(Selected(doc', Selectors[best])) \subseteq Kinds(doc')
      <4>1. Selectors[best] \in Seq(Area)
        <5> HIDE DEF best
        <5> QED
            BY <2>3, <3>2, SelectorsAreLists
      <4> HIDE DEF best
      <4> QED
          BY <1>1, <4>1, SelectedElements
    <3> HIDE DEF best
    <3> QED
        BY <3>1, <3>2
  <2>5. Code \subseteq areas /\ some \subseteq areas
      OBVIOUS
  <2> HIDE DEF areas, content, best
  <2>6. Takes(content)
      BY <1>4, <2>1, <2>4, <2>5
  <2> QED
      BY <1>5, <2>2, <2>3, <2>4, <2>6
<1>8. CASE ExtractAllText
  <2> DEFINE areas == Code \union some
  <2>1. doc' = Without(Everything, areas) /\ method' = "full" /\ text' = Clean(Texts(doc'))
      BY <1>1, <1>3, <1>8 DEF ExtractAllText
  <2>2. Code \subseteq areas /\ some \subseteq areas
      OBVIOUS
  <2> HIDE DEF areas
  <2>3. Texts(doc') \in Seq(Passage) /\ PassagesOf(Texts(doc')) \subseteq Kinds(doc')
      BY <1>1, TextsElements
  <2>4. Takes(Texts(doc'))
      BY <1>4, <2>1, <2>2, <2>3
  <2> QED
      BY <1>5, <2>1, <2>3, <2>4
<1> QED
    BY <1>6, <1>7, <1>8

\* A text that was judged and reaches the threshold makes a record of content.
LEMMA JudgementIsContent ==
    ASSUME SettingsInv, LinksInv, ContentInv, RejectContent \/ AcceptContent
    PROVE  ContentInv'
PROOF
<1>1. /\ phase = "filter" /\ phase' = "done" /\ page' = page /\ doc' = doc /\ text' = text
      /\ method' = method /\ extractor' = extractor /\ record = {}
    BY DEF RejectContent, AcceptContent, contentVars, setupVars, LinksInv
<1>2. Bounded /\ Judged /\ (page.type = "html" => Chosen) /\ page \in Page
    BY <1>1 DEF ContentInv, Reading
<1>3. extractor.threshold \in Nat \ {0}
    BY <1>1, ExtractorHasLimits DEF Constructed
<1>4. CASE RejectContent
    BY <1>1, <1>4 DEF RejectContent, ContentInv, RecordsAreContent, Reading
<1>5. CASE AcceptContent
  <2>1. /\ record' = {[title |-> title, text |-> text, language |-> language, score |-> score]}
        /\ ~(score < extractor.threshold)
      BY <1>5 DEF AcceptContent, BelowThreshold
  <2>2. \A written \in record' : written.text = text /\ written.score = score
      BY <2>1
  <2>3. /\ Lines(text) > 0 /\ LineRunes * Lines(text) <= extractor.maxText
        /\ score >= extractor.threshold
      BY <1>2, <1>3, <2>1 DEF Judged, Bounded
  <2>4. ASSUME page.type = "html"
        PROVE  /\ PassagesOf(text) \subseteq PassagesOf(Texts(Without(Everything, Code)))
               /\ extractor.removeBoilerplate /\ method # "readability" =>
                     PassagesOf(text)
                         \subseteq PassagesOf(Texts(Without(Everything, {"boilerplate"})))
               /\ extractor.threshold > Percent(20) =>
                     ~NoProse(Total("words", text), Total("stops", text))
               /\ method \in {"selector", "body"} => BestChosen(text)
    <3>1. Chosen
        BY <1>2, <2>4
    <3>2. /\ PassagesOf(Texts(Without(Everything, Code))) = Kinds(Without(Everything, Code))
          /\ PassagesOf(Texts(Without(Everything, {"boilerplate"})))
               = Kinds(Without(Everything, {"boilerplate"}))
        BY <1>2, TextsElements
    <3>3. BestChosen(text) <=> BestOf(doc, text)
        BY DEF BestChosen, BestOf
    <3>4. Percent(20) \in Int
        BY DEF Percent, Whole
    <3>5. extractor.threshold > Percent(20) =>
            ~NoProse(Total("words", text), Total("stops", text))
        BY <1>2, <1>3, <2>3, <2>4, <3>4 DEF Judged
    <3> QED
        BY <3>1, <3>2, <3>3, <3>5 DEF Chosen
  <2>5. /\ PassagesOf(Texts(Without(Everything, Code)))'
             = PassagesOf(Texts(Without(Everything, Code)))
        /\ PassagesOf(Texts(Without(Everything, {"boilerplate"})))'
             = PassagesOf(Texts(Without(Everything, {"boilerplate"})))
      BY <1>1 DEF PassagesOf, Texts, Without, Within, Everything
  <2>6. ASSUME NEW content PROVE BestChosen(content)' <=> BestChosen(content)
      BY <1>1 DEF BestChosen, Selected, Texts, Within, Clean
  <2>7. RecordsAreContent'
      BY <1>1, <2>2, <2>3, <2>4, <2>5, <2>6 DEF RecordsAreContent
  <2> QED
      BY <1>1, <2>7 DEF ContentInv, Reading
<1> QED
    BY <1>4, <1>5

\* A text of plain or XML is bounded, and has no score if it is empty.
LEMMA OtherTextsAreContent ==
    ASSUME SettingsInv, LinksInv, ContentInv, ExtractPlainText \/ ExtractXML
    PROVE  ContentInv'
PROOF
<1>1. /\ phase \in {"plain", "xml"} /\ phase' = "filter" /\ page' = page /\ record' = record
      /\ extractor' = extractor /\ page \in Page /\ record = {} /\ page.type # "html"
      /\ text' = Clean(Texts(doc)) /\ paragraphs' = ParagraphsOf(text')
    BY DEF ExtractPlainText, ExtractXML, LinksInv, ContentInv, setupVars, Reading
<1>2. extractor.maxText \in Nat \ {0} /\ extractor.minText \in Nat \ {0}
    BY <1>1, ExtractorHasLimits DEF Constructed
<1>3. text' \in Seq(Passage) /\ LineRunes * Lines(text') <= extractor.maxText
    BY <1>1, <1>2, TextsElements, CleanFits
<1>4. paragraphs' \in Nat /\ (text' = <<>> => paragraphs' = 0)
  <2>1. Len(text') \in Nat /\ (text' = <<>> => Len(text') = 0)
      BY <1>3
  <2> QED
      BY <1>1, <2>1 DEF ParagraphsOf, AtMost
<1>5. score' \in Int /\ (score' > 0 => Lines(text') > 0)
  <2>1. CASE ExtractPlainText
    <3>1. score' = ScorePlainText(text', extractor.minText, paragraphs')
        BY <2>1 DEF ExtractPlainText
    <3> QED
        BY <1>2, <1>3, <1>4, <3>1, PlainTextScore
  <2>2. CASE ExtractXML
    <3>1. score' = ScoreXML(text', extractor.minText, paragraphs')
        BY <2>2 DEF ExtractXML
    <3> QED
        BY <1>2, <1>3, <1>4, <3>1, XMLScore
  <2> QED
      BY <2>1, <2>2
<1>6. Bounded' /\ Judged'
    BY <1>1, <1>3, <1>5 DEF Bounded, Judged
<1> QED
    BY <1>1, <1>6 DEF ContentInv, RecordsAreContent, Reading

\* Whatever is read of a page besides its text, the text stays what it is, and the
\* score says what it should of it.
LEMMA ReadingKeepsContent ==
    ASSUME SettingsInv, LinksInv, ContentInv, ReadLinks \/ ReadMetadata \/ CalculateQualityScore
    PROVE  ContentInv'
PROOF
<1>1. /\ page' = page /\ doc' = doc /\ method' = method /\ text' = text /\ record' = record
      /\ extractor' = extractor /\ phase \in {"links", "metadata", "score"}
      /\ phase' \in {"metadata", "score", "filter"}
    BY DEF ReadLinks, ReadMetadata, CalculateQualityScore, setupVars
<1>2. page \in Page /\ Bounded /\ Chosen /\ record = {}
    BY <1>1 DEF ContentInv, LinksInv, Reading
<1>3. Bounded' /\ Chosen'
  <2>1. Bounded'
      BY <1>1, <1>2 DEF Bounded
  <2>2. BestOf(doc, text)' <=> BestOf(doc, text)
      BY <1>1 DEF BestOf, Selected, Texts, Within, Clean
  <2>3. /\ Kinds(Without(Everything, Code))' = Kinds(Without(Everything, Code))
        /\ Kinds(Without(Everything, {"boilerplate"}))'
             = Kinds(Without(Everything, {"boilerplate"}))
      BY <1>1 DEF Kinds, Without, Within, Everything
  <2> QED
      BY <1>1, <1>2, <2>1, <2>2, <2>3 DEF Chosen
<1>4. phase' = "filter" => Judged'
  <2> SUFFICES ASSUME phase' = "filter" PROVE Judged'
      OBVIOUS
  <2>1. score' = ScoreContentQuality(text, method = "readability", paragraphs, title = "given")
      BY DEF ReadLinks, ReadMetadata, CalculateQualityScore
  <2>2. text \in Seq(Passage)
      BY <1>2 DEF Bounded
  <2>3. /\ score' \in Int /\ (score' > 0 => Lines(text) > 0)
        /\ NoProse(Total("words", text), Total("stops", text)) => score' <= Percent(20)
      BY <2>1, <2>2, QualityScore
  <2> QED
      BY <1>1, <2>3 DEF Judged
<1> QED
    BY <1>1, <1>2, <1>3, <1>4 DEF ContentInv, RecordsAreContent, Reading

\* Every step leaves a record with content.
LEMMA ContentInvariance == SettingsInv /\ LinksInv /\ ContentInv /\ [Next]_vars => ContentInv'
PROOF
<1> SUFFICES ASSUME SettingsInv, LinksInv, ContentInv, [Next]_vars PROVE ContentInv'
    OBVIOUS
<1>1. CASE LoadConfig \/ ApplyFlags \/ NewCoordinator
  <2>1. /\ phase \in {"load", "flags", "construct"}
        /\ phase' \in {"refused", "flags", "construct", "idle"}
        /\ record' = record
      BY <1>1 DEF LoadConfig, ApplyFlags, NewCoordinator
  <2> QED
      BY <2>1 DEF LinksInv, ContentInv, RecordsAreContent, Reading
<1>2. CASE Refused \/ UNCHANGED vars
  <2>1. UNCHANGED vars
      BY <1>2 DEF Refused
  <2>2. /\ page' = page /\ doc' = doc /\ method' = method /\ text' = text /\ record' = record
        /\ extractor' = extractor /\ phase' = phase /\ score' = score
      BY <2>1 DEF vars, contentVars, setupVars
  <2>3. BestOf(doc, text)' <=> BestOf(doc, text)
      BY <2>2 DEF BestOf, Selected, Texts, Within, Clean
  <2>4. /\ Kinds(Without(Everything, Code))' = Kinds(Without(Everything, Code))
        /\ Kinds(Without(Everything, {"boilerplate"}))'
             = Kinds(Without(Everything, {"boilerplate"}))
      BY <2>2 DEF Kinds, Without, Within, Everything
  <2>5. Chosen' <=> Chosen
      BY <2>2, <2>3, <2>4 DEF Chosen
  <2>6. (Bounded' <=> Bounded) /\ (Judged' <=> Judged)
      BY <2>2 DEF Bounded, Judged
  <2>7. RecordsAreContent' <=> RecordsAreContent
    <3>1. ASSUME NEW content PROVE BestChosen(content)' <=> BestChosen(content)
        BY <2>2 DEF BestChosen, Selected, Texts, Within, Clean
    <3>2. /\ PassagesOf(Texts(Without(Everything, Code)))'
               = PassagesOf(Texts(Without(Everything, Code)))
          /\ PassagesOf(Texts(Without(Everything, {"boilerplate"})))'
               = PassagesOf(Texts(Without(Everything, {"boilerplate"})))
        BY <2>2 DEF PassagesOf, Texts, Without, Within, Everything
    <3> QED
        BY <2>2, <3>1, <3>2 DEF RecordsAreContent
  <2> QED
      BY <2>2, <2>5, <2>6, <2>7 DEF ContentInv, Everything
<1>3. CASE CreateExtractor
  <2>1. PICK fetched \in Offered(engine, limits) :
          /\ page' = fetched /\ doc' = Parsed(fetched)
          /\ phase' = IF fetched.empty THEN "failed" ELSE fetched.type
      BY <1>3 DEF CreateExtractor
  <2>2. phase = "idle" /\ record' = record
      BY <1>3 DEF CreateExtractor
  <2>3. fetched \in Page
      BY <2>1, <2>2, OfferedAssumption DEF SettingsInv, Constructed
  <2>4. fetched.type \in {"html", "plain", "xml"}
      BY <2>3 DEF Page, Fetched
  <2>5. doc' = Everything'
      BY <2>1 DEF Parsed, Everything
  <2> QED
      BY <2>1, <2>2, <2>3, <2>4, <2>5 DEF LinksInv, ContentInv, RecordsAreContent, Reading
<1>4. CASE ReadTitle
  <2>1. phase = "html" /\ phase' = "main" /\ page' = page /\ record' = record
      BY <1>4 DEF ReadTitle
  <2> QED
      BY <2>1 DEF LinksInv, ContentInv, RecordsAreContent, Reading
<1>5. CASE FailExtraction
  <2>1. phase = "failed" /\ phase' = "done" /\ record' = record
      BY <1>5 DEF FailExtraction
  <2> QED
      BY <2>1 DEF LinksInv, ContentInv, RecordsAreContent, Reading
<1>6. CASE NextJob
    BY <1>6 DEF NextJob, ContentInv, RecordsAreContent, Reading
<1> QED
    BY <1>1, <1>2, <1>3, <1>4, <1>5, <1>6, ChoiceIsContent, ReadingKeepsContent,
       OtherTextsAreContent, JudgementIsContent
    DEF Next, ProcessHTML

\* A record has a text within the limit that reaches the threshold, and, of an HTML
\* page, nothing of code, boilerplate or labels that should not be in it, from the area
\* that scores best (HTMLContentExtractor, TextExtractor, XMLExtractor, ProcessJob and
\* ResultToRecord together).
THEOREM RecordsAreContentHolds == Spec => []RecordsAreContent
PROOF
<1>1. ContentInv => RecordsAreContent
    BY DEF ContentInv
<1> QED
    BY <1>1, SettingsInit, SettingsInvariance, LinksInit, LinksInvariance, ContentInit,
       ContentInvariance, PTL DEF Spec
=============================================================================
