------------------------------ MODULE Settings ------------------------------
(***************************************************************************)
(* What a crawl makes of its settings: the validation of a loaded          *)
(* configuration (internal/config/config.go), the overrides of the command *)
(* (cmd/crawler/main.go), and the values NewCoordinator, NewCrawlerEngine, *)
(* GetRateLimiter and ExtractorConfigFromContent derive from them, which   *)
(* the other modules take as constants.                                    *)
(***************************************************************************)
EXTENDS Quality

CONSTANT Cores      \* runtime.NumCPU()

ASSUME CoresAssumption == Cores \in Nat \ {0}

\* Config, as far as a crawl depends on it; a caller may put any numbers there.
\* rest says whether the rules hold that are about values left out here: the
\* details of a storage type, monitoring, security, ...
Config ==
    [maxPages: Int, maxDepth: Int, workers: Int, requestTimeout: Int,
     globalRate: Int, globalBurst: Int, perHostRate: Int, perHostBurst: Int,
     minText: Int, maxText: Int, threshold: Int, removeBoilerplate: BOOLEAN,
     extractMainContent: BOOLEAN, normalizeWhitespace: BOOLEAN, storage: STRING,
     queueCapacity: Int, cacheDuration: Int, waitStrategy: STRING,
     waitSelector: BOOLEAN, renderTimeout: Int, maxSubresources: Int, rest: BOOLEAN]

\* -workers and -max-pages, zero if they are not given.
FlagValues == [workers: Int, maxPages: Int]

Positive(value) == value > 0
Fraction(value) == value \in 0..Whole

\* The rules of ValidateConfig.
TextLimitsAgree(settings) == settings.minText >= 0 /\ settings.maxText > settings.minText

RendererReady(settings) ==
    /\ settings.waitStrategy \in {"load", "networkidle", "selector"}
    /\ settings.waitStrategy = "selector" => settings.waitSelector
    /\ Positive(settings.renderTimeout)
    /\ settings.maxSubresources >= 0

Valid(settings) ==
    /\ Positive(settings.maxPages) /\ settings.maxDepth >= 0
    /\ Positive(settings.workers) /\ Positive(settings.requestTimeout)
    /\ TextLimitsAgree(settings) /\ Fraction(settings.threshold)
    /\ settings.storage \in {"file", "postgres", "badger", "s3"}
    /\ Positive(settings.queueCapacity)
    /\ Positive(settings.cacheDuration)
    /\ RendererReady(settings)
    /\ settings.workers <= settings.queueCapacity
    /\ settings.rest

\* Nothing looks at the settings again.
Overridden(settings, flags) ==
    [settings EXCEPT
        !.workers = IF Positive(flags.workers) THEN flags.workers ELSE @,
        !.maxPages = IF Positive(flags.maxPages) THEN flags.maxPages ELSE @]

\* The form of every default of a constructor.
AsGiven(value, default) == value
OrDefault(value, default) == IF Positive(value) THEN value ELSE default

Between(low, value, high) ==
    IF value < low THEN low ELSE AtMost(high, value)

\* NewCrawlerEngine, and the limits of a new host in GetRateLimiter.
EngineOf(settings) ==
    LET workers == OrDefault(settings.workers, AtMost(50, 3 * Cores))
    IN  [workers |-> workers,
         jobs |-> Between(50, 10 * workers, 1000),
         results |-> Between(25, 5 * workers, 500),
         requestTimeout |-> OrDefault(settings.requestTimeout, 30),
         globalRate |-> OrDefault(settings.globalRate, 5),
         globalBurst |-> OrDefault(settings.globalBurst, 10),
         perHostRate |-> OrDefault(settings.perHostRate, 3),
         perHostBurst |-> OrDefault(settings.perHostBurst, 5),
         cacheTTL |-> OrDefault(settings.cacheDuration, 24 * 3600)]

\* NewCoordinator takes its limits as they are; zero, or less, means none.  The store
\* outlives the process if it is Redis.
LimitsOf(settings) ==
    [maxPages |-> settings.maxPages, maxDepth |-> settings.maxDepth,
     maxQueue |-> settings.queueCapacity, persistent |-> settings.storage = "redis"]

\* ExtractorConfigFromContent
ExtractorOf(settings) ==
    [minText |-> OrDefault(settings.minText, 100),
     maxText |-> OrDefault(settings.maxText, 100000),
     threshold |-> OrDefault(settings.threshold, Percent(50)),
     removeBoilerplate |-> settings.removeBoilerplate,
     extractMainContent |-> settings.extractMainContent,
     normalizeWhitespace |-> settings.normalizeWhitespace]
=============================================================================
