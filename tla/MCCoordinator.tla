--------------------------- MODULE MCCoordinator ---------------------------
(***************************************************************************)
(* Small instances of Coordinator: three URLs, one of them written in two  *)
(* ways, and one raw URL out of scope.                                     *)
(***************************************************************************)
EXTENDS Coordinator

CONSTANTS a, b, c, aAlias, outOfScope, t1, t2, t3, en, de, none

MCURL == {a, b, c}
MCRaw == {a, b, c, aAlias, outOfScope}
MCNormalize == [raw \in MCRaw |-> IF raw = aAlias THEN a ELSE raw]

PageOf(pageLinks, text, lang) == [links |-> pageLinks, text |-> text, lang |-> lang]
Plain(pageLinks) == PageOf(pageLinks, none, none)

\* A cycle with an alias, for the discovery loop; c is one or two links away,
\* and has the text of a.
LinkedWeb == [url \in MCURL |->
    CASE url = a -> {PageOf(<<b>>, t1, none), PageOf(<<b, c>>, t1, none)}
      [] url = b -> {Plain(<<aAlias, c>>)}
      [] url = c -> {PageOf(<<outOfScope, b>>, t1, none)}]

\* Pages without links whose texts repeat or are near, for the output filters.
TextWeb == [url \in MCURL |->
    CASE url = a -> {PageOf(<<>>, t1, de), PageOf(<<>>, t1, none)}
      [] url = b -> {PageOf(<<>>, t1, en), PageOf(<<>>, t2, en), Plain(<<c>>)}
      [] url = c -> {PageOf(<<>>, t1, en), PageOf(<<>>, t2, de), PageOf(<<>>, t3, en)}]
\* t2 and t3 are near t1, but not near each other.
MCNear == {<<t, t>> : t \in {t1, t2, t3}}
              \union {<<t1, t2>>, <<t2, t1>>, <<t1, t3>>, <<t3, t1>>}

SeedOf(raw) == [raw |-> raw, priority |-> SeedPriority]
ListedBy(raw) == [raw |-> raw, priority |-> SitemapPriority]
OneSeed == <<SeedOf(a)>>
SeedAndSitemap == <<SeedOf(aAlias), ListedBy(b), ListedBy(a), ListedBy(c)>>
AllSeeds == <<SeedOf(a), SeedOf(b), SeedOf(c)>>

NoCheckpoint == {<<>>}
SavedRetry == {<<>>, <<[url |-> c, depth |-> 1, attempt |-> 1,
                         priority |-> DiscoveredPriority]>>}
FreshStore == {{}}
SomeStores == {{}, {b}}
BothFailures == {"failed", "retryable"}
OnlyRetryable == {"retryable"}
NoFailures == {}
AllLangs == {}
KeepEnglish == {en}
MCText == {t1, t2, t3}
MCLang == {en, de}
=============================================================================
