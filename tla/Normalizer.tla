------------------------------ MODULE Normalizer ------------------------------
(***************************************************************************)
(* Normalization and validation of URLs (internal/frontier/url.go) on URLs *)
(* as net/url parses them.  A path is the sequence of what its slashes     *)
(* separate: that of "/" is one empty element, and a trailing slash is an  *)
(* empty last element.  An element is a sequence of names, more than one   *)
(* when %2F joins them.  The configuration is that of NewURLNormalizer and *)
(* NewURLValidator, which nothing changes but for the lists below; the     *)
(* limit on the length of a URL, and hosts that are IPv6 literals, are     *)
(* left out.                                                               *)
(***************************************************************************)
EXTENDS SequenceTools

CONSTANTS
    Decode,         \* Decode[name]: what the percent escapes of a name stand for, with the
                    \* escapes that URL.String gives it
    Extension,      \* Extension[name]: its file extension, "" for none
    BlockedKeys, AllowedKeys,           \* query keys; AllowedKeys = {}: all
    AllowedDomains, BlockedDomains,     \* domains, as sequences of labels
    AllowedExtensions, BlockedExtensions,
    ExcludeNames, IncludeNames,     \* patterns, each by the name it looks for
    MaxPathDepth    \* 0 is "no limit"

\* What URL.String escapes is read back as it was, and nothing as nothing.
ASSUME DecodeAssumption ==
    /\ \A name \in DOMAIN Decode :
          Decode[name] \in DOMAIN Decode /\ Decode[Decode[name]] = Decode[name]
    /\ "" \in DOMAIN Decode /\ Decode[""] = ""

Parameter == [key: Nat, value: Nat]

\* external: a parsed URL of net/url; params is its query, forceQuery a question mark
\* with none, upper says whether its scheme or host has capitals.
Url == [scheme: STRING, host: Seq(STRING), upper: BOOLEAN, port: STRING,
        path: Seq(Seq(DOMAIN Decode)), params: Seq(Parameter),
        badQuery: BOOLEAN, forceQuery: BOOLEAN, fragment: BOOLEAN]

Proper(name) == name \notin {"", ".", ".."}

-----------------------------------------------------------------------------
(* Normalization *)

RemoveDefaultPort(port, scheme) ==
    IF <<scheme, port>> \in {<<"http", "80">>, <<"https", "443">>} THEN "none" ELSE port

Decoded(path) ==
    LET names == Joined(path)
    IN  [i \in DOMAIN names |-> Decode[names[i]]]

\* Forgets what to do with a ".." that follows a ".." it resolved.
CleanedOnce(names) ==
    LET kept == Only(names, ToSet(names) \ {"", "."})
        up == SelectInSeq(kept, LAMBDA name : name = "..")
        rest == IF up = 0 THEN kept
                ELSE SubSeq(kept, 1, up - 2) \o SubSeq(kept, up + 1, Len(kept))
    IN  IF rest = <<>> THEN <<"">> ELSE rest

\* path.Clean of a rooted path: drop what is empty or ".", let ".." drop its
\* predecessor.  A trailing slash goes too; the root keeps its own.
AddName(cleaned, name) ==
    IF name = ".." /\ cleaned # <<>> THEN Front(cleaned)
    ELSE IF Proper(name) THEN Append(cleaned, name) ELSE cleaned
Cleaned(names) ==
    LET kept == FoldLeft(AddName, <<>>, names)
    IN  IF kept = <<>> THEN <<"">> ELSE kept

\* Clean works on the decoded path.  URL.String keeps the original escapes
\* only if they still spell the path; else it escapes the cleaned one anew,
\* in which an escaped slash has become a slash.
CleanPath(path) ==
    LET names == Decoded(path)
        cleaned == Cleaned(names)
    IN  IF path = <<>> \/ cleaned = names THEN path
        ELSE [i \in DOMAIN cleaned |-> <<cleaned[i]>>]

\* Encode orders by key, SortQueryParams the values of a key too.
ByKey(p, q) == p.key < q.key
ByKeyAndValue(p, q) == p.key < q.key \/ (p.key = q.key /\ p.value < q.value)
InOrder(p, q) == ByKeyAndValue(p, q)
SortQueryParams(params) ==
    SortBy(params, {pair \in Parameter \X Parameter : InOrder(pair[1], pair[2])})

\* Values are numbers in the order of the strings; 0 is the empty string.
KeptParam(param) ==
    /\ param.key \notin BlockedKeys
    /\ AllowedKeys = {} \/ param.key \in AllowedKeys
    /\ param.value # 0
KeptParams(params) == Only(params, {param \in ToSet(params) : KeptParam(param)})
processQueryParameters(params) == SortQueryParams(KeptParams(params))

\* A query that does not parse is left as it is.
Normalize(url) ==
    [url EXCEPT
        !.upper = FALSE,
        !.port = RemoveDefaultPort(@, url.scheme),
        !.path = CleanPath(@),
        !.params = IF url.badQuery THEN @ ELSE processQueryParameters(@),
        !.fragment = FALSE]

\* The same for a parsed URL, without the filters on the query.
Canonicalize(url) ==
    [url EXCEPT
        !.upper = FALSE,
        !.port = RemoveDefaultPort(@, url.scheme),
        !.path = CleanPath(@),
        !.params = IF url.badQuery THEN @ ELSE SortQueryParams(@),
        !.fragment = FALSE]

-----------------------------------------------------------------------------
(* Validation *)

Under(host, domain) == IsSuffix(domain, host)

\* The allow-list wins over the block-list, and restricts if it is not empty.  A port
\* without a host is not the empty domain, but has no name.
ValidateDomain(host, port) ==
    /\ host # <<>> \/ port # "none"
    /\ \/ \E domain \in AllowedDomains : Under(host, domain)
       \/ AllowedDomains = {} /\ \A domain \in BlockedDomains : ~Under(host, domain)

ValidateScheme(scheme) == scheme \in {"http", "https"}

\* A pattern is searched in the URL as it is written.
ValidatePatterns(path) ==
    LET names == UNION {ToSet(path[i]) : i \in DOMAIN path}
    IN  /\ names \cap ExcludeNames = {}
        /\ IncludeNames = {} \/ names \cap IncludeNames # {}

ExtractFileExtension(path) ==
    LET names == Decoded(path)
    IN  IF names = <<>> THEN "" ELSE Extension[Last(names)]
ValidateExtension(path) ==
    LET extension == ExtractFileExtension(path)
    IN  \/ extension = ""
        \/ /\ extension \notin BlockedExtensions
           /\ AllowedExtensions = {} \/ extension \in AllowedExtensions

\* Trim takes the slashes at both ends; those inside separate.
CountPathSegments(path) ==
    LET names == Decoded(path)
        filled == {i \in DOMAIN names : names[i] # ""}
    IN  Cardinality({i \in DOMAIN names :
            (\E j \in filled : j <= i) /\ (\E j \in filled : i <= j)})
ValidateDepth(path) == MaxPathDepth = 0 \/ CountPathSegments(path) <= MaxPathDepth

IsValid(url) ==
    /\ ValidateScheme(url.scheme)
    /\ ValidateDomain(url.host, url.port)
    /\ ValidatePatterns(url.path)
    /\ ValidateExtension(url.path)
    /\ ValidateDepth(url.path)

-----------------------------------------------------------------------------
(* What a URL denotes, by RFC 3986, for URLs that are spelled plainly *)

\* No escapes, no "//" in the path, a path at all, no empty port, a query
\* that parses, and something in it if there is a question mark.
Plain(url) ==
    /\ url.path # <<>> /\ url.port # "empty" /\ ~url.badQuery /\ ~url.forceQuery
    /\ \A i \in DOMAIN url.path :
          /\ Len(url.path[i]) = 1 /\ Decode[url.path[i][1]] = url.path[i][1]
          /\ i < Len(url.path) => url.path[i][1] # ""

\* A name stays unless some later ".." climbs over it: one for which the
\* names after it do not suffice.
Count(names, first, last, Test(_)) ==
    Cardinality({i \in first..last : Test(names[i])})
Stays(names, i) ==
    /\ Proper(names[i])
    /\ \A j \in i + 1..Len(names) :
          Count(names, i + 1, j, LAMBDA name : name = "..")
              <= Count(names, i + 1, j, Proper)

\* Up to a trailing slash, the order of parameters, and parameters that are
\* empty or not of interest.
Resource(url) ==
    LET names == Joined(url.path)
    IN  [scheme |-> url.scheme, host |-> url.host,
         port |-> IF url.port # "none" THEN url.port
                  ELSE CASE url.scheme = "http" -> "80"
                         [] url.scheme = "https" -> "443"
                         [] OTHER -> "unknown",
         path |-> Only([i \in DOMAIN names |-> IF Stays(names, i) THEN names[i] ELSE ""],
                       {name \in ToSet(names) : Proper(name)}),
         query |-> ToBag(KeptParams(url.params))]
=============================================================================
