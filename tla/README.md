# Quert: verification project

TLA+ models of the quert web crawler (`internal/`), the TLC runs that check
them on small instances, and TLAPS proofs about each of them for every value of
its constants. Every definition translates code; `PROJECT.json` maps it to
its lines.

## 1. The system

| component | source | state | operations |
|---|---|---|---|
| Coordinator | `crawler/coordinator.go` | heap `queue`, `inFlight`, `dispatched`, `done` and `stats` under one mutex and one condition variable; the consumer's simhash set | `Run` (resume, seed, start, feed, stop, final save), `enqueue`, `feed`, `consume`, the goroutine that turns `ctx.Done` into `done` |
| Checkpoint | `crawler/checkpoint.go`, `coordinator.go:301-404` | `path`, `path.tmp` | `saveCheckpoint` (write, rename) by `checkpointLoop` and by `Run`, `loadCheckpoint`, `resumeFromCheckpoint` |
| Engine | `crawler/worker.go` | channels `Jobs`, `Results`, `UserResults`; `Running` and its RWMutex; the engine context | `Start`, `SubmitJob`, `Worker`, `ResultProcessor`, `Stop` |
| Host limiters | `worker.go:1117-1314` | map host to limiter and last use; each limiter's rate and burst | `GetRateLimiter`, `applyCrawlDelay`, `evictLimitersLocked`, `cleanupRateLimiters` |
| Robots | `robots/parser.go` | cache by host without port, 256 lock shards | `IsAllowed`, `GetRobots`, `FetchRobotsFromServer`, expiry |
| Fetcher and HTTP client | `crawler/fetcher.go`, `client/http.go`, `worker.go:531-607,835-949` | none shared: the hop, the attempt | the gate `governHop`, the redirect loop, `HTTPClient.Do`, `ProcessJob` |
| Headless fetcher | `crawler/fetcher_headless.go` | per tab: `firstDoc`, `subCount`, status of the main frame | `Fetch`, `render`, `handlePausedRequest`, `governSubrequest` |
| Sitemaps | `crawler/sitemap.go` | none: two caps | `discoverSitemapURLs`, `fetchSitemap` |
| Links | `extractor/links.go` | none | `ExtractLinksFromDocument`, `ResolveURLUsingFrontier` |
| Sink | `crawler/sink.go`, `cmd/crawler/main.go` | the output file, the encoder's first error | `ResultToRecord`, `Write`, opening the file anew or to append |
| URL frontier | `frontier/url.go` | statistics, mutex | `Process`, `ProcessBatch`, normalization, validation, hashes |
| Stores | `storage/...` | seen keys, content hashes; memory or Redis | `IsSeen`, `MarkSeen`, `StoreHash`, `GetOriginalURL` |
| Extractors | `extractor/...`, `worker.go:887-926` | the document under extraction, from which pieces are removed | `ExtractContent` for HTML, plain text and XML, scores, the threshold, `ExtractLinks` |
| Settings | `config/`, `cmd/`, `pkg/`, constructors of the crawler | none after construction | `LoadConfig`, `ValidateConfig`, flags, `NewCoordinator`, `NewCrawlerEngine` |

**How they interact.** `Run` calls `enqueue` for seeds and sitemap URLs, pops
the heap in `feed` and calls `SubmitJob`. The job waits in `Jobs`, a worker
fetches it, plainly or in a browser tab, its result goes through `Results`, the
result processor and `UserResults` to `consume`, which enqueues the links,
accounts for the job, wakes `feed`, filters the page and writes it to the sink.
So the coordinator and the engine form a ring of bounded channels. The gates of
`SubmitJob`, of the workers and of the requests of a tab meet in the limiter
table and in the robots cache. The periodic saver reads the heap; the final
save of `Run` may overlap it.

**What is hard.** Termination is decided by a counter that two goroutines
decrease (a result, or a failed `SubmitJob`), tested by a third party parked on
a condition variable. A URL is marked seen before it is queued, and re-enters
the queue by retry, resume and rediscovery. Cancellation may fall between any
two steps. `Stop` closes channels others send on, with timeouts. Two savers
share a temporary file, and the process may die in the middle. Robots and
limiter lookups check, unlock, lock and check again, and what they found may be
evicted or expire before it is used. Every request of a tab has a handler of
its own. A text is remembered as a duplicate before it is written. An
extractor removes from a document what a later step still reads, and a value of
the settings passes validation, flags, defaults and clamps that do not know of
each other. `PROJECT.json` lists each hazard with its line and its properties.

**What makes each part correct.**

- Coordinator: `inFlight` is the number of jobs between pop and accounting; a
  run nobody cancels ends only when nothing is left; no lost wakeup; a URL is
  in one place at a time; a page settles once and reaches the sink once; the
  page cap and the queue bound hold; links are followed whatever the filters
  do; `Run` returns.
- Engine: it implements `JobService`; no send on a closed channel; an accepted
  job is answered unless the context ends; `Stop` and `SubmitJob` return.
- Checkpoint: the file is a whole snapshot or absent; a resumed crawl neither
  queues a URL twice nor fetches again what a finished run settled; an
  undisturbed run loses nothing but what was in mid-air when it was cancelled.
- Sink: no text is written twice, and the file has every text that the store
  keeps others from.
- Extractors: links survive whatever is removed and however the text is judged;
  a record holds content, from the best area, and none of what was to be removed.
- Settings: every crawl gets what the other modules take for granted.
- Gate: nothing forbidden is requested, on any hop; one limiter per host, in a
  bounded table, no faster than the crawl delay; robots.txt is fetched by one
  caller at a time and not while a copy is fresh; every fetch ends.
- Headless: one request of a tab passes ungoverned, the navigation; the
  ceiling holds; third parties' robots.txt and crawl delay are obeyed; the
  status is that of the page; every page ends.
- Frontier: one accepted URL per resource, which normalization leaves alone;
  a batch is answered whole, whatever its order.
- Discovery: bounded, complete below the caps, and what it finds is what a
  sitemap or a link refers to.

## 2. The modules

| module | models |
|---|---|
| `JobService` | abstract: what the engine promises the coordinator |
| `Coordinator` | `coordinator.go`, over `Engine == INSTANCE JobService` |
| `Engine` | `worker.go`'s pool; `Service == INSTANCE JobService WITH ...` is the refinement |
| `Checkpoint` | extends `Coordinator` with savers, inodes, crash and restart |
| `Hosts`, `Robots`, `HostLimiters` | the robots cache; the limiter table |
| `Fetcher` | extends both: jobs through `SubmitJob`'s gate and a worker's fetch |
| `Headless` | extends `Fetcher`: a tab, the handlers of its requests, the fallback |
| `Normalizer` | URLs, their normalization and validation, as operators |
| `Frontier` | extends it: `Process` and the workers of `ProcessBatch` |
| `Discovery` | extends `Normalizer`: sitemaps of a seed, links of a page |
| `Quality` | texts, and the scores of the extractors, as operators |
| `Settings` | extends it: validation, overrides and derived values, as operators |
| `Extraction` | extends it: from settings to an engine, and from fetched pages to links and records |
| `SequenceTools` | operators on sequences that `Normalizer` and `Quality` extend: selecting, joining, summing, the best of some numbers, sorting |
| `SequenceFacts` | what they do, for every sequence |
| `CoordinatorProofs`, `EngineProofs`, `CheckpointProofs`, `FetcherProofs`, `FrontierProofs`, `DiscoveryProofs`, `ExtractionProofs` | theorems about the module of that name; `FetcherProofs` is about `Headless` too; `CheckpointProofs` extends `CoordinatorProofs`, the last three `SequenceFacts` |
| `MCCoordinator`, `MCCheckpoint`, `MCEngine`, `MCFetcher`, `MCHeadless`, `MCFrontier`, `MCDiscovery`, `MCExtraction` | instances for TLC |

**Coordinator.** One action per critical section, or per stretch of code that
touches nothing shared. `main` is where `Run`'s goroutine is (`resume`, `seed`,
`feed`, `wait`, `submit`, `stop`, `join`, `returned`), `consumer` and
`canceller` are the other two. `enqueue` has two critical sections, so it is
`EnqueueProcess` (checks, and `Process` that marks seen) and `EnqueuePush`
(recheck `done`, bound, push, broadcast), with the entry in `pending` between
them. `FeedWait`, `FeedFinish` and `FeedPop` are the loop of `feed`;
`SubmitAccepted` and `SubmitRefused` the two returns of `SubmitJob`;
`ConsumerReceive`, `EnqueueChild`, `Account`, `Signal`, `Emit` the loop of
`consume` in its order. The store's failing calls are `StoreErrors`. A page is
its list of raw links, a text and a language; near texts are a relation.
Sitemap URLs are seeds of the lower priority. The heap is the set of its items,
popped at a maximum of `Before`.

**JobService and Engine.** A job is `working` until it is `ready`, once, and may
be lost only after the context is done. In `Engine` jobs are in `Jobs`, in a
worker's hand, in `Results` or being routed (all of these are `working`), then
in `UserResults` (`ready`). A send on a closed channel, which panics in Go, is
recorded in `panicked`. The timeouts of `Stop` (15 s, 10 s) and of the draining
processor (10 s) may fire at any time and are recorded in `hurried`.

**Checkpoint.** `path` and `path.tmp` name inodes, because the savers open,
truncate, write and rename independently: an open descriptor keeps writing the
inode after a rename. A file is empty between open and write. `Restart` is the
end of the process at any moment, by a crash or after `Run` returned, and keeps
or loses the store (Redis, or memory). The output file is a sequence of records
and of torn pieces. `WriteRecord` is `JSONLSink.Write`: the page that `Emit`
lets through (`writing`) becomes a record, or a piece and a `broken` encoder,
which writes nothing more, as `json.Encoder` keeps its first error. With a state
file, `Restart` appends to the output. `mishaps` records what went wrong, and
properties say which mishaps they exclude; `settled` and `adrift` are history,
what runs have settled and what was in mid-air when one ended.

**Robots, HostLimiters, Fetcher.** A lookup, a lock with its second look, a
fetch and the release are separate steps, so another caller, an expiry, an
eviction or a cleanup comes between any two. `table` is the limiter map in the
order of last use, which is what LRU eviction and the idle cleanup look at; a
rate is kept as an interval. `hop = -1` is the gate of `SubmitJob`. A request
meets a page, a redirect, another status, a retryable status, a retryable or a
permanent error, or a body that breaks off (`Reply`). Rate limiters' tokens and
backoff delays are time only and not modelled.

**Headless.** The callers of the gate are the worker (`Top`) and the requests
of its tab. `Top` passes `TopGate`, opens the tab (`Navigate`), and either
observes the loaded page (`RenderEnds`) or gives up at any moment
(`RenderFails`: an error or the timeout) and falls back to `Fetcher`'s own
steps. A page (`Pages`) says what its requests are: type, frame, after which
other request the browser makes them, by a redirect or not, and whether the
load waits for them. A paused request is `Intercept`ed by its handler in one
step, because compare-and-swap and add are all it shares, and then takes the
gate's steps one by one, robots.txt only for another host than the page's.

**Normalizer, Frontier.** A URL is a record of what `net/url` makes of it; a
path is the sequence of what its slashes separate, an element a sequence of
names joined by `%2F`. Normalization is modelled by what it does to those:
decoding, cleaning dot segments, dropping default ports, filtering and sorting
the query. `Process` holds the processor's mutex from start to end, so a call is
one action.

**Discovery.** The seed is enqueued, then its sitemaps are fetched, each of
which may fail, in the two nested loops of `discoverSitemapURLs`; what they
list is enqueued; then the links of one page. An href is known by its
components as RFC 3986 parses it (`Href`), and the prefixes the code tests are
predicates on them (`Absolute`, `RootRelative`, ...), so that what the code makes
of an href (`ResolveURLUsingFrontier`) and what the RFC makes of it (`Target`)
are two definitions that share none of their cases. `Enqueue` is `enqueue` as far as `Process`; the rest of it is
in `Coordinator`. The order in which the URLs of one source are enqueued is left
open: it decides their places in the heap, not what is seen.

**Quality, Settings, Extraction.** A text is a sequence of passages, each a
number of lines of one kind; a kind has measures (bytes, words, stopwords,
marks), which are all that the scores look at. Scores are integers in units of
1/12000. A setting is a record of the values that decide what a crawl does.
`LoadConfig`, `ApplyFlags` and `NewCoordinator` are the steps of the command; a
caller of the package takes the last one only. A page is the sequence of its
pieces, each with a passage, perhaps a link, and the areas it lies in, which is
what the selectors find; a document is the set of the positions of the pieces
that are left of it. The steps of `ExtractContent` are actions in its order,
because each reads what the one before left of the document (`doc`):
`ReadTitle`; readability, selectors or the whole text; `ReadLinks`;
`ReadMetadata`; `CalculateQualityScore`. `AcceptContent`, `RejectContent` and
`FailExtraction` are the three ends of `ProcessJob`. What readability renders is
external: any pieces that are not code, or nothing.

## 3. The runs

| run | shows | bounds |
|---|---|---|
| `Crawl` | accounting, termination test, wakeups, places, settlement, links, exact duplicates, one emission per URL, `Terminates` | 3 URLs in a cycle with a shared child, an alias and one out of scope, depth 2, 1 retry, both failures, refusal and cancellation anywhere; 115k states |
| `Capped` | `PageCap`, `FrontierBound`, `EmittedNotNear` | cap 2, queue 2, 2 retries, a seed, sitemap URLs, a saved retry, an old store, failing store; 3 texts (two near the third, not each other), 2 languages, all filters on; 1.06M |
| `Pool` | no send on closed channels, refinement of `JobService`, liveness of jobs, `Stop` and `SubmitJob` | 3 jobs, 2 submitters, 2 workers, all channels of 1 place, every timeout; 145k |
| `CrashResume` | whole file, one place, no page twice, only mid-air URLs lost, the output agrees with the store | 2 URLs linking to each other with different texts, 2 processes, 1 periodic save, cancellation or a crash at any moment, store kept or lost, saves and writes of records may fail; 1.06M |
| `Fetch` | the gate's and the fetch's properties | 2 jobs on one host that may be led to a second host or another port, 1 redirect, no client retry, 3 hosts for 2 limiters, 2 names on 1 lock, robots.txt that may not be had, 1 expiry, 1 cleanup; 502k |
| `Render` | the tab's properties | 4 pages of 4 requests (redirects, frames, scripts, images, inline data) on 2 hosts, one with a forbidden URL and a delay, ceiling 2, 1 limiter for 2 hosts, 1 client retry in the fallback; 357k |
| `Batch` | the frontier's properties | batches of 2 URLs, one from a grammar of paths of up to 3 elements, hosts, ports and queries, the other near to it, 2 workers, cancellation and store errors anywhere; 1.84M |
| `Discover` | `SitemapsComplete` (with the caps), `LinksAreTheirTargets` | 5 sitemaps that list one another, themselves and blanks, caps of 4, pages at 7 places with 1 or 2 hrefs: with and without scheme, authority, path and query, other schemes, `://` further on, malformed; 139k |
| `Extract` | `SettingsAreSound`, `LinksKept`, `RecordsAreContent` | 55 settings that differ from the defaults in one value or two, at the edges of the rules, 4 flags; HTML, plain and XML pages of 1 or 2 pieces with 5 kinds of text in up to 2 areas, 2 links, all readability results; 309k |
| `DroppedTwin`, `RacingSaves`, `BusyGivenUp` | each a statement of the repository that the code does not meet (section 6) | the smallest that shows it |

*Why the bounds are enough.* Every interleaving in question needs at most: one
URL reached in two ways (alias, shared child, cycle), one retry, and one step of
each goroutine between two of another. Channels of one place fill with the
first job, so three jobs block every sender; a cap of one or two is passed by
three URLs; two limiters for three hosts evict at every change of host; two
callers suffice for every check-lock-check race; a ceiling of two is passed by
the three requests of a page besides its navigation. The proved invariants
(section 5) need no bounds. The bounds of the model
itself are `MaxTicks`, `MaxRuns` (Checkpoint), `MaxExpiries` (Robots) and
`MaxCleanups` (HostLimiters). `MaxRedirectHops` is 10 and
`MaxClientRetries` 3 in the code, and at most 1 in the runs: the steps of a hop do not
depend on its number, except at the last. The caps on sitemaps are 20 and 5000.

*Conditions in the properties.* `InFlightAccounts` is an equality only until
cancellation, after which the engine may drop jobs. `NoSendOnClosed`
excludes a worker that outlives the fifteen seconds of `Stop`: nothing in the
code bounds such a worker, since the body of a response is read without a
deadline. `LoneSaveIsAtomic` excludes overlapping saves (`RacingSaves` is about
those). `NoPageTwice` supposes a kept store and runs that returned and saved: a
crash loses what was in flight since the last save and its pages may be fetched
again. `DelayHonoured` excludes a limiter evicted during the gate, and is
about delays that are the same in every copy of a robots.txt; it does not speak
of the burst, which a second caller may use between
`SetLimit` and `SetBurst`. `ForbiddenNotSent` and `TabObeysRobots` leave out
hosts that share a name with another port, whose robots.txt the cache may
answer instead, and URLs whose robots.txt could not be had. `OnePlace` supposes
a store that does not fail: `resumeFromCheckpoint` ignores a failed `AddURL`,
and then a resumed URL may be queued again. `OneOfEachResource` is about URLs
without escapes, empty elements, an empty path, an empty port or a bare
question mark (`/a?` is accepted beside `/a`), and calls
resources with and without a trailing slash the same, as the code does.
`LinksAreTheirTargets` compares with section 5.2.2 of RFC 3986 without the
removal of dot segments, which is left to normalization and so to
`OneOfEachResource`. It does not hold of the hrefs that `Misread` names
(section 6): of those it says only that nothing but URLs of the page's own
origin comes. `OnlyMidAirLost` is about runs that returned and saved.
`FileAgreesWithStore` is about exact duplicates with no other filter on, since
`DroppedTwin` shows what the others do; its first half (no text twice) holds
through crashes and failed writes if the store is kept, its second half (every
remembered text is in the file, on a line of its own) only without them: a
crash between hash and record loses the text. `LinksKept` lets an accepted page
lose the links of its boilerplate and templates, as the code does.
`RecordsAreContent` speaks of labels only for thresholds above the cap of 0.2.

## 4. Fairness

- `Coordinator`: weak fairness of each goroutine (with its part of `enqueue`)
  and of the engine. The Go scheduler runs what can run; the engine answers or
  loses each job, by `Pool`, if servers end their bodies.
- `Engine`: weak fairness of each submitter past its first check, of each
  worker, of the processor, and of `Stop` once called; never of a timeout.
  The reader of `UserResults` is fair only until the context ends, since the
  consumer leaves then.
- `Fetcher`: weak fairness of each job's steps; strong fairness for the lock of
  a robots shard, since Go's mutexes do not starve a waiter. It assumes servers
  answer in the end and limiters let waiters through.
- `Headless`: weak fairness of the worker and of each request (browser and
  handler). `RenderFails`, which stands for the timeout too, is never assumed:
  `RenderTimeout` may be zero.

Nobody is assumed to cancel, crash, expire or clean up.

## 5. The proofs

Eight modules hold them. All theorems are about every value of the constants
that satisfies the named assumptions of the modules, which say no more than
what the code makes sure of:

- types of the constants, and limits that are numbers;
- `InputAssumption`: no URL twice in a saved queue, since a save is a snapshot
  of a queue in which `OnePlace` holds;
- `WebAssumption`: being near is symmetric, as the distance of two simhashes is;
- `EngineAssumption`: channels have room, which `SettingsAreSound` proves;
- `DiskAssumption`: a file system has an inode besides any three in use;
- `EnoughAssumption`: memory has a limiter besides those of the table and of
  two for each other caller;
- `HeadlessAssumption`: the first request of a page is a document of its main
  frame at the URL of the job, and a redirect keeps its frame and type;
- `DecodeAssumption`: an escape that `URL.String` writes reads back as itself,
  and the empty name as itself, so that a second pass has nothing to decode;
- `MeasureAssumption`: lines have a length, and no more stopwords than words;
- `DiscoveryAssumption`, `SettingsAssumption`, `OfferedAssumption`,
  `FrontierAssumption`: the inputs are documents, settings, pages and batches.

Theorems that need more say so: `~StoreErrors` (the store answers),
`SameDelay`, and for `OnlyMidAirLost` an unbounded frontier and an empty store.
The properties themselves name their other conditions (section 3). Every
invariant and every safety action property of the passing runs is a theorem.

**`SequenceFacts`** has what the last three modules need of folds, sums and
sorting. The induction theorems of the library take an operator, which the
provers cannot instantiate, so `LeastNumber` gets the least counterexample from
`WFMin`, which takes a set, and `Induction` has the set of the numbers with the
property in its place. A fold is then followed from prefix to prefix
(`Iterations`, `Foldings`). `SortBy` counts for each place what comes before
it; it stands where the model could have had `SortSeq` of `TLC`, of which
nothing can be proved. `SortingExists` shows that the counts of a strict order are all
different, `SortedOneWay` that what is sorted
is left as it is by any further sorting, and
`SameBagSorted` that sequences with the same elements, each as often, are
sorted alike. `OneListing` says the same of subsequences.

**`CoordinatorProofs`**: `TypeOK`, `PageCap`, `NoLostWakeup`, `CompleteEnd`,
`SettledOnce`, `FrontierBound`, `LinksFollowed`, `EmittedDistinct` and
`EmittedNotNear`; with `~StoreErrors` also `OnePlace`, `InFlightAccounts` and
`SunkOnce`. These are all the safety properties of the runs `Crawl` and `Capped`.

`TypeOK` is inductive by itself. `CompleteEnd` is not: a run ends when
`inFlight = 0`, so one must know that `inFlight` counts what is in the
feeder's and the consumer's hands and in the engine. `CountingInv` is `TypeOK`
and `Hands` (what each goroutine holds, by where it is) and `Counted`
(finiteness, and `inFlight` at least the number of jobs under way). Its
preservation goes action by action with two lemmas on adding and removing one
element of a finite set. `PopsBelowCap` derives from it that `feed` pops only
below the cap, which gives `PageCap`. `NoLostWakeup` needs types only: every
step that can end the wait passes through `Signal` or `BroadcastCancel`, and
`feed` parks under the same mutex.

`OnePlace` needs `PlaceInv`: no two items, jobs or results anywhere between
`enqueue` and `consume` have one URL, each of those URLs is seen, a job has one
answer, and a checkpoint is loaded into an empty crawl. A URL enters the
pipeline only unseen or resumed, moves from one place to the next, and comes
back by a retry only from the consumer's hand. The equality of
`InFlightAccounts` rests on it: were a job answered twice, or two jobs equal,
the sets would have fewer elements than the counter counts; and on
`CompleteEnd`, since the engine may lose a job once it is stopped. `SunkOnce`
adds `SunkApart`: what is through is in no place, and what was seen does not
come into play again. `SettledOnce` adds that the queued retries are finite.
`FrontierBound` counts the queue without its retries.

The filters: `SunkHashed` and `SunkRemembered` say that the store, or the set
of fingerprints below its cap, has every text in the sink, and `Emit` hashes
before it gives a text away. `LinksLeft` cuts the links of the page in hand
into those gone, which have been seen, and those left.

**`EngineProofs`**: `TypeOK` (no channel above its capacity), `NoSendOnClosed`
and the refinement `Spec => ServiceSpec`. `Phases` ties the places of `Stop` to
those of the workers and submitters: `Jobs` is closed under the write lock, so
that no submitter is between its check and its send, and `Results` when all
workers have left or patience has ended. The refinement needs `PoolInv`: each
job is in one place of the pool (`Apart`), once (`Once`), a goroutine has one in
hand (`OneAtATime`), and the processor gives up only when the context is done
(`Processing`). Then each action maps to an action of `JobService` or to a
stutter: accepting, answering, losing after the context, closing.

**`CheckpointProofs`**: `OnePlace` (again, over all runs of the process),
`LoneSaveIsAtomic`, `OnlyMidAirLost`, `FileAgreesWithStore`, `NoPageTwice`, and
the type invariant. Its steps are those of `Coordinator`, a resume from the
file, a restart, and steps that leave the crawl alone (`RunSteps`), so that
the invariants of a run carry over (`RunInv`). `DiskInv`: a saver has a file
open exactly while it writes, nobody else has it, and `path.tmp` never names the
checkpoint. `SaverInv`: the final save starts when both goroutines are at their
end, so that it saves the queue there is. `LostInv`: everything seen is
settled, in play, in mid-air at a cancellation, or in the checkpoint that the next run
loads. `TwiceInv`: what is settled is in neither the checkpoint nor a place. `FileInv`:
the hash of a text is stored before its record is begun.

**`FetcherProofs`**: `ForbiddenNotSent`, `FetchedOnce`, `TableBound`,
`HeldIsShared`, the type invariant, and with `SameDelay` `DelayHonoured`.
`CacheServed` says that the cache has what a host of the name served; `Cleared`
that a job past the gate was judged by a copy of its robots.txt, or that none
was to be had, for this URL and not for that of an earlier hop. `Locked` ties the
holder of a shard to the name it fetches. `TableInv` needs that a limiter is in
one entry, and a host too, through moves to the back, evictions and cleanups of
the sequence; `LimiterInv` adds what callers hold, and that a limiter has one
host. `Tightened` follows a caller through the comparison, `SetLimit` and
`SetBurst`: others only raise the interval of its limiter, by the same delay.

Of a tab: `OnlyNavigationUngoverned`, `TabObeysRobots`, `CeilingHolds` and
`StatusIsThePages`. `HInv`: before the first
document the navigation is the only request; what is let through besides was
governed and judged; the tab is open only where the worker passed the gate.
`Counted` bounds the requests past the ceiling by `subCount`, although the
counter is raised by any number of handlers. `StatusOfMain` says whose answer
the status is.

**`FrontierProofs`**: `BatchAnswered`, for any `Normalize` and `IsValid`. `Shared`:
workers hold different indices; `Answers`: each index handled has a verdict, and
no other is touched; `SeenGrows` and `CountersAgree` relate the verdicts to the
store and to the statistics. The two other properties are about what
`Normalize` does to paths and queries of any length:

- `AcceptedIsStable`. By `Answers` an accepted URL is `Normalize` of one of the
  batch, so that `Normalize` has to be idempotent. A path whose names are decoded
  and clean is cleaned to itself, by a fold over its prefixes; a query keeps
  its place in the order, since what is sorted stays as it is.
- `OneOfEachResource`. `Resource` says by "which names does no later `..` climb
  over" what `path.Clean` does with a stack. `CleanedStays` shows that the two
  agree: `Stacks` says of each prefix that the stack lists the names that stay so far, and that
  each has as many names on it as there are more names than climbs after it.
  With `SameBagSorted` for the queries, `NormalizeTellsResources` follows: for
  plain URLs of the web, `Normalize` makes two the same exactly if they denote
  one resource. `Told` is the rest of the inductive invariant: no two
  accepted URLs are normalized alike, what is in the store was there or came from
  an answered URL, and a duplicate is a duplicate of something.

**`DiscoveryProofs`**: `SitemapsComplete` by `SitemapInv` (what is listed was
asked for or is waiting, and below the cap nothing of what was had is cut off),
and `LinksAreTheirTargets` by `LinkInv` (what is seen or about to be is what the
sources so far give) and a lemma for each kind of href: what is not misread is
resolved as section 5.2.2 of RFC 3986 does, component by component, or is of a
scheme that is not entered either way (`ReadIsTarget`); what is misread enters at
the page's origin or not at all (`MisreadStays`); what does not parse or names the
page itself does not enter (`OthersDoNotEnter`).

**`ExtractionProofs`**: `SettingsAreSound` by `SettingsInv`, with a lemma for each
constructor and one for the flags; `LinksKept` by `LinksInv`: a document is the
page without code and at most templates and boilerplate, or whole after
readability, whenever links are read. `RecordsAreContent` by `ContentInv`: from
the choice of a text to the filter it is within the limit (`TruncateFits`:
`Truncate` counts whole lines, and the sum of what it keeps is no more than the
limit), its passages are of what is left of the page (`SelectedElements`), it
is what the first of the best selectors finds (`BestSelectorIsBest`: the loop
of the code against the maximum of the property), and its score is positive only if there
is a text, and at most the cap if it is labels (`QualityScore`, over sums of
measures that are numbers).

*Only model-checked.* Liveness: `Terminates`, `EveryJobAnswered`,
`CallsReturn`, `FetchEnds` and `PageEnds`. The prover has no rule for
ENABLED and so none for fairness.

## 6. Where code and text disagree

- `DroppedTwin`: the content hash is stored before the other filters drop the
  page, so a later page with the same text is dropped too and the text is never
  emitted.
- `RacingSaves`: the periodic and the final save share `path.tmp`; an empty
  file can replace the good one, or an older snapshot the final one.
- `BusyGivenUp`: a 429 or 5xx on the client's last attempt becomes an error
  that is not retryable, so the coordinator never tries the page again.

Also seen, and not run:

- A URL in flight at cancellation is seen, and neither in the output nor in the
  checkpoint (`coordinator.go:398` saves the queue only), while
  `coordinator_test.go:479` has all pages crawled exactly once across two runs.
  Links of a page that is handled after `done` are never queued although the
  page settles. `OnlyMidAirLost` bounds the loss to these.
- `storage.type: redis` is refused by `ValidateConfig` (`config.go:505`),
  though `coordinator.go:214`, `config.go:109` and the repository's README
  expect it: the command never has a store that outlives it.
- `min_text_length: 0` and `quality_threshold: 0` are accepted and become 100
  and 0.5 (`extractor_config.go:39`); with a maximum of 50 no text reaches the
  minimum. `-workers` may pass the queue capacity, which validation forbids
  (`config.go:651`). A `max_depth` of 0 means 5 to the engine
  (`worker.go:209`) and no limit to the coordinator (`coordinator.go:421`).
- An accepted page loses the links in its boilerplate (`extractor.go:380`), a
  rejected one keeps them (`worker.go:902`: "Its links are still valuable").
- A selector that finds an element inside another counts its text twice, in
  the score and in the record (`extractor.go:404`). `ExtractAllText` keeps the
  text of templates, and the XML extractor that of scripts.
- `MinTextLength` is compared to bytes, though `extractor.go:484` says that
  limits are characters. A blank `<title>` hides the other titles
  (`extractor.go:295`). XML scores never get the points for a title. Relative
  links, and links that are the text of an element, as in RSS, are not found in
  XML.
- `quality.go:133` caps labels "below any threshold", but a threshold of 0.2 or
  less lets them through. The language defaults to "en", so that "pages with no
  detected language are kept" (`coordinator.go:586`) concerns no accepted page.

- A retry queued when the page cap is reached is never popped
  (`coordinator.go:466` tests the cap first), though it is said to bypass the
  cap (`coordinator.go:67`).
- The gate, in `governHop` and in `SubmitJob`, requests a page whose robots.txt
  could not be had (`fetcher.go:113`), while `parser.go:120` says "fail closed"
  and `fetcher_headless.go:330` "Top-level fetches fail closed". A redirect of
  robots.txt counts as such, and it is always asked for over http.
- A URL that robots.txt refuses counts as dispatched (`coordinator.go:476`,
  against the comment at line 40) and uses up the page cap.
- A link relative to the page's path is resolved against the root
  (`links.go:233`), while `worker.go:890` speaks of links that "point at where
  the page actually lives": `b` on `/a/c` becomes `/b`, and `?page=2` on `/a`
  becomes `/?page=2` (`links.go:242`). One with `://` in its query or path is
  not resolved (`links.go:247`) and is lost. `sms:`, `data:` and `JAVASCRIPT:` in
  capitals become pages of the host, since `links.go:54` names three schemes in
  small letters.
- Sitemaps are fetched past robots.txt and the host's limiter, and one that
  redirects is not read.
- `RemoveTrailingSlash` is false (`url.go:115`), yet `path.Clean` removes it.
  `http://h` and `http://h/` are two URLs. Cleaning a path turns `%2F` in it
  into a slash.
- `Rendered` stays true when the render failed and the page was fetched plainly
  (`worker.go:852`, `fetcher_headless.go:139`), against `worker.go:74`.
- A redirect hop of a render to the page's own host is not checked against
  robots.txt (`fetcher_headless.go:326`); the plain fetcher checks every hop.

## 7. Not modelled

Parsing itself (HTML, XML, robots.txt, URLs), readability and character sets:
libraries. Images and the metadata that no decision reads; the batch and
text-only calls of the extractors, which the crawl does not make. Rules of
sections of the configuration that no module reads, as more than one Boolean.
Start and end of the browser, and which hosts are rendered. `Reset`,
`UpdateConfiguration` and `NormalizeBatch` of the frontier, which nothing
calls, its limit on the length of URLs, and IPv6 literals, whose name
`ValidateDomain` cuts at the first colon (`url.go:447`). Middleware and `Post` of the HTTP
client, which the crawler does not use. Redis failover to memory at start
(`coordinator.go:214`), a choice made before the initial state; expiry in the
stores. Loss of data that was written and not synced: the code does not sync,
so a power failure may lose a checkpoint that a crash of the process does not.
`Start` and a second `Stop`, statistics, metrics, time.

## 8. Plan

1. Done: the modules above, and theorems that state every safety property of the
   passing runs (section 5).
2. The life cycle of the engine: `Start`, which sets `Running` before `Ctx`,
   and two calls of `Stop`, in `Engine`. The stores as two calls, `IsSeen` and
   `MarkSeen`, shared by two processes, in `Frontier`.
