------------------------------- MODULE Headless -------------------------------
(***************************************************************************)
(* A page rendered by the browser (internal/crawler/fetcher_headless.go):  *)
(* Fetch passes the gate for the page itself, opens a tab, and every       *)
(* request of the tab is paused and handed to a goroutine of its own,      *)
(* which continues it or fails it.  When the rendering fails, the plain    *)
(* fetcher of Fetcher takes over.  The callers of Robots and HostLimiters  *)
(* are the worker (Top) and the handlers of the requests.                  *)
(***************************************************************************)
EXTENDS Fetcher

CONSTANTS
    Top,            \* the worker that fetches the page
    Request,        \* the requests its tab may make
    Nav,            \* the first of them, the top-level navigation
    Pages,          \* what the requests may be, see PageRequest
    Blocked,        \* the resource types that are always failed
    MaxSubresources \* 0 is "no limit"

\* Besides its URL: its type; whether its scheme is that of a network; its
\* frame; the request after whose answer the browser makes it, by a redirect
\* or not; whether the load event waits for it.
PageRequest == [url: URL, type: {"document", "script", "image"}, network: BOOLEAN,
                frame: {"main", "sub"}, after: Request, redirected: BOOLEAN,
                awaited: BOOLEAN]

ASSUME HeadlessAssumption ==
    /\ Top \notin Request /\ Nav \in Request /\ Caller = Request \union {Top}
    /\ Pages \subseteq [Request -> PageRequest]
    /\ \A page \in Pages :
          /\ page[Nav].url = Start[Top]
          /\ page[Nav].type = "document" /\ page[Nav].frame = "main" /\ page[Nav].network
          \* A redirect stays in its frame, and a document stays one.
          /\ \A c \in Request : page[c].redirected =>
                /\ page[c].frame = page[page[c].after].frame
                /\ page[c].type = page[page[c].after].type
    /\ "document" \notin Blocked
    /\ MaxSubresources \in Nat

VARIABLES
    page,       \* what the requests of this page are
    tab,        \* whether its tab is open
    firstDoc,   \* whether the first document has passed
    subCount,   \* the requests counted against MaxSubresources
    mainFrame, status,  \* the frame of the first answered document, and the
                        \* last answer to a document of that frame
    governed    \* history: the requests continued by the governor

tabVars == <<tab, firstDoc, subCount, mainFrame, status, governed>>
gateVars == <<robotsVars, limiterVars>>
hvars == <<vars, page, tabVars>>

HInit ==
    /\ page \in Pages
    /\ RobotsInit /\ LimitersInit
    /\ at = [c \in Caller |-> IF c = Top THEN "limiter" ELSE "idle"]
    /\ url = [c \in Caller |-> IF c = Top THEN Start[c] ELSE page[c].url]
    /\ hop = [c \in Caller |-> 0] /\ attempt = [c \in Caller |-> 0]
    /\ outcome = [c \in Caller |-> "none"] /\ last = [c \in Caller |-> "none"]
    /\ unchecked = [c \in Caller |-> FALSE]
    /\ cancelled = FALSE
    /\ tab = "unopened" /\ firstDoc = FALSE /\ subCount = 0
    /\ mainFrame = "none" /\ status = "none"
    /\ governed = {}

-----------------------------------------------------------------------------
(* Fetch and render *)

\* governHop for the page, and again for the plain fetch after a failed render.
TopGate ==
    /\ GateLimiter(Top) \/ GateRobots(Top) \/ GateDelay(Top) \/ GateWait(Top)
    /\ UNCHANGED <<page, tabVars>>

Navigate ==
    /\ at[Top] = "send" /\ tab = "unopened"
    /\ tab' = "open"
    /\ at' = [at EXCEPT ![Top] = "render", ![Nav] = "paused"]
    /\ UNCHANGED <<gateVars, url, hop, attempt, outcome, unchecked, last, cancelled, page,
                   firstDoc, subCount, mainFrame, status, governed>>

MainRequests == {c \in Request : page[c].frame = "main" /\ page[c].type = "document"}
Loaded ==
    /\ \E c \in MainRequests : last[c] \notin {"none", "redirect"}
    /\ \A c \in Request : page[c].awaited => at[c] \in {"idle", "done"}
Broken == \E c \in MainRequests : outcome[c] = "failed"

\* ProcessJob: no observed status is 200, and a busy one can be retried.
Verdicts == [none |-> "ok", page |-> "ok", status |-> "failed", busy |-> "retryable"]

CloseTab ==
    /\ tab' = "closed"
    /\ UNCHANGED <<gateVars, url, hop, attempt, unchecked, last, cancelled, page,
                   firstDoc, subCount, mainFrame, status, governed>>

RenderEnds ==
    /\ at[Top] = "render" /\ Loaded
    /\ CloseTab
    /\ End(Top, Verdicts[status])

RenderFails ==
    /\ at[Top] = "render"
    /\ CloseTab
    /\ Goto(Top, "limiter")
    /\ UNCHANGED outcome

RenderBreaks == Broken /\ RenderFails

FallBack ==
    /\ tab = "closed"
    /\ Send(Top)
    /\ UNCHANGED <<page, tabVars>>

-----------------------------------------------------------------------------
(* The browser *)

Issue(c) ==
    /\ tab = "open" /\ at[c] = "idle" /\ c # Nav
    /\ LET reply == last[page[c].after]
       IN  IF page[c].redirected THEN reply = "redirect"
                                 ELSE reply \notin {"none", "redirect"}
    /\ Goto(c, "paused")
    /\ UNCHANGED <<gateVars, url, hop, attempt, outcome, unchecked, last, cancelled, page,
                   tabVars>>

\* A request that was continued is answered; the listener follows the status
\* of the documents of the main frame.
AnyFrame(c, frame) == TRUE
InFrame(c, frame) == page[c].frame = frame

Answers(c) ==
    IF page[c].type # "document" THEN {"page"}
    ELSE (Replies \intersect {"page", "status", "busy"})
            \union {"redirect" : next \in {r \in Request : page[r].after = c /\ page[r].redirected}}

Respond(c) ==
    /\ tab = "open" /\ at[c] = "send"
    /\ End(c, "ok")
    /\ \E reply \in Answers(c) :
          /\ last' = [last EXCEPT ![c] = reply]
          /\ \/ /\ page[c].type = "document" /\ reply # "redirect"
                /\ mainFrame' = IF mainFrame = "none" THEN page[c].frame ELSE mainFrame
                /\ status' = IF InFrame(c, mainFrame') THEN reply ELSE status
             \/ /\ page[c].type # "document" \/ reply = "redirect"
                /\ UNCHANGED <<mainFrame, status>>
    /\ UNCHANGED <<gateVars, url, hop, attempt, unchecked, cancelled, page, tab, firstDoc,
                   subCount, governed>>

-----------------------------------------------------------------------------
(* handlePausedRequest *)

EveryDocument(c) == page[c].type = "document"
FirstDocument(c) == page[c].type = "document" /\ ~firstDoc
BeyondCeilingLate == MaxSubresources > 0 /\ subCount > MaxSubresources
BeyondCeiling == MaxSubresources > 0 /\ subCount + 1 > MaxSubresources
Undecided == "undecided"
Denied == "done"

\* What is done with a request that is not let through.
Deny(c) == at' = [at EXCEPT ![c] = Denied] /\ outcome' = [outcome EXCEPT ![c] = "failed"]

Intercept(c) ==
    /\ at[c] = "paused"
    /\ \/ /\ FirstDocument(c)
          /\ firstDoc' = TRUE
          /\ Goto(c, "send")
          /\ UNCHANGED <<outcome, subCount>>
       \/ /\ ~FirstDocument(c) /\ page[c].type \in Blocked
          /\ Deny(c)
          /\ UNCHANGED <<firstDoc, subCount>>
       \/ /\ ~FirstDocument(c) /\ page[c].type \notin Blocked
          /\ subCount' = IF MaxSubresources > 0 THEN subCount + 1 ELSE subCount
          /\ \/ BeyondCeiling /\ Deny(c)
             \/ /\ ~BeyondCeiling
                /\ Goto(c, IF page[c].network THEN "limiter" ELSE "send")
                /\ UNCHANGED outcome
          /\ UNCHANGED firstDoc
    /\ UNCHANGED <<gateVars, url, hop, attempt, unchecked, last, cancelled, page, tab,
                   mainFrame, status, governed>>

\* governSubrequest: the steps of the gate, but only third parties are asked
\* for their robots.txt.
OfSomeFrame(c) == page[c].frame = "main"
FirstParty(c) == HostOf[url[c]] = HostOf[Start[Top]]

SubLimiter(c) == GateLimiter(c) /\ UNCHANGED <<page, tabVars>>

SubRobots(c) ==
    /\ at[c] = "robots"
    /\ \/ /\ FirstParty(c)
          /\ Goto(c, "wait")
          /\ UNCHANGED <<gateVars, url, hop, attempt, outcome, unchecked, last, cancelled>>
       \/ ~FirstParty(c) /\ GateRobots(c)
    /\ UNCHANGED <<page, tabVars>>

SubDelay(c) == GateDelay(c) /\ UNCHANGED <<page, tabVars>>

\* The tab's context ends the wait; a tab that is closed sends nothing.
SubWait(c) ==
    /\ at[c] = "wait"
    /\ LeaveGate(c)
    /\ \/ /\ tab = "open"
          /\ Goto(c, "send")
          /\ governed' = governed \union {c}
          /\ UNCHANGED outcome
       \/ /\ tab = "closed" \/ cancelled
          /\ Deny(c)
          /\ UNCHANGED governed
    /\ UNCHANGED <<url, hop, attempt, unchecked, last, cancelled, page, tab, firstDoc,
                   subCount, mainFrame, status>>

Handle(c) == Intercept(c) \/ SubLimiter(c) \/ SubRobots(c) \/ SubDelay(c) \/ SubWait(c)

HCancel == CancelAll /\ UNCHANGED <<page, tabVars>>
HDone == at[Top] = "done" /\ UNCHANGED hvars

TopNext == TopGate \/ Navigate \/ RenderEnds \/ RenderBreaks \/ FallBack
HNext ==
    \/ TopNext \/ RenderFails
    \/ \E c \in Request : Issue(c) \/ Respond(c) \/ Handle(c)
    \/ HCancel \/ HDone

HSpec == HInit /\ [][HNext]_hvars

\* Goroutines run, the browser is answered and makes the requests it can (a
\* request is in one place at a time).  No render has to run into its timeout.
HFairness ==
    /\ WF_hvars(TopNext)
    /\ \A c \in Request : WF_hvars(Issue(c) \/ Respond(c) \/ Handle(c))

HFairSpec == HSpec /\ HFairness

-----------------------------------------------------------------------------
(* Properties *)

Continued(c) == c \in Request /\ (at[c] = "send" \/ outcome[c] = "ok")

\* One request of a tab reaches the network without the governor, the
\* navigation whose URL passed the gate: no redirect hop and no frame slips
\* through in its place, in whatever order handlers run.
OnlyNavigationUngoverned ==
    \A c \in Request : Continued(c) /\ page[c].network => c = Nav \/ c \in governed

\* However the handlers of a page's requests interleave, no more of them are
\* let through than the ceiling allows.
CeilingHolds ==
    MaxSubresources > 0 =>
        Cardinality({c \in Request \ {Nav} : Continued(c)}) <= MaxSubresources

\* No third-party request of a page, redirect or frame or resource, is made
\* for a URL that its robots.txt disallows unless that could not be had; nor
\* is a page rendered whose own URL is disallowed.
TabObeysRobots ==
    \A c \in Request :
        Continued(c) /\ page[c].network /\ Alone(HostOf[url[c]]) /\ Forbidden(url[c]) =>
            IF c = Nav THEN tab # "open" \/ unchecked[Top]
                       ELSE HostOf[url[c]] = HostOf[page[Nav].url] \/ unchecked[c]

\* A rendered page ends as the answer to the last document of its main frame
\* says, never as that of a frame inside it.
StatusIsThePages ==
    [][RenderEnds =>
          \E c \in MainRequests : /\ last[c] \notin {"none", "redirect"}
                                  /\ outcome'[Top] = Verdicts[last[c]]]_hvars

\* Every page ends, rendered or fetched plainly, though no render runs into its
\* timeout: no request that the load event waits for is left undecided.
PageEnds == <>(at[Top] = "done")
=============================================================================
