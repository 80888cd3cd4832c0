------------------------------ MODULE MCHeadless ------------------------------
(***************************************************************************)
(* Pages of four requests for Headless: a navigation that may redirect to  *)
(* another host, and frames, scripts, images and inline data, on the       *)
(* page's host and on one that forbids a URL and asks for a delay.         *)
(***************************************************************************)
EXTENDS Headless

CONSTANTS top, nav, r1, r2, r3, own, ownScript, open, closed, h1, h2, s1, l1, l2, l3, l4, l5, l6, l7, l8, l9, l10

MCRequest == {nav, r1, r2, r3}
MCCaller == MCRequest \union {top}
MCURL == {own, ownScript, open, closed}
MCHost == {h1, h2}
MCHostOf == [u \in MCURL |-> IF u \in {own, ownScript} THEN h1 ELSE h2]
MCNameOf == [h \in MCHost |-> h]
MCShardOf == [n \in MCHost |-> s1]
MCServed == [h \in MCHost |-> IF h = h2 THEN {[disallow |-> {closed}, delay |-> 2]}
                                        ELSE {[disallow |-> {}, delay |-> 0]}]
MCLimiter == {l1, l2, l3, l4, l5, l6, l7, l8, l9, l10}
MCStart == [c \in MCCaller |-> own]
MCRedirects == [u \in MCURL |-> {}]

Doc(u, frame, after, redirected) ==
    [url |-> u, type |-> "document", network |-> TRUE, frame |-> frame, after |-> after,
     redirected |-> redirected, awaited |-> TRUE]
Resource(u, type, after, awaited) ==
    [url |-> u, type |-> type, network |-> TRUE, frame |-> "main", after |-> after,
     redirected |-> FALSE, awaited |-> awaited]
Inline(after) == [Resource(own, "script", after, TRUE) EXCEPT !.network = FALSE]
Top0 == Doc(own, "main", nav, FALSE)

OnPage(a, b, c) ==
    [r \in MCRequest |-> CASE r = nav -> Top0 [] r = r1 -> a [] r = r2 -> b [] r = r3 -> c]

\* A redirect followed by scripts, a page with frames, a page at the ceiling.
MCPages ==
    {OnPage(Doc(open, "main", nav, TRUE), Resource(closed, "script", r1, TRUE),
            Resource(ownScript, "script", r1, FALSE)),
     OnPage(Doc(closed, "main", nav, TRUE), Resource(open, "script", nav, TRUE), Inline(nav)),
     OnPage(Doc(open, "sub", nav, FALSE), Doc(closed, "sub", nav, FALSE),
            Resource(open, "image", r1, TRUE)),
     OnPage(Resource(open, "script", nav, TRUE), Resource(ownScript, "script", nav, FALSE),
            Resource(closed, "script", nav, TRUE))}
Images == {"image"}
MCReplies == {"page", "busy"}
=============================================================================
