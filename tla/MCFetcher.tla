------------------------------ MODULE MCFetcher ------------------------------
(***************************************************************************)
(* Small instances of Fetcher: two jobs that start on one host and may be  *)
(* redirected to a second one, which forbids a page, and to another port   *)
(* of the first; two names that share one lock.                            *)
(***************************************************************************)
EXTENDS Fetcher

CONSTANTS j1, j2, u1, u2, u3, h1, h1port, h2, n1, n2, s1, l1, l2, l3, l4, l5

MCCaller == {j1, j2}
MCURL == {u1, u2, u3}
MCHost == {h1, h1port, h2}
MCHostOf == [u \in MCURL |-> CASE u = u1 -> h1 [] u = u2 -> h2 [] u = u3 -> h1port]
MCName == {n1, n2}
MCNameOf == [h \in MCHost |-> IF h = h2 THEN n2 ELSE n1]
MCShard == {s1}
MCShardOf == [n \in MCName |-> s1]

Slow == [disallow |-> {}, delay |-> 2]
SlowAndClosed == [disallow |-> {u2}, delay |-> 2]
MCServed == [h \in MCHost |-> IF h = h2 THEN {SlowAndClosed} ELSE {Slow}]
MCLimiter == {l1, l2, l3, l4, l5}

SameStart == [j \in MCCaller |-> u1]
MCRedirects == [u \in MCURL |-> CASE u = u1 -> {u2, u3} [] u = u2 -> {u1} [] u = u3 -> {u1, u2}]
FewReplies == {"page", "redirect", "transient"}
BusyOnly == {"page", "busy"}
=============================================================================
