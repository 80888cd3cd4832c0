-------------------------------- MODULE Hosts --------------------------------
(***************************************************************************)
(* What the politeness of the crawler is about: the goroutines that want   *)
(* to reach URLs, and the host, with its port, of each URL.                *)
(***************************************************************************)
CONSTANTS Caller, URL, Host, HostOf

ASSUME HostsAssumption == HostOf \in [URL -> Host]
=============================================================================
