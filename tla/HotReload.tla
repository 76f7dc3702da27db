----------------------------- MODULE HotReload -----------------------------
(***************************************************************************)
(* What both of the program's hot reloads promise whoever uses the loaded  *)
(* value, a TLS handshake (CertReloader) or a request (GatewayReload):     *)
(* before the first load there is nothing to use, from then on there is    *)
(* always some version that was published as a whole, and it is never      *)
(* replaced by an older one.  How a load reads, checks and installs a      *)
(* version, and how often it fails, does not show.                         *)
(***************************************************************************)
EXTENDS Integers

VARIABLES
    published,  \* the version published last
    served      \* the version in use, 0 before the first load

hotVars == <<published, served>>

Init == published = 1 /\ served = 0

Publish == published' > published /\ UNCHANGED served

\* A load installs a version that is at least as new as the one in use.
Load ==
    /\ served' \in 1..published
    /\ served' >= served
    /\ UNCHANGED published

Spec == Init /\ [][Publish \/ Load]_hotVars
=============================================================================
