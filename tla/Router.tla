------------------------------- MODULE Router -------------------------------
(***************************************************************************)
(* From a config to the service of a request: config.Parse decides which   *)
(* configs are accepted, router.Build registers a pattern per method of    *)
(* every service, and net/http's ServeMux picks a pattern for a request.   *)
(*                                                                         *)
(* A config is a sequence of services.  Field by field, "" is what is not  *)
(* set and "malformed" what hostPattern, time.ParseDuration or url.Parse   *)
(* refuse.  A path stands for the request paths that it covers (many, for  *)
(* "/orders/{id}"), and {} for none given; inexact are those of them that  *)
(* "/orders/" or "{rest...}" cover by their open end.                      *)
(***************************************************************************)
EXTENDS Integers, Sequences

CONSTANTS
    Methods,  \* of requests
    Slashed   \* a path that does not end in a slash -> the same path with one

\* A list in a config file, whatever it is a list of.
IsList(s) == s \in Seq({s[i] : i \in DOMAIN s})

ServiceAccepted(s) ==
    /\ s.name # ""
    /\ s.path # {}
    /\ s.host # "malformed"
    /\ s.originURL = "" <=> s.originURLs # << >>
    /\ \A i \in DOMAIN s.originURLs : s.originURLs[i] # ""
    /\ s.interval # "malformed"

\* The origins that buildMux gives to NewOriginProxy.
Origins(s) == IF s.originURLs = << >> THEN <<s.originURL>> ELSE s.originURLs

Parse(cfg) == \A i \in DOMAIN cfg : ServiceAccepted(cfg[i])

hasCORSPlugin(s) == \E i \in DOMAIN s.plugins : s.plugins[i].name = "cors"

\* A plausible fault: only declared methods.
DeclaredOnly(s) == IF s.methods = << >> THEN <<"">> ELSE s.methods

\* The methods a service is registered for, in order; "" is any.  cors has
\* OPTIONS registered too.
Registered(s) ==
    IF s.methods = << >> THEN <<"">>
    ELSE IF hasCORSPlugin(s) /\ ~\E i \in DOMAIN s.methods : s.methods[i] = "OPTIONS"
         THEN Append(s.methods, "OPTIONS") ELSE s.methods

\* A plausible fault: the host is left out.
WithoutHosts(cfg) ==
    UNION {{[service |-> i, nth |-> n, host |-> "", paths |-> cfg[i].path,
             method |-> Registered(cfg[i])[n]] : n \in DOMAIN Registered(cfg[i])} : i \in DOMAIN cfg}

\* The patterns that router.Build hands to mux.Handle.
Patterns(cfg) ==
    UNION {{[service |-> i, nth |-> n, host |-> cfg[i].host, paths |-> cfg[i].path,
             method |-> Registered(cfg[i])[n]] : n \in DOMAIN Registered(cfg[i])} : i \in DOMAIN cfg}

-----------------------------------------------------------------------------
(* External: http.ServeMux *)

\* A pattern for GET is one for HEAD.
Takes(p, m) == p.method \in {"", m} \/ (p.method = "GET" /\ m = "HEAD")

\* What a pattern matches, apart from the host.
Matched(p) == {m \in Methods : Takes(p, m)} \X p.paths

\* Handle panics on two patterns of one host if they have requests in common
\* and neither is more specific.
Conflict(cfg) ==
    \E p, q \in Patterns(cfg) :
        /\ p # q /\ p.host = q.host
        /\ Matched(p) \cap Matched(q) # {}
        /\ Matched(p) = Matched(q) \/ ~(Matched(p) \subseteq Matched(q) \/ Matched(q) \subseteq Matched(p))

Candidates(cfg, host, method, path) ==
    {p \in Patterns(cfg) : p.host = host /\ <<method, path>> \in Matched(p)}

\* The host's patterns come first, then those without a host.
PatternsFor(cfg, host, method, path) ==
    LET own == IF host = "" THEN {} ELSE Candidates(cfg, host, method, path)
    IN  IF own # {} THEN own ELSE Candidates(cfg, "", method, path)

\* If none conflict there is one.
MostSpecific(ps) == {p \in ps : \A q \in ps : Matched(p) \subseteq Matched(q)}

\* The path matches a pattern to its end.
Exact(cfg, host, method, path) ==
    \E p \in MostSpecific(PatternsFor(cfg, host, method, path)) : path \notin cfg[p.service].inexact

\* ServeMux sends a client to "/orders/" when nothing but an open end takes
\* its "/orders".  (A path that is not clean is the root mux's to redirect.)
Redirected(cfg, host, method, path) ==
    /\ path \in DOMAIN Slashed
    /\ ~Exact(cfg, host, method, path)
    /\ Exact(cfg, host, method, Slashed[path])

\* Without a pattern, ServeMux tells a method that is not allowed from a path
\* that is not there, with a slash or without.
Unrouted(cfg, host, method, path) ==
    LET asked == IF path \in DOMAIN Slashed THEN {path, Slashed[path]} ELSE {path}
    IN  IF Redirected(cfg, host, method, path) THEN 301
        ELSE IF \E p \in Patterns(cfg) : p.host \in {host, ""} /\ asked \cap p.paths # {} THEN 405
        ELSE 404
=============================================================================
