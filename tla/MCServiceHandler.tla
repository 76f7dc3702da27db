-------------------------- MODULE MCServiceHandler --------------------------
(* Configs, requests and answers for ServiceHandler. *)
EXTENDS ServiceHandler, TLC

CONSTANTS c1, c2, p1

HSTS == "Strict-Transport-Security"
CacheControl == "Cache-Control"
AllowMethods == "Access-Control-Allow-Methods"

MCNames == {RequestId, ContentType, AllowOrigin, AllowCredentials, Vary,
            HSTS, CacheControl, AllowMethods}

MCValues == STRING

Plain(name) == [name |-> name]
Jwt == [name |-> "jwt_auth", secret |-> "s"]
Size(n) == [name |-> "request_size_limiting", typed |-> TRUE, maxBytes |-> n]
CorsFor(origins, credentials) ==
    [name |-> "cors", typed |-> TRUE, origins |-> origins, credentials |-> credentials,
     preflight |-> AllowMethods :> "GET"]
Policy(headers, rules) ==
    [name |-> "response_headers", typed |-> TRUE, headers |-> headers, rules |-> rules]
Add(headers) == [name |-> "add_header", typed |-> TRUE, headers |-> headers]
HtmlOnly == [types |-> {"text/html"}, headers |-> CacheControl :> "no-cache"]
TextToo == [types |-> {"text/html", "text/plain"}, headers |-> CacheControl :> "no-store"]

Svc == [name |-> "s", path |-> {"/a"}, inexact |-> {}, host |-> "", methods |-> << >>, originURL |-> "o",
        originURLs |-> << >>, interval |-> "", preserve |-> FALSE, plugins |-> << >>]

(***************************************************************************)
(* A browser-facing service in the order README recommends, and a host's   *)
(* own service with jwt_auth before cors.                                  *)
(***************************************************************************)
Browser ==
    [Svc EXCEPT !.methods = <<"GET", "POST">>,
                !.plugins = <<Policy(HSTS :> "on", <<TextToo, HtmlOnly>>), Plain("http_log"),
                              CorsFor({"app"}, TRUE), Jwt, Plain("rate_limiting")>>]
Own ==
    [Svc EXCEPT !.host = "h1", !.preserve = TRUE, !.path = {"/a", "/b"},
                !.originURL = "", !.originURLs = <<"o1", "o2">>,
                !.plugins = <<Jwt, CorsFor({"*"}, FALSE), Policy(HSTS :> "on", << >>)>>]

\* A second size limit, and one response_headers inside another.
Nested ==
    [Svc EXCEPT !.methods = <<"GET">>, !.preserve = TRUE, !.path = {"/a", "/b"},
                !.plugins = <<Plain("http_log"), Policy(CacheControl :> "private", <<HtmlOnly>>), Size(1),
                              Add(HSTS :> "x"),
                              Policy((HSTS :> "off") @@ (CacheControl :> "public"), << >>)>>]

\* A host's service for fewer methods than the one without a host.
Narrow == [Svc EXCEPT !.host = "h1", !.methods = <<"GET">>, !.interval = "5s", !.plugins = <<Jwt>>]

\* A service for "/" and everything below it, and one for "/b/".
Root == [Svc EXCEPT !.path = {"/", "/a", "/b", "/b/"}, !.inexact = {"/a", "/b", "/b/"},
                    !.plugins = <<CorsFor({"app"}, FALSE)>>]
Tree == [Svc EXCEPT !.path = {"/b/"}, !.methods = <<"GET">>, !.plugins = <<CorsFor({"app"}, FALSE)>>]

Overlapping == [Svc EXCEPT !.methods = <<"GET", "HEAD">>, !.path = {"/b"}]

\* Plugins that are refused.
BadPlugins == {CorsFor({"*"}, TRUE), CorsFor({}, FALSE), Size(0), [Jwt EXCEPT !.secret = ""],
               [Add(HSTS :> "x") EXCEPT !.typed = FALSE], Plain("unknown"),
               Policy(HSTS :> "on", <<[HtmlOnly EXCEPT !.types = {}]>>)}

\* And configs that are refused: by a plugin, by ServeMux, and by Parse.
MCConfigs ==
    {<<Browser>>, <<Browser, Own>>, <<Nested, Narrow, Overlapping>>,
     <<Root, Tree>>, <<Tree>>,
     <<Nested, [Svc EXCEPT !.path = {"/b"}]>>, <<[Svc EXCEPT !.methods = <<"GET", "GET">>]>>}
    \cup {<<[Svc EXCEPT !.plugins = <<p>>]>> : p \in BadPlugins}
    \cup {<<s>> : s \in {[Svc EXCEPT !.name = ""], [Svc EXCEPT !.path = {}],
                         [Svc EXCEPT !.host = "malformed"], [Svc EXCEPT !.originURL = ""],
                         [Svc EXCEPT !.originURLs = <<"o1">>], [Own EXCEPT !.originURLs = <<"">>],
                         [Own EXCEPT !.originURLs = <<"o1", "malformed">>],
                         [Svc EXCEPT !.interval = "malformed"]}}

MCMethods == {"GET", "HEAD", "OPTIONS", "DELETE", "CONNECT"}

MCSlashed == "/b" :> "/b/"

\* A request of one client, with nothing special about it.
Base == [method |-> "GET", host |-> "", path |-> "/a", target |-> "clean", connection |-> {},
         requestMethod |-> FALSE, origin |-> "", id |-> "", length |-> 0, bearer |-> "none",
         query |-> "", sender |-> c1, claimed |-> << >>, via |-> << >>, form |-> << >>]

Shapes == {[Base EXCEPT !.method = m, !.requestMethod = r, !.origin = o] :
             m \in MCMethods \ {"CONNECT"}, r \in BOOLEAN, o \in {"", "app", "evil"}}
Tokens == {<<"none", "">>, <<"none", "valid">>, <<"", "valid">>, <<"valid", "">>, <<"bad", "">>}

\* What a client may claim, and how it gets here.
Claims == UNION {[1..n -> Entries] : n \in 0..2}
FromAnywhere ==
    {[Base EXCEPT !.claimed = claim, !.via = [i \in 1..n |-> p1], !.form = f] :
        claim \in Claims, n \in 0..2, f \in [1..2 -> AddressForms]}

Routed == {[Base EXCEPT !.method = m, !.requestMethod = (m = "OPTIONS"), !.host = h, !.path = p,
                        !.bearer = "valid"] :
             m \in MCMethods, h \in {"", "h1", "h2"}, p \in {"/", "/a", "/b", "/b/"}}

\* Requests that are not clean, and ones whose Connection header names more
\* than a connection's own headers.
Unclean == {[q EXCEPT !.target = t] : q \in Routed, t \in {"unclean", "*"}}
HopByHop == {[q EXCEPT !.connection = n, !.id = i] :
               q \in Routed, n \in {{RequestId}, {HSTS}}, i \in {"", "theirs"}}

MCRequests ==
    {[q EXCEPT !.bearer = t[1], !.query = t[2], !.id = i, !.length = l] :
        q \in Shapes, t \in Tokens, i \in {"", "theirs"}, l \in {-1, 2, 9}}
    \cup {[q EXCEPT !.method = "DELETE"] : q \in FromAnywhere} \cup Routed \cup Unclean \cup HopByHop

Header(m) == SetAll(NoHeader, m)
MCAnswers == {
    [status |-> 101, header |-> Header(RequestId :> "echo")],
    [status |-> 200, header |-> Header(ContentType :> "text/html")],
    [status |-> 200, header |-> Header((RequestId :> "echo") @@ (HSTS :> "theirs")
                                       @@ (ContentType :> "image/png"))],
    [status |-> 500, header |-> Header((AllowOrigin :> "*") @@ (CacheControl :> "max-age"))]}

MCTrusted == {[addrs |-> {p1}, mapped |-> FALSE], [addrs |-> {c2}, mapped |-> TRUE]}
=============================================================================
