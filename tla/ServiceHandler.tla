--------------------------- MODULE ServiceHandler ---------------------------
(***************************************************************************)
(* One request on its way through the gateway and its response on the way  *)
(* back: the middleware of gateway.New (client address, request id), the   *)
(* route (router.Build), and the handler that buildMux makes of a service: *)
(* metrics around PreserveInbound around the plugins in their order around *)
(* the reverse proxy.  The response passes through the ResponseWriters     *)
(* that the handlers before it have put around the server's, one call at a *)
(* time: informational responses, the status line, the body.               *)
(*                                                                         *)
(* Requests share nothing here but counters, so one at a time is modelled. *)
(* What the origins do is RoundRobinProxy's, whom rate_limiting admits is  *)
(* RateLimiter's and SugarStore's: here either may happen.                 *)
(* net/http and httputil.ReverseProxy are external.                        *)
(***************************************************************************)
EXTENDS ClientIP, Router

CONSTANTS
    Configs,         \* config files
    Requests,        \* what clients send
    Answers,         \* what origins answer: [status, header]
    Names,           \* header names
    Values,          \* header values
    maxBodyBytes,    \* Options.MaxBodyBytes
    infoPath,        \* DEALER_INFO_PATH, or ""
    MaxInfo          \* bound: informational responses to a request

\* Header names the code itself uses.
RequestId == "X-Request-Id"
ContentType == "Content-Type"
AllowOrigin == "Access-Control-Allow-Origin"
AllowCredentials == "Access-Control-Allow-Credentials"
Vary == "Vary"

\* A header map: for every name the values added to it.
Headers == [Names -> Seq(Values)]
NoHeader == [n \in Names |-> << >>]

\* newID; random, so never what a client sent.
FreshId == "fresh"

ASSUME BoundsAssumption ==
    /\ {RequestId, ContentType, AllowOrigin, AllowCredentials, Vary} \subseteq Names
    /\ {FreshId, "application/json", "text/plain", "text/html", "Origin", "*", "true"} \subseteq Values
    /\ maxBodyBytes \in Int
    /\ MaxInfo \in Nat
    /\ \A p \in DOMAIN Slashed : Slashed[p] # infoPath  \* "(exact match)"

\* A client may claim anything, and comes by way of any number of trusted
\* proxies, or none.  connection: the headers that its Connection header names.
ASSUME RequestAssumption ==
    \A q \in Requests :
        /\ q.method \in Methods /\ q.length \in Int
        /\ {q.origin, q.id} \subseteq Values /\ q.id # FreshId
        /\ q.target \in {"clean", "unclean", "*"}
        /\ q.connection \subseteq Names
        /\ q.sender \in Clients
        /\ q.claimed \in Seq(Entries)
        /\ q.via \in Seq(Proxies)
        /\ q.form \in Seq(AddressForms) /\ Len(q.via) <= Len(q.form)

\* What a config's maps of header names set.
stringMap(m) == \A n \in DOMAIN m : m[n] \in Values

\* What newCORS, newAddHeader and newResponseHeaders keep of a plugin's config.
OptionTypes(p) ==
    /\ p.name = "cors" =>
          /\ stringMap(p.preflight)
          /\ DOMAIN p.preflight \subseteq {"Access-Control-Allow-Methods",
                                         "Access-Control-Allow-Headers", "Access-Control-Max-Age"}
    /\ p.name \in {"add_header", "response_headers"} => stringMap(p.headers)
    /\ p.name = "add_header" => "Connection" \notin DOMAIN p.headers
    /\ p.name = "response_headers" =>
          /\ IsList(p.rules)
          /\ \A i \in DOMAIN p.rules : stringMap(p.rules[i].headers)

\* Services, methods and plugins are declared in order.
ASSUME ConfigAssumption ==
    \A c \in Configs :
        /\ IsList(c)
        /\ \A i \in DOMAIN c :
              /\ "path" \in DOMAIN c[i]
              /\ IsList(c[i].methods) /\ IsList(c[i].plugins)
              /\ \A j \in DOMAIN c[i].plugins : OptionTypes(c[i].plugins[j])

\* Final statuses; informational ones are Inform's.
ASSUME AnswerAssumption ==
    \A a \in Answers : a.status \in {101} \cup 200..599 /\ a.header \in Headers

Set(h, n, v) == [h EXCEPT ![n] = <<v>>]
copyHeader(h, more) == [n \in Names |-> h[n] \o more[n]]

\* Sets every header of a config's map of names to values.
SetAll(h, m) == [n \in Names |-> IF n \in DOMAIN m THEN <<m[n]>> ELSE h[n]]

VARIABLES
    trustRequestID,  \* Options.TrustRequestID, fixed from the start
    cfg,      \* the config that is served
    req,      \* the request
    svc,      \* the service it was routed to
    id,       \* its request id, in its context
    client,   \* its client's address, in its context
    pc, at,   \* where it is: at is the position in the chain
    fwd,      \* the header of the request as it goes on
    hdr,      \* the header map of the ResponseWriter
    applied,  \* positions of the responseHeadersWriters that have applied
    status,   \* statusWriter.status
    call,     \* the call on its way out through the writers
    sent,     \* what the client has got
    counted,  \* the status requests_total was incremented for, or 0
    logged,   \* ids that http_log wrote
    reached   \* an origin has got the request

vars == <<trustRequestID, cfg, req, svc, id, client, pc, at, fwd, hdr, applied, status,
          call, sent, counted, logged, reached>>

arrival == <<trustRequestID, cfg, req>>
context == <<arrival, svc, id, client>>
request == <<context, fwd, logged>>

\* Nothing but informational responses so far.
Nothing == [status |-> 0, header |-> NoHeader, by |-> 0, info |-> 0]

\* The connection was taken over and then lost.
Gone == 1

NoCall == [code |-> 0, pos |-> 0, relayed |-> FALSE]

Pcs == {"accept", "chain", "origin", "write", "body", "done"}
Codes == {0, 101, 103} \cup 200..599

-----------------------------------------------------------------------------
(* The config *)

\* The plugins' factories.  typed: the values of the plugin's config have the
\* types that toInt64, toStringSlice and stringMap convert.
newRequestSizeLimiting(p) == p.typed /\ p.maxBytes > 0

newJWTAuth(p) == p.secret # ""

\* A plausible fault: credentials for any origin.
newCORSAny(p) == p.typed /\ p.origins # {}

newCORS(p) == p.typed /\ p.origins # {} /\ ~(p.credentials /\ "*" \in p.origins)

newAddHeader(p) == p.typed

newResponseHeaders(p) ==
    /\ p.typed
    /\ \A i \in DOMAIN p.rules : p.rules[i].types # {} /\ DOMAIN p.rules[i].headers # {}

\* rate_limiting's options are TokenBucket's.
Build(p) ==
    \/ p.name = "request_size_limiting" /\ newRequestSizeLimiting(p)
    \/ p.name = "jwt_auth" /\ newJWTAuth(p)
    \/ p.name = "cors" /\ newCORS(p)
    \/ p.name = "add_header" /\ newAddHeader(p)
    \/ p.name = "response_headers" /\ newResponseHeaders(p)
    \/ p.name \in {"http_log", "rate_limiting"}

\* What New and a reload accept: a config with a plugin that cannot be built or
\* a URL that cannot be parsed is never served, nor one on which ServeMux panics.
Served(c) ==
    /\ Parse(c)
    /\ \A i \in DOMAIN c : \A j \in DOMAIN c[i].plugins : Build(c[i].plugins[j])
    /\ \A i \in DOMAIN c : \A j \in DOMAIN Origins(c[i]) : Origins(c[i])[j] # "malformed"
    /\ ~Conflict(c)

\* Before a request is routed.
NoService == [plugins |-> << >>, preserve |-> FALSE, host |-> ""]

\* buildMux: the gateway's own size limit comes before the service's plugins.
ChainOf(s) == <<[name |-> "request_size_limiting", maxBytes |-> maxBodyBytes]>> \o s.plugins

Chain == ChainOf(svc)
Plugin == Chain[at]

\* The reverse proxy is the last handler.
Last == Len(Chain) + 1

-----------------------------------------------------------------------------
\* The type invariant.
TypeOK ==
    /\ pc \in Pcs /\ at \in 1..Last
    /\ fwd \in Headers /\ hdr \in Headers
    /\ applied \subseteq 1..Len(Chain)
    /\ status \in Codes
    /\ call \in [code : Codes, pos : Nat, relayed : BOOLEAN] /\ call.pos < at
    /\ sent \in [status : Codes \cup {Gone}, header : Headers, by : 0..Last, info : 0..MaxInfo]
    /\ counted \in Codes
    /\ reached \in BOOLEAN

\* A request has come in.
Init ==
    /\ trustRequestID \in BOOLEAN
    /\ cfg \in {c \in Configs : Served(c)} /\ req \in Requests
    /\ svc = NoService
    /\ id = "" /\ client = PeerOf(req.sender, req.via)
    /\ pc = "accept" /\ at = 1
    /\ fwd = NoHeader /\ hdr = NoHeader
    /\ applied = {} /\ status = 200 /\ call = NoCall
    /\ sent = Nothing /\ counted = 0
    /\ logged = {} /\ reached = FALSE

-----------------------------------------------------------------------------
(* The middleware *)

\* tracing.Middleware: the id of a request.
AssignId(q) == IF trustRequestID /\ q.id # "" THEN q.id ELSE FreshId

\* The id an origin gets: the gateway's, unless PreserveInbound restores it.
ForwardedId(s, q, i) == IF s.preserve /\ q.id # "" THEN q.id ELSE i

\* External: what net/http answers before any handler, or 0.  OPTIONS * is the
\* server's; any other *, and a path that has to be cleaned, are ServeMux's.
FrontStatus(q) ==
    CASE q.target = "*" -> IF q.method = "OPTIONS" THEN 200 ELSE 400
      [] q.target = "unclean" /\ q.method # "CONNECT" -> 301
      [] OTHER -> 0

\* newRootMux: the info endpoint is in front of the gateway.
ForInfo(q) == infoPath # "" /\ q.path = infoPath /\ q.method \in {"GET", "HEAD"}

InFront(q) == FrontStatus(q) # 0 \/ ForInfo(q)

\* External: the header of ServeMux's own answers, by http.Error and
\* http.Redirect.
MuxHeader(h, code, q) ==
    CASE code \in {404, 405} -> Set(h, ContentType, "text/plain")
      [] code = 301 /\ q.method \in {"GET", "HEAD"} -> Set(h, ContentType, "text/html")
      [] OTHER -> h

\* The root mux answers by itself.
RootMux ==
    /\ pc = "accept"
    /\ FrontStatus(req) # 0
    /\ hdr' = MuxHeader(hdr, FrontStatus(req), req)
    /\ sent' = [sent EXCEPT !.status = FrontStatus(req), !.header = hdr']
    /\ pc' = "done"
    /\ UNCHANGED <<request, at, applied, status, call, counted, reached>>

Info ==
    /\ pc = "accept"
    /\ FrontStatus(req) = 0 /\ ForInfo(req)
    /\ hdr' = Set(hdr, ContentType, "application/json")
    /\ sent' = [sent EXCEPT !.status = 200, !.header = hdr']
    /\ pc' = "done"
    /\ UNCHANGED <<request, at, applied, status, call, counted, reached>>

\* clientip.Middleware, tracing.Middleware, and the mux: a request without a
\* route gets the mux's own answer, which is not recorded.
Arrive ==
    LET i == AssignId(req)
        h == Set(NoHeader, RequestId, i)
        ps == PatternsFor(cfg, req.host, req.method, req.path)
        code == Unrouted(cfg, req.host, req.method, req.path)
    IN  /\ pc = "accept"
        /\ ~InFront(req)
        /\ id' = i
        /\ client' = Resolve(PeerOf(req.sender, req.via),
                             ForwardedFor(req.sender, req.claimed, req.via, req.form))
        /\ \/ /\ code # 301
              /\ \E p \in MostSpecific(ps) : svc' = cfg[p.service]
              /\ fwd' = Set(NoHeader, RequestId, ForwardedId(svc', req, i))
              /\ hdr' = h
              /\ pc' = "chain"
              /\ UNCHANGED sent
           \/ /\ code = 301 \/ ps = {}
              /\ hdr' = MuxHeader(h, code, req)
              /\ sent' = [sent EXCEPT !.status = code, !.header = hdr']
              /\ pc' = "done"
              /\ UNCHANGED <<svc, fwd>>
        /\ UNCHANGED <<arrival, at, applied, status, call, counted, logged, reached>>

-----------------------------------------------------------------------------
(* The plugins *)

\* A plausible fault: a handler answers through its own writer too.
OwnWriter(code, h, relayed) ==
    /\ hdr' = h
    /\ call' = [code |-> code, pos |-> at, relayed |-> relayed]
    /\ pc' = "write"
    /\ UNCHANGED <<context, at, fwd, applied, status, sent, counted, logged>>

\* A handler sets the response's headers and calls WriteHeader on the writer
\* it was given.
WriteHeader(code, h, relayed) ==
    /\ hdr' = h
    /\ call' = [code |-> code, pos |-> at - 1, relayed |-> relayed]
    /\ pc' = "write"
    /\ UNCHANGED <<context, at, fwd, applied, status, sent, counted, logged>>

\* http.Error
Error(code) == WriteHeader(code, Set(hdr, ContentType, "text/plain"), FALSE) /\ UNCHANGED reached

\* next.ServeHTTP, with response headers h and request headers f.
Continue(h, f) ==
    /\ hdr' = h /\ fwd' = f
    /\ at' = at + 1
    /\ UNCHANGED <<context, pc, applied, status, call, sent, counted, reached>>

In(name) == pc = "chain" /\ at < Last /\ Plugin.name = name

RequestSizeLimiting ==
    /\ In("request_size_limiting")
    /\ \/ req.length > Plugin.maxBytes /\ WriteHeader(413, hdr, FALSE) /\ UNCHANGED reached
       \/ req.length <= Plugin.maxBytes /\ Continue(hdr, fwd) /\ UNCHANGED logged

Preflight(q) == q.method = "OPTIONS" /\ q.requestMethod

originAllowed(p, origin) == "*" \in p.origins \/ origin \in p.origins

\* What cors adds to a response to a page of this origin.
CorsHeaders(p, h) ==
    LET allow == [h EXCEPT ![Vary] = Append(@, "Origin"),
                           ![AllowOrigin] = <<IF "*" \in p.origins THEN "*" ELSE req.origin>>,
                           ![AllowCredentials] = IF p.credentials THEN <<"true">> ELSE @]
    IN  IF req.origin = "" \/ ~originAllowed(p, req.origin) THEN h
        ELSE IF Preflight(req) THEN SetAll(allow, p.preflight) ELSE allow

\* A plausible fault: an origin that is not allowed is left to the service.
CorsForwardsUnknown ==
    /\ In("cors")
    /\ \/ /\ Preflight(req) /\ originAllowed(Plugin, req.origin)
          /\ WriteHeader(204, CorsHeaders(Plugin, hdr), FALSE) /\ UNCHANGED reached
       \/ /\ ~(Preflight(req) /\ originAllowed(Plugin, req.origin))
          /\ Continue(CorsHeaders(Plugin, hdr), fwd) /\ UNCHANGED logged

Cors ==
    /\ In("cors")
    /\ \/ /\ Preflight(req)
          /\ WriteHeader(204, CorsHeaders(Plugin, hdr), FALSE) /\ UNCHANGED reached
       \/ /\ ~Preflight(req)
          /\ Continue(CorsHeaders(Plugin, hdr), fwd) /\ UNCHANGED logged

\* "" for none: a Bearer token, even an empty one, hides the query's.
extractToken(q) == IF q.bearer # "none" THEN q.bearer ELSE q.query

\* jwt.Parse is external: it accepts what the secret has signed with HMAC.
JwtAuth ==
    /\ In("jwt_auth")
    /\ \/ extractToken(req) # "valid" /\ Error(401)
       \/ extractToken(req) = "valid" /\ Continue(hdr, fwd) /\ UNCHANGED logged

RateLimiting ==
    /\ In("rate_limiting")
    /\ Error(429) \/ (Continue(hdr, fwd) /\ UNCHANGED logged)

AddHeader ==
    /\ In("add_header")
    /\ Continue(hdr, SetAll(fwd, Plugin.headers)) /\ UNCHANGED logged

\* The writer it puts around the one it was given is in Chain[at].
ResponseHeaders ==
    /\ In("response_headers")
    /\ Continue(hdr, fwd) /\ UNCHANGED logged

HttpLog ==
    /\ In("http_log")
    /\ Continue(hdr, fwd) /\ logged' = logged \cup {id}

-----------------------------------------------------------------------------
(* The reverse proxy *)

AtProxy == pc = "chain" /\ at = Last

\* writeBadGateway
BadGateway == WriteHeader(502, Set(hdr, ContentType, "application/json"), FALSE)

\* No origin is tried: every breaker is open.
FastFail == AtProxy /\ BadGateway /\ UNCHANGED reached

\* External: ReverseProxy's removeHopByHopHeaders, after the Director.
endToEnd(h, q) == [n \in Names |-> IF n \in q.connection THEN << >> ELSE h[n]]

RoundTrip ==
    /\ AtProxy
    /\ pc' = "origin"
    /\ fwd' = endToEnd(fwd, req)
    /\ reached' = TRUE
    /\ UNCHANGED <<context, logged, at, hdr, applied, status, call, sent, counted>>

\* ErrorHandler: the origin fails, or the client goes away, or its body is
\* larger than a limit after all (length -1 is unknown).
OriginFails == pc = "origin" /\ BadGateway /\ UNCHANGED reached

\* The origin sends an informational response, which ReverseProxy passes on.
Inform ==
    /\ pc = "origin"
    /\ sent.info < MaxInfo
    /\ WriteHeader(103, hdr, FALSE)
    /\ UNCHANGED reached

\* A plausible fault: the origin's id stays.
KeepOriginId(a) == a.header

\* ModifyResponse removes the id an origin echoes.
Modified(a) == [a.header EXCEPT ![RequestId] = << >>]

\* The origin's header is added to what is there, then its status goes out.
Respond(a) ==
    /\ pc = "origin"
    /\ WriteHeader(a.status, copyHeader(hdr, Modified(a)), TRUE)
    /\ UNCHANGED reached

\* A 101: the writers' Unwrap lead to statusWriter.Hijack, and the proxy then
\* writes to the connection itself.  HTTP/2 has no Hijack; and a write that
\* fails calls ErrorHandler on a connection that is gone.
Switch(a) ==
    /\ pc = "origin"
    /\ \/ /\ status' = 101
          /\ hdr' = copyHeader(hdr, Modified(a))
          /\ sent' = [sent EXCEPT !.status = 101, !.header = hdr', !.by = at]
          /\ pc' = "body"
          /\ UNCHANGED <<request, at, applied, call, counted>>
       \/ BadGateway
       \/ /\ hdr' = Set(copyHeader(hdr, Modified(a)), ContentType, "application/json")
          /\ sent' = [sent EXCEPT !.status = Gone]
          /\ call' = [code |-> 502, pos |-> at - 1, relayed |-> FALSE]
          /\ pc' = "write"
          /\ UNCHANGED <<request, at, applied, status, counted>>
    /\ UNCHANGED reached

-----------------------------------------------------------------------------
(* The writers *)

\* The last of a plugin's rules that sets a header, among those for the
\* response's Content-Type.
RulesFor(p, type, n) ==
    {i \in DOMAIN p.rules : type # << >> /\ type[1] \in p.rules[i].types
                            /\ n \in DOMAIN p.rules[i].headers}

\* responseHeaders.apply: headers, then the rules in their order.
apply(p, h) ==
    LET set == SetAll(h, p.headers)
        rules(n) == RulesFor(p, set[ContentType], n)
    IN  [n \in Names |->
            IF rules(n) = {} THEN set[n]
            ELSE <<p.rules[CHOOSE i \in rules(n) : \A j \in rules(n) : j <= i].headers[n]>>]

\* A plausible fault: informational responses use up the once.
ApplyToEveryStatus(p, code) == p.name = "response_headers"

\* responseHeadersWriter: WriteHeader of a final status, Write (0) and Flush.
Applies(p, code) == p.name = "response_headers" /\ (code >= 200 \/ code = 0)

\* A call goes through the writer of a plugin, if that has one.
PassWriter ==
    /\ pc = "write"
    /\ call.pos > 0
    /\ call' = [call EXCEPT !.pos = @ - 1]
    /\ \/ /\ Applies(Chain[call.pos], call.code) /\ call.pos \notin applied
          /\ hdr' = apply(Chain[call.pos], hdr)
          /\ applied' = applied \cup {call.pos}
       \/ /\ ~(Applies(Chain[call.pos], call.code) /\ call.pos \notin applied)
          /\ UNCHANGED <<hdr, applied>>
    /\ UNCHANGED <<request, pc, at, status, sent, counted, reached>>

\* A plausible fault: the first status is kept.
FirstStatusWins(old, code) == IF code = 0 \/ old # 200 THEN old ELSE code

\* statusWriter.WriteHeader keeps the code; a Write has none.
Recorded(old, code) == IF code = 0 THEN old ELSE code

\* The call is at statusWriter and, from there, at the server.  After an
\* informational response ReverseProxy clears the header map.
PassStatusWriter ==
    /\ pc = "write"
    /\ call.pos = 0
    /\ status' = Recorded(status, call.code)
    /\ \/ /\ call.code = 103
          /\ sent' = [sent EXCEPT !.info = @ + 1]
          /\ hdr' = NoHeader
          /\ pc' = "origin"
       \/ /\ call.code # 103
          /\ sent' = IF sent.status # 0 THEN sent
                     ELSE [sent EXCEPT !.status = IF call.code = 0 THEN 200 ELSE call.code,
                                       !.header = hdr, !.by = at]
          /\ pc' = "body"
          /\ UNCHANGED hdr
    /\ UNCHANGED <<request, at, applied, call, counted, reached>>

\* A Write or a Flush of the body.
WriteBody ==
    /\ pc = "body"
    /\ sent.status >= 200
    /\ call' = [call EXCEPT !.code = 0, !.pos = at - 1]
    /\ pc' = "write"
    /\ UNCHANGED <<request, at, hdr, applied, status, sent, counted, reached>>

\* The handlers return, and Recorder.Wrap counts the request.
Return ==
    /\ pc = "body"
    /\ counted' = status
    /\ pc' = "done"
    /\ UNCHANGED <<request, at, hdr, applied, status, call, sent, reached>>

\* The origin's body, or the client, fails while it is copied: ReverseProxy
\* panics with ErrAbortHandler, and the request is not counted.
Abort ==
    /\ pc = "body"
    /\ call.relayed
    /\ pc' = "done"
    /\ UNCHANGED <<request, at, hdr, applied, status, call, sent, counted, reached>>

\* The request is over.
Ended == pc = "done" /\ UNCHANGED vars

PluginStep ==
    \/ RequestSizeLimiting \/ Cors \/ JwtAuth \/ RateLimiting \/ AddHeader
    \/ ResponseHeaders \/ HttpLog

ProxyStep ==
    \/ FastFail \/ RoundTrip \/ OriginFails \/ Inform
    \/ \E a \in Answers : IF a.status = 101 THEN Switch(a) ELSE Respond(a)

WriterStep == PassWriter \/ PassStatusWriter \/ WriteBody

Next == RootMux \/ Info \/ Arrive \/ PluginStep \/ ProxyStep \/ WriterStep \/ Return \/ Abort \/ Ended

Spec == Init /\ [][Next]_vars

-----------------------------------------------------------------------------
(* Properties *)

(***************************************************************************)
(* rate_limiting's client is the one that sent the request: as long as the *)
(* request came through trusted proxies only, nothing it claims in         *)
(* X-Forwarded-For (clientip.go: "whatever the client claimed and are      *)
(* never believed") makes it another client, or a proxy.                   *)
(***************************************************************************)
ClientIdentified == id # "" => client = req.sender

\* The response has passed a response_headers plugin's writer.
Covers(i) == Chain[i].name = "response_headers" /\ i < sent.by

\* Some rule of a response_headers plugin sets a header.
RuleSets(p, n) == \E i \in DOMAIN p.rules : n \in DOMAIN p.rules[i].headers

(***************************************************************************)
(* README: response_headers are "replacing any value the origin sent" and  *)
(* "also reach responses the gateway produces itself".  Whoever answers    *)
(* behind the plugin, and whatever informational responses came before,    *)
(* the final response is what the outermost such plugin makes of it.  (One *)
(* whose rules set Content-Type chose them by the type that was there.)    *)
(***************************************************************************)
PolicyApplied ==
    sent.status >= 200 =>
        \A i \in 1..Len(Chain) :
            Covers(i) /\ ~RuleSets(Chain[i], ContentType) /\ (\A j \in 1..(i - 1) : ~Covers(j)) =>
                apply(Chain[i], sent.header) = sent.header

(***************************************************************************)
(* requests_total counts a request under the status its client got, after  *)
(* informational responses, refusals, failures and upgrades too.           *)
(***************************************************************************)
MetricIsAnswer ==
    counted # 0 => pc = "done" /\ (counted = sent.status \/ sent.status = Gone)

\* A plugin of the chain sets a header by configuration.
Overrides(name, n) ==
    \E i \in 1..Len(Chain) :
        /\ Chain[i].name = name
        /\ n \in DOMAIN Chain[i].headers \/ (name = "response_headers" /\ RuleSets(Chain[i], n))

(***************************************************************************)
(* README: "Every response carries an `X-Request-Id` header", the one that *)
(* http_log writes and the origin gets, and without trustRequestID not one *)
(* the client chose; the origin's own is not added to it.  Excepted is *)
(* where the code does not do that: an informational response clears the   *)
(* header map, this header included; what the root mux answers by itself   *)
(* never comes to the gateway's middleware; and a client that names        *)
(* X-Request-Id in its Connection header has it removed for the origin.    *)
(***************************************************************************)
OneRequestId ==
    /\ sent.status >= 101 /\ ~InFront(req) /\ sent.info = 0
       /\ ~Overrides("response_headers", RequestId)
         => sent.header[RequestId] = <<id>>
    /\ logged \subseteq {id}
    /\ reached /\ ~Overrides("add_header", RequestId) /\ RequestId \notin req.connection
         => fwd[RequestId] = <<IF svc.preserve /\ req.id # "" THEN req.id ELSE id>>
    /\ id # "" /\ id = req.id => trustRequestID

(***************************************************************************)
(* "a plugin that blocks a request never calls the next one": what reaches *)
(* an origin has passed every plugin of the service, in whatever order.    *)
(***************************************************************************)
OriginShielded ==
    reached => \A i \in 1..Len(Chain) :
        /\ Chain[i].name = "request_size_limiting" => req.length <= Chain[i].maxBytes
        /\ Chain[i].name = "jwt_auth" => extractToken(req) = "valid"
        /\ Chain[i].name = "cors" => ~Preflight(req)

\* A service of the config for the request's host and path.
Addressed(s) == s.host \in {"", req.host} /\ req.path \in s.path

(***************************************************************************)
(* README: "Routes with a host win over routes without one".  A service    *)
(* with a host gets no other host's requests, a host's requests go to its  *)
(* own services if one takes the method, and the narrower path wins; only  *)
(* a path that ServeMux completes with a slash is sent elsewhere.          *)
(***************************************************************************)
RoutedByHost ==
    /\ svc # NoService => Addressed(svc)
    /\ id # "" /\ ~Redirected(cfg, req.host, req.method, req.path) => \A i \in DOMAIN cfg :
         Addressed(cfg[i]) /\ (cfg[i].methods = << >> \/ \E j \in DOMAIN cfg[i].methods :
                                                             cfg[i].methods[j] = req.method)
           => /\ svc # NoService
              /\ cfg[i].host # "" => svc.host = req.host
              /\ cfg[i].host = svc.host => svc.path \subseteq cfg[i].path

Blocking == {"request_size_limiting", "jwt_auth", "rate_limiting", "cors"}

(***************************************************************************)
(* README: "if a service is browser-facing, declare `cors` before any      *)
(* blocking plugin".  Then every preflight to its route that is not too    *)
(* large gets its 204, also for a method list without OPTIONS, unless its  *)
(* path is one that the root mux cleans or ServeMux completes.             *)
(***************************************************************************)
PreflightAnswered ==
    pc = "done" /\ Preflight(req) /\ req.length <= maxBodyBytes
    /\ FrontStatus(req) = 0 /\ ~Redirected(cfg, req.host, req.method, req.path) =>
        \A n \in DOMAIN cfg : \A i \in DOMAIN cfg[n].plugins :
            /\ Addressed(cfg[n])
            /\ \A k \in DOMAIN cfg : Addressed(cfg[k]) => k = n
            /\ cfg[n].plugins[i].name = "cors"
            /\ \A j \in 1..(i - 1) : cfg[n].plugins[j].name \notin Blocking
            => sent.status = 204

\* One plugin decides about the headers that let a page read a response.
CorsDecides ==
    /\ \A i, j \in 1..Len(Chain) : Chain[i].name = "cors" /\ Chain[j].name = "cors" => i = j
    /\ \A n \in {AllowOrigin, AllowCredentials} : ~Overrides("response_headers", n)

(***************************************************************************)
(* A page of an allowed origin can read every answer the gateway itself    *)
(* gives behind cors, refusals and failures included; a page of another    *)
(* origin can read none; and credentials are never allowed to any origin.  *)
(* For services with one cors plugin, no response_headers that sets these  *)
(* headers, and responses as in OneRequestId.                              *)
(***************************************************************************)
CorsConsistent ==
    sent.status >= 200 /\ sent.info = 0 /\ ~call.relayed /\ CorsDecides =>
        /\ \A i \in 1..Len(Chain) : i <= sent.by /\ Chain[i].name = "cors" =>
             sent.header[AllowOrigin] =
                 IF req.origin = "" \/ ~originAllowed(Chain[i], req.origin) THEN << >>
                 ELSE IF "*" \in Chain[i].origins THEN <<"*">> ELSE <<req.origin>>
        /\ sent.header[AllowCredentials] # << >> => sent.header[AllowOrigin] # <<"*">>
=============================================================================
