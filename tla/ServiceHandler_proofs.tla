----------------------- MODULE ServiceHandler_proofs -----------------------
(***************************************************************************)
(* Proofs about ServiceHandler for every config, every chain of plugins    *)
(* and every request, whatever it claims and however many proxies it has   *)
(* come through.                                                           *)
(***************************************************************************)
EXTENDS ServiceHandler, Router_proofs, TLAPS

-----------------------------------------------------------------------------
(* The client's address *)

\* What trusted proxies make of X-Forwarded-For: the client's address stands
\* right after its claims, and all to the right of that are proxies.
LEMMA ForwardedHops ==
    ASSUME NEW c \in Clients, NEW claimed \in Seq(Entries), NEW via \in Seq(Proxies),
           NEW form \in Seq(AddressForms), Len(via) <= Len(form), via # << >>,
           NEW xff, xff = ForwardedFor(c, claimed, via, form)
    PROVE  /\ DOMAIN xff = 1..(Len(claimed) + Len(via))
           /\ xff[Len(claimed) + 1].ip = c /\ IsAddress(xff[Len(claimed) + 1])
           /\ \A j \in DOMAIN xff : j > Len(claimed) + 1 =>
                 xff[j].ip \in Proxies /\ IsAddress(xff[j])
<1> DEFINE hops == [i \in 1..Len(via) |-> [form |-> form[i], ip |-> HopsOf(c, via)[i]]]
<1>0. Len(claimed) \in Nat /\ Len(via) \in Nat \ {0} /\ Len(form) \in Nat
  OBVIOUS
<1>1. HopsOf(c, via)[1] = c /\ \A i \in 2..Len(via) : HopsOf(c, via)[i] = via[i - 1]
  BY <1>0 DEF HopsOf
<1>2. \A i \in 1..Len(via) : form[i] \in AddressForms
  BY <1>0
<1>3. hops \in Seq([form : AddressForms, ip : Addrs]) /\ Len(hops) = Len(via)
  <2>1. \A i \in 1..Len(via) : HopsOf(c, via)[i] \in Addrs
    <3>1. \A i \in 2..Len(via) : via[i - 1] \in Proxies
      BY <1>0
    <3> QED BY <1>0, <1>1, <3>1 DEF Addrs
  <2> QED BY <1>0, <1>2, <2>1
<1>4. xff = claimed \o hops
  BY DEF ForwardedFor
<1>5. /\ DOMAIN xff = 1..(Len(claimed) + Len(via))
      /\ \A i \in 1..Len(via) : xff[Len(claimed) + i] = hops[i]
  BY <1>0, <1>3, <1>4
<1>6. xff[Len(claimed) + 1] = [form |-> form[1], ip |-> c]
  BY <1>0, <1>1, <1>5
<1>7. ASSUME NEW j \in DOMAIN xff, j > Len(claimed) + 1
      PROVE  xff[j].ip \in Proxies /\ IsAddress(xff[j])
  <2> DEFINE i == j - Len(claimed)
  <2>0. j \in Nat
    <3>1. j \in 1..(Len(claimed) + Len(via))
      BY <1>5, <1>7
    <3> QED BY <1>0, <3>1
  <2>1. i \in 2..Len(via)
    <3>1. j \in 1..(Len(claimed) + Len(via)) /\ j > Len(claimed) + 1
      BY <1>5, <1>7
    <3>2. \A x, a, b \in Nat : x \in 1..(a + b) /\ x > a + 1 => x - a \in 2..b
      OBVIOUS
    <3> QED BY <1>0, <3>1, <3>2
  <2>2. xff[j] = [form |-> form[i], ip |-> via[i - 1]]
    <3>1. i \in 1..Len(via) /\ Len(claimed) + i = j
      BY <1>0, <2>0, <2>1
    <3>2. xff[j] = hops[i]
      BY <1>5, <3>1
    <3> QED BY <1>1, <2>1, <3>1, <3>2
  <2>3. via[i - 1] \in Proxies
    BY <1>0, <2>1
  <2> QED BY <1>0, <1>2, <2>1, <2>2, <2>3 DEF IsAddress
<1> QED BY <1>0, <1>2, <1>5, <1>6, <1>7 DEF IsAddress

\* The walk from the right stops at the client.
LEMMA ResolveFindsClient ==
    ASSUME NEW c \in Clients, NEW claimed \in Seq(Entries), NEW via \in Seq(Proxies),
           NEW form \in Seq(AddressForms), Len(via) <= Len(form)
    PROVE  Resolve(PeerOf(c, via), ForwardedFor(c, claimed, via, form)) = c
<1> DEFINE xff == ForwardedFor(c, claimed, via, form)
           k == Len(claimed) + 1
<1>0. Len(claimed) \in Nat /\ Len(via) \in Nat /\ k \in Nat
  OBVIOUS
<1>1. CASE via = << >>
  <2>1. PeerOf(c, via) = c
    BY <1>1 DEF PeerOf, HopsOf
  <2> QED BY <2>1, TrustAssumption DEF Resolve
<1>2. CASE via # << >>
  <2>1. /\ DOMAIN xff = 1..(Len(claimed) + Len(via))
        /\ xff[k].ip = c /\ IsAddress(xff[k])
        /\ \A j \in DOMAIN xff : j > k => xff[j].ip \in Proxies /\ IsAddress(xff[j])
    BY <1>2, ForwardedHops
  <2>2. isTrusted([form |-> "plain", ip |-> PeerOf(c, via)])
    <3>1. PeerOf(c, via) = via[Len(via)] /\ via[Len(via)] \in Proxies
      BY <1>2, <1>0 DEF PeerOf, HopsOf
    <3> QED BY <3>1, TrustAssumption
  <2> HIDE DEF xff
  <2>3. k \in Believed(xff)
    <3>1. k \in DOMAIN xff
      BY <1>0, <1>2, <2>1
    <3>2. \A j \in DOMAIN xff : j > k => isTrusted(xff[j])
      BY <2>1, TrustAssumption DEF isTrusted
    <3> QED BY <2>1, <3>1, <3>2 DEF Believed
  <2>4. \A i \in Believed(xff) : k <= i
    <3> SUFFICES ASSUME NEW i \in Believed(xff), ~(k <= i) PROVE FALSE
      OBVIOUS
    <3>1. i \in Nat /\ k \in DOMAIN xff /\ k > i
      BY <1>0, <2>1, <2>3 DEF Believed
    <3>2. xff[k].form # "empty"
      BY <2>1 DEF IsAddress, AddressForms
    <3>3. isTrusted(xff[k])
      BY <3>1, <3>2 DEF Believed
    <3> QED BY <2>1, <3>3, TrustAssumption DEF isTrusted
  <2>5. (CHOOSE i \in Believed(xff) : \A j \in Believed(xff) : i <= j) = k
    <3>1. Believed(xff) \subseteq Nat
      BY <1>0, <2>1 DEF Believed
    <3> QED BY <1>0, <2>3, <2>4, <3>1
  <2>6. Resolve(PeerOf(c, via), xff) = xff[k].ip
    BY <2>2, <2>3, <2>5 DEF Resolve
  <2> QED BY <2>1, <2>6 DEF xff
<1> QED BY <1>1, <1>2

\* The steps of the middleware and those after it.
Later ==
    \/ PluginStep \/ ProxyStep \/ WriterStep \/ Return \/ Abort \/ Ended \/ UNCHANGED vars

\* The request, its id and its client are settled by the middleware.
LEMMA ContextSettled ==
    ASSUME Later
    PROVE  UNCHANGED <<trustRequestID, cfg, req, svc, id, client>> /\ (pc # "accept" => pc' # "accept")
<1> USE DEF context, arrival, request
<1>3. CASE PluginStep
  BY <1>3 DEF PluginStep, RequestSizeLimiting, Cors, JwtAuth, RateLimiting, AddHeader,
     ResponseHeaders, HttpLog, Error, WriteHeader, Continue
<1>4. CASE ProxyStep
  <2>1. ASSUME NEW a \in Answers, Switch(a) \/ Respond(a)
        PROVE  UNCHANGED <<trustRequestID, cfg, req, svc, id, client>> /\ pc' # "accept"
    BY <2>1 DEF Switch, Respond, BadGateway, WriteHeader
  <2>2. CASE FastFail \/ RoundTrip \/ OriginFails \/ Inform
    BY <2>2 DEF FastFail, RoundTrip, OriginFails, Inform, BadGateway, WriteHeader
  <2> QED BY <1>4, <2>1, <2>2 DEF ProxyStep
<1>5. CASE WriterStep
  BY <1>5 DEF WriterStep, PassWriter, PassStatusWriter, WriteBody
<1>6. CASE Return \/ Abort
  BY <1>6 DEF Return, Abort
<1>7. CASE Ended \/ UNCHANGED vars
  BY <1>7 DEF Ended, vars
<1> QED BY <1>3, <1>4, <1>5, <1>6, <1>7 DEF Later

\* What the root mux answers, without the gateway.
Front == RootMux \/ Info
FrontCode == IF FrontStatus(req) = 0 THEN 200 ELSE FrontStatus(req)

LEMMA FrontIs ==
    ASSUME Front
    PROVE  /\ pc = "accept" /\ pc' = "done" /\ InFront(req)
           /\ UNCHANGED <<trustRequestID, cfg, req, svc, id, client>>
           /\ UNCHANGED <<fwd, logged, at, applied, status, call, counted, reached>>
           /\ hdr' \in {hdr, Set(hdr, ContentType, "text/html"), Set(hdr, ContentType, "application/json")}
           /\ sent' = [sent EXCEPT !.status = FrontCode, !.header = hdr']
           /\ FrontCode \in {200, 301, 400}
<1> USE DEF request, context, arrival, InFront
<1>1. CASE Info
  BY <1>1 DEF Info, FrontCode
<1>2. CASE RootMux
  <2>1. FrontStatus(req) \in {200, 301, 400}
    BY <1>2 DEF RootMux, FrontStatus
  <2>2. hdr' \in {hdr, Set(hdr, ContentType, "text/html")}
    BY <1>2, <2>1 DEF RootMux, MuxHeader
  <2>3. FrontCode = FrontStatus(req)
    BY <1>2 DEF RootMux, FrontCode
  <2>4. sent' = [sent EXCEPT !.status = FrontCode, !.header = hdr']
    BY <1>2, <2>3 DEF RootMux
  <2>5. /\ pc = "accept" /\ pc' = "done" /\ InFront(req)
        /\ UNCHANGED <<trustRequestID, cfg, req, svc, id, client>>
        /\ UNCHANGED <<fwd, logged, at, applied, status, call, counted, reached>>
    BY <1>2 DEF RootMux
  <2> QED BY <2>1, <2>2, <2>3, <2>4, <2>5
<1> QED BY <1>1, <1>2 DEF Front

\* What the mux of the gateway answers, with the id.
MuxCode == Unrouted(cfg, req.host, req.method, req.path)

LEMMA ArriveIs ==
    ASSUME Arrive, NEW h, h = Set(NoHeader, RequestId, AssignId(req))
    PROVE  /\ hdr' \in {h, Set(h, ContentType, "text/plain"), Set(h, ContentType, "text/html")}
           /\ sent' = sent \/ sent' = [sent EXCEPT !.status = MuxCode, !.header = hdr']
           /\ MuxCode \in {301, 404, 405}
<1>1. MuxCode \in {301, 404, 405}
  BY DEF MuxCode, Unrouted
<1>2. \/ hdr' = h /\ sent' = sent
      \/ hdr' = MuxHeader(h, MuxCode, req) /\ sent' = [sent EXCEPT !.status = MuxCode, !.header = hdr']
  BY DEF Arrive, MuxCode
<1>3. MuxHeader(h, MuxCode, req) \in
        {h, Set(h, ContentType, "text/plain"), Set(h, ContentType, "text/html")}
  BY <1>1 DEF MuxHeader
<1> QED BY <1>1, <1>2, <1>3

\* A first answer, by a mux.
LEMMA MuxAnswer ==
    ASSUME sent = Nothing, NEW code, sent' = [sent EXCEPT !.status = code, !.header = hdr']
    PROVE  /\ sent' = [status |-> code, header |-> hdr', by |-> 0, info |-> 0]
           /\ sent'.header = hdr' /\ sent'.by = 0
  BY DEF Nothing

\* The next-state relation, in these terms.
LEMMA NextSplit == [Next]_vars => Front \/ Arrive \/ Later
  BY DEF Next, Later, Front

(***************************************************************************)
(* rate_limiting charges the client that sent the request, for any number  *)
(* of trusted proxies in front of the gateway and any X-Forwarded-For the  *)
(* client may have made up.                                                *)
(***************************************************************************)
THEOREM ClientsIdentified == Spec => []ClientIdentified
<1> DEFINE Inv == req \in Requests /\ ClientIdentified
<1>1. Init => Inv
  BY DEF Init, ClientIdentified
<1>2. Inv /\ [Next]_vars => Inv'
  <2> SUFFICES ASSUME Inv, Front \/ Arrive \/ Later PROVE Inv'
    BY NextSplit
  <2>1. CASE Front
    BY <2>1, FrontIs DEF ClientIdentified
  <2>2. CASE Arrive
    <3>1. req' = req /\ client' = Resolve(PeerOf(req.sender, req.via),
                             ForwardedFor(req.sender, req.claimed, req.via, req.form))
      BY <2>2 DEF Arrive, arrival
    <3>2. client' = req.sender
      BY <3>1, RequestAssumption, ResolveFindsClient
    <3> QED BY <3>1, <3>2 DEF ClientIdentified
  <2>3. CASE Later
    BY <2>3, ContextSettled DEF ClientIdentified
  <2> QED BY <2>1, <2>2, <2>3
<1> QED BY <1>1, <1>2, PTL DEF Spec

-----------------------------------------------------------------------------
(* The status that is counted *)

\* statusWriter holds the status the client got.
StatusKept == sent.status = Gone \/ status = sent.status

\* Nothing final is sent before the handler's call is at statusWriter; from
\* then on statusWriter holds its status, and later calls are Writes.
StatusInv ==
    /\ DOMAIN sent = {"status", "header", "by", "info"}
    /\ DOMAIN call = {"code", "pos", "relayed"}
    /\ pc \in {"accept", "chain", "origin"} => sent.status = 0
    /\ pc = "write" => \/ call.code = 0 /\ sent.status # 0 /\ StatusKept
                       \/ call.code = 103 /\ sent.status = 0
                       \/ call.code \notin {0, 103} /\ sent.status \in {0, Gone}
    /\ pc = "body" => StatusKept
    /\ MetricIsAnswer

\* A handler's call of WriteHeader.
LEMMA StatusWrite ==
    ASSUME StatusInv, UNCHANGED <<sent, counted>>, pc \in {"chain", "origin"}, pc' = "write",
           DOMAIN call' = {"code", "pos", "relayed"}, call'.code # 0
    PROVE  StatusInv'
  BY DEF StatusInv, MetricIsAnswer

LEMMA StatusInit == Init => StatusInv
<1> SUFFICES ASSUME Init PROVE StatusInv
  OBVIOUS
<1>1. pc = "accept" /\ sent = Nothing /\ call = NoCall /\ counted = 0
  BY Zenon DEF Init
<1> QED BY <1>1 DEF StatusInv, MetricIsAnswer, Nothing, NoCall

LEMMA StatusNext == StatusInv /\ [Next]_vars => StatusInv'
<1> SUFFICES ASSUME StatusInv, Front \/ Arrive \/ Later PROVE StatusInv'
  BY NextSplit
<1>0. counted # 0 => pc = "done"
  BY DEF StatusInv, MetricIsAnswer
<1>1. CASE Front
  <2>1. pc = "accept" /\ pc' = "done" /\ UNCHANGED <<call, counted>> /\ DOMAIN sent' = DOMAIN sent
    BY <1>1, FrontIs
  <2> QED BY <1>0, <2>1 DEF StatusInv, MetricIsAnswer
<1>2. CASE Arrive
  BY <1>0, <1>2 DEF Arrive, StatusInv, MetricIsAnswer
<1>3. ASSUME pc' = pc, UNCHANGED <<sent, counted, call, status>> PROVE StatusInv'
  BY <1>3 DEF StatusInv, MetricIsAnswer, StatusKept
<1>4. CASE PluginStep
  <2>1. pc = "chain"
    BY <1>4 DEF PluginStep, RequestSizeLimiting, Cors, JwtAuth, RateLimiting, AddHeader,
                ResponseHeaders, HttpLog, In
  <2>2. CASE pc' = pc /\ UNCHANGED <<sent, counted, call, status>>
    BY <1>3, <2>2
  <2>3. CASE /\ UNCHANGED <<sent, counted>> /\ pc' = "write" /\ DOMAIN call' = {"code", "pos", "relayed"}
             /\ call'.code # 0
    BY <2>1, <2>3, StatusWrite
  <2> QED BY <1>4, <2>2, <2>3
          DEF PluginStep, RequestSizeLimiting, Cors, JwtAuth, RateLimiting, AddHeader,
              ResponseHeaders, HttpLog, Error, WriteHeader, Continue
<1>5. CASE FastFail \/ OriginFails \/ Inform
  <2>1. /\ UNCHANGED <<sent, counted>> /\ pc' = "write" /\ DOMAIN call' = {"code", "pos", "relayed"}
        /\ call'.code # 0 /\ pc \in {"chain", "origin"}
    BY <1>5 DEF FastFail, OriginFails, Inform, AtProxy, BadGateway, WriteHeader
  <2> QED BY <2>1, StatusWrite
<1>6. CASE RoundTrip
  BY <1>6 DEF RoundTrip, AtProxy, StatusInv, MetricIsAnswer
<1>7. ASSUME NEW a \in Answers, a.status # 101, Respond(a) PROVE StatusInv'
  <2>1. a.status # 0
    BY AnswerAssumption
  <2>2. /\ UNCHANGED <<sent, counted>> /\ pc' = "write" /\ DOMAIN call' = {"code", "pos", "relayed"}
        /\ call'.code # 0 /\ pc = "origin"
    BY <1>7, <2>1 DEF Respond, WriteHeader
  <2> QED BY <2>2, StatusWrite
<1>8. ASSUME NEW a \in Answers, Switch(a) PROVE StatusInv'
  <2>0. pc = "origin" /\ counted = 0 /\ sent.status = 0
    BY <1>0, <1>8 DEF Switch, StatusInv
  <2>1. CASE status' = 101 /\ sent' = [sent EXCEPT !.status = 101, !.header = hdr', !.by = at]
             /\ pc' = "body" /\ UNCHANGED <<call, counted>>
    BY <2>0, <2>1 DEF StatusInv, StatusKept, MetricIsAnswer
  <2>2. CASE BadGateway
    <3>1. /\ UNCHANGED <<sent, counted>> /\ pc' = "write" /\ DOMAIN call' = {"code", "pos", "relayed"}
          /\ call'.code # 0
      BY <2>2 DEF BadGateway, WriteHeader
    <3> QED BY <2>0, <3>1, StatusWrite
  <2>3. CASE sent' = [sent EXCEPT !.status = Gone] /\ pc' = "write" /\ UNCHANGED counted
             /\ call' = [code |-> 502, pos |-> at - 1, relayed |-> FALSE]
    BY <2>0, <2>3 DEF StatusInv, StatusKept, MetricIsAnswer
  <2> QED BY <1>8, <2>1, <2>2, <2>3 DEF Switch
<1>9. CASE PassWriter
  BY <1>0, <1>9 DEF PassWriter, StatusInv, StatusKept, MetricIsAnswer
<1>10. CASE PassStatusWriter
  <2>0. pc = "write" /\ counted = 0 /\ UNCHANGED <<call, counted>>
    BY <1>0, <1>10 DEF PassStatusWriter
  <2>1. CASE call.code = 103
    <3>1. pc' = "origin" /\ sent' = [sent EXCEPT !.info = @ + 1] /\ sent.status = 0
      BY <1>10, <2>0, <2>1 DEF PassStatusWriter, StatusInv
    <3> QED BY <2>0, <3>1 DEF StatusInv, MetricIsAnswer
  <2>2. CASE call.code = 0
    <3>1. pc' = "body" /\ UNCHANGED <<sent, status>> /\ StatusKept
      BY <1>10, <2>0, <2>2 DEF PassStatusWriter, StatusInv, Recorded
    <3> QED BY <2>0, <3>1 DEF StatusInv, StatusKept, MetricIsAnswer
  <2>3. CASE call.code \notin {0, 103}
    <3>1. /\ pc' = "body" /\ status' = call.code /\ sent.status \in {0, Gone}
          /\ sent' = IF sent.status # 0 THEN sent
                     ELSE [sent EXCEPT !.status = call.code, !.header = hdr, !.by = at]
      BY <1>10, <2>0, <2>3 DEF PassStatusWriter, StatusInv, Recorded
    <3> QED BY <2>0, <3>1 DEF StatusInv, StatusKept, MetricIsAnswer, Gone
  <2> QED BY <2>1, <2>2, <2>3
<1>11. CASE WriteBody
  <2>1. sent.status # 0
    BY <1>11 DEF WriteBody
  <2> QED BY <1>0, <1>11, <2>1 DEF WriteBody, StatusInv, StatusKept, MetricIsAnswer
<1>12. CASE Return
  BY <1>12 DEF Return, StatusInv, StatusKept, MetricIsAnswer
<1>13. CASE Abort
  BY <1>0, <1>13 DEF Abort, StatusInv, MetricIsAnswer
<1>14. CASE Ended \/ UNCHANGED vars
  BY <1>3, <1>14 DEF Ended, vars
<1>15. CASE ProxyStep
  BY <1>5, <1>6, <1>7, <1>8, <1>15 DEF ProxyStep
<1> QED BY <1>1, <1>2, <1>4, <1>9, <1>10, <1>11, <1>12, <1>13, <1>14, <1>15 DEF Later, WriterStep

(***************************************************************************)
(* requests_total counts each request under the status its client got,     *)
(* for every chain of plugins and however many informational responses,    *)
(* refusals, failures and upgrades came in between.                        *)
(***************************************************************************)
THEOREM MetricsAreAnswers == Spec => []MetricIsAnswer
<1>1. StatusInv => MetricIsAnswer
  BY DEF StatusInv
<1> QED BY <1>1, StatusInit, StatusNext, PTL DEF Spec

-----------------------------------------------------------------------------
(* What reaches an origin *)

\* A plugin that blocks some requests does not block this one.
Lets(p, q) ==
    /\ p.name = "request_size_limiting" => q.length <= p.maxBytes
    /\ p.name = "jwt_auth" => extractToken(q) = "valid"
    /\ p.name = "cors" => ~Preflight(q)

\* The plugins before the one the request has come to have let it pass, and
\* only the proxy sends informational responses, after which it goes on.
PassedInv ==
    /\ at \in Nat \ {0} /\ Len(Chain) \in Nat
    /\ pc = "accept" => at = 1 /\ ~reached
    /\ \A i \in 1..Len(Chain) : i < at => Lets(Chain[i], req)
    /\ pc = "origin" \/ reached => at = Last
    /\ pc = "chain" => ~reached
    /\ DOMAIN call = {"code", "pos", "relayed"}
    /\ call.code = 103 => at = Last /\ pc \notin {"accept", "chain"}

\* Every service has a chain, and so has a request without one.
LEMMA ChainLengths ==
    /\ Len(ChainOf(NoService)) \in Nat
    /\ \A c \in Configs : \A i \in DOMAIN c : Len(ChainOf(c[i])) \in Nat
<1>1. ASSUME NEW x, NEW S, NEW s \in Seq(S) PROVE Len(<<x>> \o s) \in Nat
  <2>1. s \in Seq(S \cup {x}) /\ <<x>> \in Seq(S \cup {x})
    OBVIOUS
  <2> QED BY <2>1
<1>2. << >> \in Seq({})
  OBVIOUS
<1> QED BY <1>1, <1>2, ConfigAssumption DEF ChainOf, NoService, IsList

\* Calls of WriteHeader, and everything after them, stay where they are.
LEMMA PassedStays ==
    ASSUME PassedInv, UNCHANGED <<svc, req, at>>, pc' \notin {"accept", "chain"},
           pc' = "origin" \/ reached' => at = Last,
           DOMAIN call' = {"code", "pos", "relayed"}, call'.code = 103 => at = Last
    PROVE  PassedInv'
  BY DEF PassedInv, Chain, Last

\* A plugin that calls the next one has let the request pass.
LEMMA PassedContinues ==
    ASSUME PassedInv, UNCHANGED <<svc, req, pc, reached, call>>, at' = at + 1, pc = "chain", at < Last,
           Lets(Plugin, req)
    PROVE  PassedInv'
<1>1. \A i \in 1..Len(Chain) : i < at + 1 => Lets(Chain[i], req)
  BY DEF PassedInv, Plugin
<1> QED BY <1>1 DEF PassedInv, Chain, Last

LEMMA PassedInit == Init => PassedInv
<1> SUFFICES ASSUME Init PROVE PassedInv
  OBVIOUS
<1>1. svc = NoService /\ pc = "accept" /\ at = 1 /\ call = NoCall /\ reached = FALSE
  BY Zenon DEF Init
<1> QED BY <1>1, ChainLengths DEF PassedInv, Chain, NoCall

LEMMA PassedNext == cfg \in Configs /\ PassedInv /\ [Next]_vars => PassedInv'
<1> SUFFICES ASSUME cfg \in Configs, PassedInv, Front \/ Arrive \/ Later PROVE PassedInv'
  BY NextSplit
<1>1. CASE Front
  <2>1. UNCHANGED <<svc, req, at, reached, call>> /\ pc' = "done" /\ pc = "accept"
    BY <1>1, FrontIs
  <2> QED BY <2>1, PassedStays DEF PassedInv
<1>2. CASE Arrive
  <2>1. /\ at = 1 /\ at' = 1 /\ req' = req /\ ~reached /\ ~reached'
        /\ pc' \in {"chain", "done"} /\ call' = call /\ pc = "accept"
    BY <1>2 DEF Arrive, PassedInv, arrival
  <2>2. Len(ChainOf(svc')) \in Nat
    <3> DEFINE ps == PatternsFor(cfg, req.host, req.method, req.path)
    <3>1. CASE UNCHANGED svc
      BY <3>1 DEF PassedInv, Chain
    <3>2. ASSUME NEW p \in MostSpecific(ps), svc' = cfg[p.service]
          PROVE  Len(ChainOf(svc')) \in Nat
      <4>1. p \in Patterns(cfg)
        BY <3>2 DEF MostSpecific, PatternsFor, Candidates
      <4>2. p.service \in DOMAIN cfg
        BY <4>1 DEF Patterns
      <4> QED BY <3>2, <4>2, ChainLengths
    <3> QED BY <1>2, <3>1, <3>2 DEF Arrive
  <2> QED BY <2>1, <2>2 DEF PassedInv, Chain
<1>3. UNCHANGED <<svc, req>> \/ ~Later
  BY ContextSettled
<1>4. CASE PluginStep
  <2>0. pc = "chain" /\ at < Last /\ UNCHANGED <<svc, req>>
    BY <1>3, <1>4 DEF PluginStep, RequestSizeLimiting, Cors, JwtAuth, RateLimiting, AddHeader,
                      ResponseHeaders, HttpLog, In, Later
  <2>1. ASSUME pc' = "write", UNCHANGED <<at, reached>>, DOMAIN call' = {"code", "pos", "relayed"},
               call'.code # 103
        PROVE  PassedInv'
    BY <2>0, <2>1, PassedStays DEF PassedInv
  <2>2. ASSUME at' = at + 1, UNCHANGED <<pc, reached, call>>, Lets(Plugin, req) PROVE PassedInv'
    BY <2>0, <2>2, PassedContinues
  <2>3. CASE RequestSizeLimiting
    BY <2>1, <2>2, <2>3 DEF RequestSizeLimiting, In, WriteHeader, Continue, Lets
  <2>4. CASE Cors
    BY <2>1, <2>2, <2>4 DEF Cors, In, WriteHeader, Continue, Lets
  <2>5. CASE JwtAuth
    BY <2>1, <2>2, <2>5 DEF JwtAuth, In, Error, WriteHeader, Continue, Lets
  <2>6. CASE RateLimiting
    BY <2>1, <2>2, <2>6 DEF RateLimiting, In, Error, WriteHeader, Continue, Lets
  <2>7. CASE AddHeader \/ ResponseHeaders \/ HttpLog
    BY <2>2, <2>7 DEF AddHeader, ResponseHeaders, HttpLog, In, Continue, Lets
  <2> QED BY <1>4, <2>3, <2>4, <2>5, <2>6, <2>7 DEF PluginStep
<1>5. CASE ProxyStep
  <2>0. UNCHANGED <<svc, req>>
    BY <1>3, <1>5 DEF Later
  <2>1. CASE RoundTrip
    BY <2>0, <2>1, PassedStays DEF RoundTrip, AtProxy, PassedInv
  <2>2. ASSUME UNCHANGED <<at, reached>>, pc' \in {"write", "body"}, at = Last,
               DOMAIN call' = {"code", "pos", "relayed"}
        PROVE  PassedInv'
    BY <2>0, <2>2, PassedStays DEF PassedInv
  <2>3. CASE FastFail \/ OriginFails \/ Inform
    BY <2>2, <2>3 DEF FastFail, OriginFails, Inform, BadGateway, WriteHeader, AtProxy, PassedInv
  <2>4. ASSUME NEW a \in Answers, Switch(a) \/ Respond(a) PROVE PassedInv'
    BY <2>2, <2>4 DEF Switch, Respond, BadGateway, WriteHeader, PassedInv
  <2> QED BY <1>5, <2>1, <2>3, <2>4 DEF ProxyStep
<1>6. CASE WriterStep
  <2>0. UNCHANGED <<svc, req, at, reached>>
    BY <1>6 DEF WriterStep, PassWriter, PassStatusWriter, WriteBody, request, context, arrival
  <2>2. DOMAIN call' = DOMAIN call /\ call'.code \in {call.code, 0} /\ pc \notin {"accept", "chain"}
    BY <1>6 DEF WriterStep, PassWriter, PassStatusWriter, WriteBody, PassedInv
  <2>1. pc' \in {"write", "body"} \/ (pc' = "origin" /\ call.code = 103)
    BY <1>6 DEF WriterStep, PassWriter, PassStatusWriter, WriteBody
  <2> QED BY <2>0, <2>1, <2>2, PassedStays DEF PassedInv
<1>7. CASE Return \/ Abort
  BY <1>7, PassedStays DEF Return, Abort, request, context, arrival, PassedInv
<1>8. CASE Ended \/ UNCHANGED vars
  BY <1>8 DEF Ended, vars, PassedInv, Chain, Last
<1> QED BY <1>1, <1>2, <1>4, <1>5, <1>6, <1>7, <1>8 DEF Later

(***************************************************************************)
(* What reaches an origin has been let through by every plugin of its      *)
(* service and by the gateway's own size limit, for every order in which   *)
(* plugins can be declared.                                                *)
(***************************************************************************)
THEOREM OriginsShielded == Spec => []OriginShielded
<1> DEFINE Inv == cfg \in Configs /\ PassedInv
<1>1. Init => Inv
  <2>1. Init => cfg \in Configs
    BY DEF Init
  <2> QED BY <2>1, PassedInit
<1>2. Inv /\ [Next]_vars => Inv'
  <2> SUFFICES ASSUME Inv, [Next]_vars PROVE Inv'
    OBVIOUS
  <2>1. cfg' = cfg
    BY NextSplit, ContextSettled, FrontIs DEF Arrive, arrival
  <2> QED BY <2>1, PassedNext
<1>3. Inv => OriginShielded
  BY DEF PassedInv, Lets, OriginShielded, Last
<1> QED BY <1>1, <1>2, <1>3, PTL DEF Spec

-----------------------------------------------------------------------------
(* What a step does, by what it means for the request and its response *)

\* A plugin hands the request on.
HandsOn ==
    /\ pc = "chain" /\ at < Last /\ pc' = "chain" /\ at' = at + 1
    /\ Lets(Plugin, req)
    /\ hdr' = IF Plugin.name = "cors" THEN CorsHeaders(Plugin, hdr) ELSE hdr
    /\ fwd' = IF Plugin.name = "add_header" THEN SetAll(fwd, Plugin.headers) ELSE fwd
    /\ logged' \in {logged, logged \cup {id}}
    /\ UNCHANGED <<context, applied, status, call, sent, counted, reached>>

\* The gateway itself calls WriteHeader: a plugin that blocks the request, or
\* the proxy.
Replies ==
    /\ pc \in {"chain", "origin"} /\ pc' = "write"
    /\ call' = [code |-> call'.code, pos |-> at - 1, relayed |-> FALSE]
    /\ \/ /\ pc = "chain" /\ at < Last
          /\ \/ Plugin.name = "cors" /\ Preflight(req) /\ call'.code = 204
                /\ hdr' = CorsHeaders(Plugin, hdr)
             \/ Plugin.name = "request_size_limiting" /\ req.length > Plugin.maxBytes
                /\ call'.code = 413 /\ hdr' = hdr
             \/ Plugin.name \in {"jwt_auth", "rate_limiting"}
                /\ call'.code \in {401, 429} /\ hdr' = Set(hdr, ContentType, "text/plain")
       \/ /\ pc = "origin" \/ AtProxy
          /\ call'.code = 502 /\ hdr' = Set(hdr, ContentType, "application/json")
       \/ pc = "origin" /\ sent.info < MaxInfo /\ call'.code = 103 /\ hdr' = hdr
    /\ UNCHANGED <<context, at, fwd, logged, applied, status, sent, counted, reached>>

\* The connection is taken over for an upgrade, or lost on the way.
Upgrades(a) ==
    /\ pc = "origin" /\ pc' = "body" /\ status' = 101
    /\ hdr' = copyHeader(hdr, Modified(a))
    /\ sent' = [sent EXCEPT !.status = 101, !.header = hdr', !.by = at]
    /\ UNCHANGED <<request, at, applied, call, counted, reached>>

Loses(a) ==
    /\ pc = "origin" /\ pc' = "write"
    /\ hdr' = Set(copyHeader(hdr, Modified(a)), ContentType, "application/json")
    /\ sent' = [sent EXCEPT !.status = Gone]
    /\ call' = [code |-> 502, pos |-> at - 1, relayed |-> FALSE]
    /\ UNCHANGED <<request, at, applied, status, counted, reached>>

Relays(a) == a.status # 101 /\ Respond(a)

LEMMA PluginStepIs == PluginStep => HandsOn \/ Replies
<1>1. RequestSizeLimiting => HandsOn \/ Replies
  BY DEF RequestSizeLimiting, In, WriteHeader, Continue, Lets, HandsOn, Replies
<1>2. Cors => HandsOn \/ Replies
  BY DEF Cors, In, WriteHeader, Continue, Lets, HandsOn, Replies
<1>3. JwtAuth => HandsOn \/ Replies
  BY DEF JwtAuth, In, Error, WriteHeader, Continue, Lets, HandsOn, Replies
<1>4. RateLimiting => HandsOn \/ Replies
  BY DEF RateLimiting, In, Error, WriteHeader, Continue, Lets, HandsOn, Replies
<1>5. AddHeader => HandsOn
  BY DEF AddHeader, In, Continue, Lets, HandsOn
<1>6. ResponseHeaders => HandsOn
  BY DEF ResponseHeaders, In, Continue, Lets, HandsOn
<1>7. HttpLog => HandsOn
  BY DEF HttpLog, In, Continue, Lets, HandsOn
<1> QED BY <1>1, <1>2, <1>3, <1>4, <1>5, <1>6, <1>7 DEF PluginStep

LEMMA ProxyStepIs ==
    ProxyStep => Replies \/ RoundTrip \/ \E a \in Answers : Relays(a) \/ Upgrades(a) \/ Loses(a)
<1>1. FastFail => Replies
  BY DEF FastFail, BadGateway, WriteHeader, AtProxy, Replies
<1>2. OriginFails => Replies
  BY DEF OriginFails, BadGateway, WriteHeader, Replies
<1>3. Inform => Replies
  BY DEF Inform, WriteHeader, Replies
<1>4. ASSUME NEW a \in Answers, Switch(a) PROVE Replies \/ Upgrades(a) \/ Loses(a)
  BY <1>4 DEF Switch, BadGateway, WriteHeader, Replies, Upgrades, Loses
<1> QED BY <1>1, <1>2, <1>3, <1>4 DEF ProxyStep, Relays

\* Every step after the middleware's is one of these.
LEMMA LaterIs ==
    Later => \/ HandsOn \/ Replies \/ RoundTrip
             \/ \E a \in Answers : Relays(a) \/ Upgrades(a) \/ Loses(a)
             \/ PassWriter \/ PassStatusWriter \/ WriteBody \/ Return \/ Abort \/ UNCHANGED vars
  BY PluginStepIs, ProxyStepIs DEF Later, WriterStep, Ended

-----------------------------------------------------------------------------
(* The route *)

\* What the middleware settles, and how everything is before it.
SettledInv ==
    /\ cfg \in Configs /\ Served(cfg) /\ req \in Requests
    /\ svc = NoService \/ \E i \in DOMAIN cfg : svc = cfg[i]
    /\ pc \in Pcs
    /\ pc = "accept" =>
         /\ svc = NoService /\ id = "" /\ at = 1
         /\ fwd = NoHeader /\ hdr = NoHeader
         /\ applied = {} /\ status = 200 /\ call = NoCall
         /\ sent = Nothing /\ counted = 0
         /\ logged = {} /\ reached = FALSE

LEMMA SettledInit == Init => SettledInv
  BY DEF Init, SettledInv, Pcs

\* A route is a service of the config.
LEMMA RouteIsService ==
    ASSUME NEW p \in MostSpecific(PatternsFor(cfg, req.host, req.method, req.path))
    PROVE  /\ p \in PatternsFor(cfg, req.host, req.method, req.path)
           /\ p.service \in DOMAIN cfg
           /\ p.host = cfg[p.service].host /\ p.paths = cfg[p.service].path
           /\ Addressed(cfg[p.service])
<1> DEFINE ps == PatternsFor(cfg, req.host, req.method, req.path)
<1>1. p \in ps
  BY DEF MostSpecific
<1>2. p \in Patterns(cfg) /\ p.host \in {req.host, ""} /\ req.path \in p.paths
  BY <1>1, PatternsForAre
<1> QED BY <1>1, <1>2, PatternIs DEF Addressed

LEMMA SettledNext == SettledInv /\ [Next]_vars => SettledInv'
<1> SUFFICES ASSUME SettledInv, Front \/ Arrive \/ Later PROVE SettledInv'
  BY NextSplit
<1>1. CASE Front
  BY <1>1, FrontIs DEF SettledInv, Pcs
<1>2. CASE Arrive
  <2>1. pc' \in {"chain", "done"} /\ UNCHANGED <<cfg, req>>
    BY <1>2 DEF Arrive, arrival
  <2>2. svc' = svc \/ \E i \in DOMAIN cfg : svc' = cfg[i]
    BY <1>2, RouteIsService DEF Arrive
  <2> QED BY <2>1, <2>2 DEF SettledInv, Pcs
<1>3. CASE Later
  <2>1. UNCHANGED <<cfg, req, svc, id>> /\ (pc # "accept" => pc' # "accept")
    BY <1>3, ContextSettled
  <2>2. UNCHANGED vars \/ pc # "accept"
    BY <1>3, LaterIs DEF HandsOn, Replies, RoundTrip, AtProxy, Relays, Respond, Upgrades, Loses,
       PassWriter, PassStatusWriter, WriteBody, Return, Abort
  <2>3. pc' \in Pcs
    BY <1>3, LaterIs DEF HandsOn, Replies, RoundTrip, Relays, Respond, WriteHeader, Upgrades, Loses,
       PassWriter, PassStatusWriter, WriteBody, Return, Abort, vars, SettledInv, Pcs
  <2>4. CASE pc # "accept"
    BY <2>1, <2>3, <2>4 DEF SettledInv
  <2>5. CASE UNCHANGED vars
    BY <2>5 DEF vars, SettledInv
  <2> QED BY <2>2, <2>4, <2>5
<1> QED BY <1>1, <1>2, <1>3

\* What ServeMux makes of a request that is addressed to a service.
LEMMA ArrivesAtHost ==
    ASSUME SettledInv, Arrive, NEW i \in DOMAIN cfg, Addressed(cfg[i]),
           \/ Declares(cfg[i], req.method)
           \/ req.method = "OPTIONS" /\ hasCORSPlugin(cfg[i]),
           ~Redirected(cfg, req.host, req.method, req.path)
    PROVE  /\ \E k \in DOMAIN cfg : svc' = cfg[k] /\ Addressed(cfg[k])
           /\ pc' = "chain"
           /\ cfg[i].host # "" => svc'.host = req.host
           /\ cfg[i].host = svc'.host => svc'.path \subseteq cfg[i].path
<1> DEFINE ps == PatternsFor(cfg, req.host, req.method, req.path)
<1>1. IsList(cfg[i].methods) /\ req.method \in Methods /\ req.path \in cfg[i].path
  BY ConfigAssumption, RequestAssumption DEF SettledInv, Addressed
<1>2. PICK q \in Candidates(cfg, cfg[i].host, req.method, req.path) : q.service = i
  BY <1>1, PatternOf
<1>3. cfg[i].host \in {req.host, ""}
  BY DEF Addressed
<1>4. /\ ps # {}
      /\ cfg[i].host # "" => \A p \in ps : p.host = req.host
      /\ \A p \in ps : p.host = cfg[i].host => q \in ps
  <2> DEFINE h == cfg[i].host
  <2>1. q \in Candidates(cfg, h, req.method, req.path) /\ h \in {req.host, ""}
    BY <1>2, <1>3
  <2> HIDE DEF h
  <2>2. /\ ps # {}
        /\ h # "" => \A p \in ps : p.host = req.host
        /\ \A p \in ps : p.host = h => q \in ps
    BY <2>1, HostsFirst, Zenon
  <2> QED BY <2>2 DEF h
<1>9. Unrouted(cfg, req.host, req.method, req.path) # 301
  BY DEF Unrouted
<1>5. PICK p \in MostSpecific(ps) : svc' = cfg[p.service]
  BY <1>4, <1>9 DEF Arrive
<1>6. pc' = "chain"
  BY <1>4, <1>9 DEF Arrive
<1>7. p \in ps /\ p.service \in DOMAIN cfg /\ p.host = svc'.host /\ p.paths = svc'.path /\ Addressed(svc')
  BY <1>5, RouteIsService
<1>8. cfg[i].host = svc'.host => svc'.path \subseteq cfg[i].path
  <2> SUFFICES ASSUME cfg[i].host = svc'.host PROVE svc'.path \subseteq cfg[i].path
    OBVIOUS
  <2>1. q \in ps
    BY <1>4, <1>7
  <2>2. p.paths \subseteq q.paths
    BY <1>5, <2>1, MostSpecificPaths
  <2>3. q.paths = cfg[i].path
    BY <1>2, PatternIs DEF Candidates
  <2> QED BY <1>7, <2>2, <2>3
<1> QED BY <1>4, <1>5, <1>6, <1>7, <1>8

\* A service has a path, and where there is none, none was found.
LEMMA ServicesHavePaths ==
    ASSUME NEW c \in Configs, NEW i \in DOMAIN c
    PROVE  c[i] # NoService
<1>1. "path" \in DOMAIN c[i]
  BY ConfigAssumption
<1>2. "path" \notin DOMAIN NoService
  BY DEF NoService
<1> QED BY <1>1, <1>2

LEMMA RoutedNext == SettledInv /\ RoutedByHost /\ [Next]_vars => RoutedByHost'
<1> SUFFICES ASSUME SettledInv, RoutedByHost, Front \/ Arrive \/ Later PROVE RoutedByHost'
  BY NextSplit
<1>1. CASE UNCHANGED <<cfg, req, svc, id>>
  BY <1>1 DEF RoutedByHost, Addressed
<1>2. CASE Arrive
  <2>1. UNCHANGED <<cfg, req>> /\ cfg \in Configs
    BY <1>2 DEF Arrive, arrival, SettledInv
  <2>2. svc' # NoService => Addressed(svc)'
    <3>1. CASE svc' = svc
      BY <1>2, <3>1 DEF Arrive, SettledInv
    <3>2. ASSUME NEW p \in MostSpecific(PatternsFor(cfg, req.host, req.method, req.path)),
                 svc' = cfg[p.service]
          PROVE  Addressed(svc)'
      BY <2>1, <3>2, RouteIsService DEF Addressed
    <3> QED BY <1>2, <3>1, <3>2 DEF Arrive
  <2>3. ASSUME NEW i \in DOMAIN cfg, Addressed(cfg[i]), Declares(cfg[i], req.method),
               ~Redirected(cfg, req.host, req.method, req.path)
        PROVE  /\ svc' # NoService
               /\ cfg[i].host # "" => svc'.host = req.host
               /\ cfg[i].host = svc'.host => svc'.path \subseteq cfg[i].path
    BY <1>2, <2>1, <2>3, ArrivesAtHost, ServicesHavePaths
  <2> QED BY <2>1, <2>2, <2>3 DEF RoutedByHost, Addressed, Declares
<1>3. CASE Front
  BY <1>1, <1>3, FrontIs
<1>4. CASE Later
  BY <1>1, <1>4, ContextSettled
<1> QED BY <1>2, <1>3, <1>4

(***************************************************************************)
(* A service with a host gets no other host's requests, a host's requests  *)
(* go to its own services when one takes the method, and the narrower path *)
(* wins: for every config that router.Build and ServeMux accept.           *)
(***************************************************************************)
THEOREM RequestsRoutedByHost == Spec => []RoutedByHost
<1> DEFINE Inv == SettledInv /\ RoutedByHost
<1>1. Init => Inv
  <2>1. Init => svc = NoService /\ id = ""
    BY DEF Init
  <2> QED BY <2>1, SettledInit DEF RoutedByHost
<1>2. Inv /\ [Next]_vars => Inv'
  BY SettledNext, RoutedNext
<1> QED BY <1>1, <1>2, PTL DEF Spec

-----------------------------------------------------------------------------
(* Preflights *)

\* The gateway's own size limit is the first of a chain, the service's plugins
\* are the others.
LEMMA ChainIs ==
    ASSUME NEW s, IsList(s.plugins)
    PROVE  /\ Len(s.plugins) \in Nat /\ DOMAIN s.plugins = 1..Len(s.plugins)
           /\ Len(ChainOf(s)) = Len(s.plugins) + 1
           /\ ChainOf(s)[1] = [name |-> "request_size_limiting", maxBytes |-> maxBodyBytes]
           /\ \A j \in DOMAIN s.plugins : ChainOf(s)[j + 1] = s.plugins[j]
<1> DEFINE ps == s.plugins
           x == [name |-> "request_size_limiting", maxBytes |-> maxBodyBytes]
           S == {ps[i] : i \in DOMAIN ps} \cup {x}
<1>1. Len(ps) \in Nat /\ DOMAIN ps = 1..Len(ps)
  BY ListDomain
<1>2. ps \in Seq(S) /\ <<x>> \in Seq(S)
  <2>1. ps \in Seq({ps[i] : i \in DOMAIN ps})
    BY DEF IsList
  <2> QED BY <2>1
<1>3. ChainOf(s) = <<x>> \o ps
  BY DEF ChainOf
<1> HIDE DEF x, S, ps
<1>4. /\ Len(ChainOf(s)) = Len(ps) + 1 /\ ChainOf(s)[1] = x
      /\ \A j \in 1..Len(ps) : ChainOf(s)[j + 1] = ps[j]
  BY <1>1, <1>2, <1>3
<1> QED BY <1>1, <1>4 DEF x, ps

LEMMA PluginsListed ==
    ASSUME SettledInv, NEW n \in DOMAIN cfg
    PROVE  IsList(cfg[n].plugins)
<1>1. cfg \in Configs
  BY DEF SettledInv
<1> QED BY <1>1, ConfigAssumption, Zenon

\* A preflight of a service whose cors plugin nothing blocks before.
ForCors(n, i) ==
    /\ Preflight(req) /\ req.length <= maxBodyBytes
    /\ FrontStatus(req) = 0 /\ ~Redirected(cfg, req.host, req.method, req.path)
    /\ Addressed(cfg[n])
    /\ \A k \in DOMAIN cfg : Addressed(cfg[k]) => k = n
    /\ cfg[n].plugins[i].name = "cors"
    /\ \A j \in 1..(i - 1) : cfg[n].plugins[j].name \notin Blocking

\* It gets no further than the cors plugin, and that answers it.
AnsweredBy(n, i) ==
    \/ pc = "accept"
    \/ pc = "chain" /\ svc = cfg[n] /\ at \in 1..(i + 1)
    \/ pc = "write" /\ call.code = 204 /\ sent.status = 0
    \/ pc \in {"write", "body", "done"} /\ sent.status = 204

PreflightInv ==
    \A n \in DOMAIN cfg : \A i \in DOMAIN cfg[n].plugins : ForCors(n, i) => AnsweredBy(n, i)

LEMMA PreflightArrives ==
    ASSUME SettledInv, Arrive, NEW n \in DOMAIN cfg, NEW i \in DOMAIN cfg[n].plugins, ForCors(n, i)
    PROVE  AnsweredBy(n, i)'
<1>1. UNCHANGED <<cfg, at>> /\ at = 1
  BY DEF Arrive, arrival, SettledInv
<1>2. req.method = "OPTIONS" /\ hasCORSPlugin(cfg[n])
  BY DEF ForCors, Preflight, hasCORSPlugin
<1>3. pc' = "chain" /\ svc' = cfg[n]
  BY <1>2, ArrivesAtHost DEF ForCors
<1>4. i \in Nat
  <2>1. IsList(cfg[n].plugins)
    BY PluginsListed
  <2>2. Len(cfg[n].plugins) \in Nat /\ i \in 1..Len(cfg[n].plugins)
    BY <2>1, ListDomain
  <2> QED BY <2>2
<1> QED BY <1>1, <1>3, <1>4 DEF AnsweredBy

LEMMA PreflightInChain ==
    ASSUME SettledInv, NEW n \in DOMAIN cfg, NEW i \in DOMAIN cfg[n].plugins, ForCors(n, i),
           pc = "chain", AnsweredBy(n, i)
    PROVE  /\ svc = cfg[n] /\ at \in 1..(i + 1) /\ i \in Nat /\ at < Last
           /\ at = i + 1 => Plugin.name = "cors"
           /\ at = 1 => Plugin.name = "request_size_limiting" /\ Plugin.maxBytes = maxBodyBytes
           /\ at # 1 => Plugin.name \notin Blocking \/ at = i + 1
<1>1. svc = cfg[n] /\ at \in 1..(i + 1)
  BY DEF AnsweredBy
<1>2. IsList(cfg[n].plugins)
  BY PluginsListed
<1> DEFINE ps == cfg[n].plugins
<1>3. /\ Len(ps) \in Nat /\ DOMAIN ps = 1..Len(ps)
      /\ Len(Chain) = Len(ps) + 1
      /\ Chain[1] = [name |-> "request_size_limiting", maxBytes |-> maxBodyBytes]
      /\ \A j \in DOMAIN ps : Chain[j + 1] = ps[j]
  BY <1>1, <1>2, ChainIs DEF Chain
<1>4. i \in 1..Len(ps) /\ ps[i].name = "cors" /\ \A j \in 1..(i - 1) : ps[j].name \notin Blocking
  BY <1>3 DEF ForCors
<1> HIDE DEF ps
<1>5. i \in Nat /\ at < Last /\ (at = i + 1 => Plugin.name = "cors")
  BY <1>1, <1>3, <1>4 DEF Last, Plugin
<1>6. at = 1 => Plugin.name = "request_size_limiting" /\ Plugin.maxBytes = maxBodyBytes
  BY <1>3 DEF Plugin
<1>7. ASSUME at # 1, at # i + 1 PROVE Plugin.name \notin Blocking
  <2>1. at - 1 \in 1..(i - 1) /\ at - 1 \in 1..Len(ps) /\ (at - 1) + 1 = at
    BY <1>1, <1>4, <1>5, <1>7
  <2>2. Chain[at] = ps[at - 1]
    BY <1>3, <2>1
  <2> QED BY <1>4, <2>1, <2>2 DEF Plugin
<1> QED BY <1>1, <1>5, <1>6, <1>7

LEMMA PreflightGoesOn ==
    ASSUME SettledInv, StatusInv, Later, NEW n \in DOMAIN cfg, NEW i \in DOMAIN cfg[n].plugins,
           ForCors(n, i), AnsweredBy(n, i)
    PROVE  AnsweredBy(n, i)'
<1>0. UNCHANGED <<cfg, req, svc>>
  BY ContextSettled
<1>1. pc = "chain" =>
           /\ svc = cfg[n] /\ at \in 1..(i + 1) /\ i \in Nat /\ at < Last
           /\ at = i + 1 => Plugin.name = "cors"
           /\ at = 1 => Plugin.name = "request_size_limiting" /\ Plugin.maxBytes = maxBodyBytes
           /\ at # 1 => Plugin.name \notin Blocking \/ at = i + 1
  BY PreflightInChain
<1>2. /\ Preflight(req) /\ req.length <= maxBodyBytes /\ maxBodyBytes \in Int /\ req.length \in Int
      /\ pc # "origin"
  BY BoundsAssumption, RequestAssumption DEF ForCors, AnsweredBy, SettledInv
<1>3. pc = "chain" => sent.status = 0
  BY DEF StatusInv
<1>4. CASE HandsOn
  <2>1. pc = "chain" /\ pc' = "chain" /\ at' = at + 1 /\ at # i + 1
    BY <1>1, <1>2, <1>4 DEF HandsOn, Lets
  <2> QED BY <1>0, <1>1, <2>1 DEF AnsweredBy
<1>5. CASE Replies
  <2>1. pc = "chain" /\ at < Last /\ pc' = "write" /\ sent' = sent
    BY <1>1, <1>2, <1>5 DEF Replies
  <2>2. /\ Plugin.name \in {"cors", "request_size_limiting", "jwt_auth", "rate_limiting"}
        /\ Plugin.name = "cors" => call'.code = 204
        /\ Plugin.name = "request_size_limiting" => req.length > Plugin.maxBytes
    BY <1>5, <2>1, <1>1 DEF Replies, AtProxy
  <2>3. Plugin.name = "cors"
    BY <1>1, <1>2, <2>1, <2>2 DEF Blocking
  <2> QED BY <1>3, <2>1, <2>2, <2>3 DEF AnsweredBy
<1>6. CASE RoundTrip
  BY <1>1, <1>6 DEF RoundTrip, AtProxy
<1>7. ASSUME NEW a \in Answers, Relays(a) \/ Upgrades(a) \/ Loses(a) PROVE FALSE
  BY <1>2, <1>7 DEF Relays, Respond, Upgrades, Loses
<1>8. CASE PassWriter
  BY <1>8 DEF PassWriter, AnsweredBy, StatusInv
<1>9. CASE PassStatusWriter
  <2>1. pc = "write" /\ DOMAIN sent = {"status", "header", "by", "info"}
    BY <1>9 DEF PassStatusWriter, StatusInv
  <2>2. CASE call.code = 204 /\ sent.status = 0
    <3>1. pc' = "body" /\ sent' = [sent EXCEPT !.status = 204, !.header = hdr, !.by = at]
      BY <1>9, <2>2 DEF PassStatusWriter
    <3> QED BY <2>1, <3>1 DEF AnsweredBy
  <2>3. CASE sent.status = 204
    <3>1. call.code # 103
      BY <2>1, <2>3 DEF StatusInv
    <3> QED BY <1>9, <2>1, <2>3, <3>1 DEF PassStatusWriter, AnsweredBy
  <2> QED BY <2>1, <2>2, <2>3 DEF AnsweredBy
<1>10. CASE WriteBody \/ Return \/ Abort
  BY <1>10 DEF WriteBody, Return, Abort, AnsweredBy
<1>11. CASE UNCHANGED vars
  BY <1>11 DEF vars, AnsweredBy
<1> QED BY <1>4, <1>5, <1>6, <1>7, <1>8, <1>9, <1>10, <1>11, LaterIs

LEMMA PreflightNext == SettledInv /\ StatusInv /\ PreflightInv /\ [Next]_vars => PreflightInv'
<1> SUFFICES ASSUME SettledInv, StatusInv, PreflightInv, Front \/ Arrive \/ Later,
                    NEW n \in DOMAIN cfg, NEW i \in DOMAIN cfg[n].plugins, ForCors(n, i)
             PROVE  AnsweredBy(n, i)'
  <2>1. [Next]_vars => UNCHANGED <<cfg, req>>
    BY NextSplit, ContextSettled, FrontIs DEF Arrive, arrival
  <2> QED BY <2>1, NextSplit DEF PreflightInv, ForCors, Addressed
<1>1. CASE Front
  <2>1. req.method \in {"GET", "HEAD"} /\ req.method = "OPTIONS"
    BY <1>1, FrontIs DEF InFront, ForInfo, ForCors, Preflight
  <2> QED BY <2>1
<1> QED BY <1>1, PreflightArrives, PreflightGoesOn DEF PreflightInv

(***************************************************************************)
(* A service that declares cors before every blocking plugin answers each  *)
(* preflight to its route with 204, whatever its list of methods, however  *)
(* long its chain and wherever in it the cors plugin is, as long as the    *)
(* path is clean and ServeMux does not complete it with a slash.           *)
(***************************************************************************)
THEOREM PreflightsAnswered == Spec => []PreflightAnswered
<1> DEFINE Inv == SettledInv /\ StatusInv /\ PreflightInv
<1>1. Init => Inv
  <2>1. Init => pc = "accept"
    BY DEF Init
  <2> QED BY <2>1, SettledInit, StatusInit DEF PreflightInv, AnsweredBy
<1>2. Inv /\ [Next]_vars => Inv'
  BY SettledNext, StatusNext, PreflightNext
<1>3. Inv => PreflightAnswered
  BY DEF PreflightInv, ForCors, AnsweredBy, PreflightAnswered
<1> QED BY <1>1, <1>2, <1>3, PTL DEF Spec

-----------------------------------------------------------------------------
(* Headers *)

\* Setting a header replaces what it had, and leaves the others alone.
LEMMA SetIs ==
    ASSUME NEW h \in Headers, NEW n \in Names, NEW v \in Values
    PROVE  /\ Set(h, n, v) \in Headers
           /\ Set(h, n, v)[n] = <<v>>
           /\ \A o \in Names \ {n} : Set(h, n, v)[o] = h[o]
<1>1. <<v>> \in Seq(Values)
  OBVIOUS
<1> QED BY <1>1 DEF Set, Headers

LEMMA NoHeaderIs == NoHeader \in Headers /\ \A n \in Names : NoHeader[n] = << >>
<1>1. << >> \in Seq(Values)
  OBVIOUS
<1> QED BY <1>1 DEF NoHeader, Headers

LEMMA SetAllIs ==
    ASSUME NEW h \in Headers, NEW m, stringMap(m)
    PROVE  /\ SetAll(h, m) \in Headers
           /\ \A n \in Names : SetAll(h, m)[n] = IF n \in DOMAIN m THEN <<m[n]>> ELSE h[n]
<1>1. \A n \in DOMAIN m : <<m[n]>> \in Seq(Values)
  BY DEF stringMap
<1> QED BY <1>1 DEF SetAll, Headers

\* A proxied request loses the headers its Connection header names, no others.
LEMMA EndToEndIs ==
    ASSUME NEW h \in Headers, NEW q
    PROVE  /\ endToEnd(h, q) \in Headers
           /\ \A n \in Names : n \notin q.connection => endToEnd(h, q)[n] = h[n]
<1>1. << >> \in Seq(Values)
  OBVIOUS
<1> QED BY <1>1 DEF endToEnd, Headers

\* An origin's header is added, without the id it may have sent.
LEMMA RelayedIs ==
    ASSUME NEW h \in Headers, NEW a \in Answers
    PROVE  /\ copyHeader(h, Modified(a)) \in Headers
           /\ copyHeader(h, Modified(a))[RequestId] = h[RequestId]
<1>1. a.header \in Headers /\ RequestId \in Names
  BY AnswerAssumption, BoundsAssumption
<1>2. Modified(a) \in Headers /\ Modified(a)[RequestId] = << >>
  <2>1. << >> \in Seq(Values)
    OBVIOUS
  <2> QED BY <1>1, <2>1 DEF Modified, Headers
<1>3. \A s, t \in Seq(Values) : s \o t \in Seq(Values) /\ s \o << >> = s
  OBVIOUS
<1> QED BY <1>1, <1>2, <1>3 DEF copyHeader, Headers

\* cors touches the headers that let a page read a response, Vary, and those
\* a preflight asks for.
LEMMA CorsHeadersAre ==
    ASSUME NEW h \in Headers, NEW p, OptionTypes(p), p.name = "cors", req \in Requests,
           NEW g, g = CorsHeaders(p, h)
    PROVE  /\ g \in Headers
           /\ g[RequestId] = h[RequestId]
           /\ g[AllowOrigin] =
                IF req.origin = "" \/ ~originAllowed(p, req.origin) THEN h[AllowOrigin]
                ELSE IF "*" \in p.origins THEN <<"*">> ELSE <<req.origin>>
           /\ g[AllowCredentials] =
                IF (req.origin # "" /\ originAllowed(p, req.origin)) /\ p.credentials
                THEN <<"true">> ELSE h[AllowCredentials]
<1> DEFINE v == <<IF "*" \in p.origins THEN "*" ELSE req.origin>>
           c == IF p.credentials THEN <<"true">> ELSE h[AllowCredentials]
           allow == [h EXCEPT ![Vary] = Append(@, "Origin"), ![AllowOrigin] = v,
                              ![AllowCredentials] = c]
<1>1. /\ {RequestId, AllowOrigin, AllowCredentials, Vary} \subseteq Names
      /\ {"Origin", "*", "true", req.origin} \subseteq Values
  BY BoundsAssumption, RequestAssumption
<1>2. /\ AllowOrigin # AllowCredentials /\ Vary \notin {AllowOrigin, AllowCredentials}
      /\ RequestId \notin {AllowOrigin, AllowCredentials, Vary}
  BY DEF AllowOrigin, AllowCredentials, Vary, RequestId
<1>3. /\ Append(h[Vary], "Origin") \in Seq(Values) /\ v \in Seq(Values) /\ c \in Seq(Values)
  <2>1. \A s \in Seq(Values) : \A x \in Values : Append(s, x) \in Seq(Values) /\ <<x>> \in Seq(Values)
    OBVIOUS
  <2> QED BY <1>1, <2>1 DEF Headers
<1>4. /\ allow \in Headers /\ allow[RequestId] = h[RequestId]
      /\ allow[AllowOrigin] = v /\ allow[AllowCredentials] = c
  <2> HIDE DEF v, c
  <2> QED BY <1>1, <1>2, <1>3 DEF Headers
<1>5. /\ stringMap(p.preflight)
      /\ DOMAIN p.preflight \cap {RequestId, AllowOrigin, AllowCredentials} = {}
  BY DEF OptionTypes, RequestId, AllowOrigin, AllowCredentials
<1>6. CASE req.origin = "" \/ ~originAllowed(p, req.origin)
  BY <1>6 DEF CorsHeaders
<1>7. CASE req.origin # "" /\ originAllowed(p, req.origin)
  <2>1. g = IF Preflight(req) THEN SetAll(allow, p.preflight) ELSE allow
    BY <1>7 DEF CorsHeaders
  <2> HIDE DEF allow, v, c
  <2>2. /\ SetAll(allow, p.preflight) \in Headers
        /\ \A n \in {RequestId, AllowOrigin, AllowCredentials} :
              SetAll(allow, p.preflight)[n] = allow[n]
    <3>1. allow \in Headers
      BY <1>4
    <3>2. /\ SetAll(allow, p.preflight) \in Headers
          /\ \A n \in Names : SetAll(allow, p.preflight)[n] =
                IF n \in DOMAIN p.preflight THEN <<p.preflight[n]>> ELSE allow[n]
      BY <1>5, <3>1, SetAllIs
    <3> QED BY <1>1, <1>5, <3>2
  <2>3. /\ g \in Headers /\ g[RequestId] = h[RequestId]
        /\ g[AllowOrigin] = v /\ g[AllowCredentials] = c
    BY <1>4, <2>1, <2>2
  <2> QED BY <1>7, <2>3 DEF v, c
<1> QED BY <1>6, <1>7

\* response_headers sets a header to what its last rule for the type says, or
\* else to its own, or leaves it.
LEMMA AppliedIs ==
    ASSUME NEW h \in Headers, NEW p, OptionTypes(p), p.name = "response_headers",
           NEW n \in Names
    PROVE  /\ apply(p, h) \in Headers
           /\ n \notin DOMAIN p.headers /\ ~RuleSets(p, n) => apply(p, h)[n] = h[n]
<1> DEFINE set == SetAll(h, p.headers)
           rules(o) == RulesFor(p, set[ContentType], o)
           last(o) == CHOOSE i \in rules(o) : \A j \in rules(o) : j <= i
<1>1. /\ set \in Headers
      /\ \A o \in Names : set[o] = IF o \in DOMAIN p.headers THEN <<p.headers[o]>> ELSE h[o]
  BY SetAllIs DEF OptionTypes
<1>2. Len(p.rules) \in Nat /\ DOMAIN p.rules = 1..Len(p.rules)
  BY ListDomain DEF OptionTypes
<1>3. ASSUME NEW o \in Names, rules(o) # {}
      PROVE  <<p.rules[last(o)].headers[o]>> \in Seq(Values)
  <2>1. rules(o) \subseteq 1..Len(p.rules)
    BY <1>2 DEF RulesFor
  <2>2. \E i \in rules(o) : \A j \in rules(o) : j <= i
    BY <1>2, <1>3, <2>1, LastPosition
  <2> DEFINE k == last(o)
  <2>3. k \in rules(o)
    BY <2>2
  <2> HIDE DEF k
  <2>4. k \in DOMAIN p.rules /\ o \in DOMAIN p.rules[k].headers
    BY <2>3 DEF RulesFor
  <2>5. p.rules[k].headers[o] \in Values
    BY <2>4 DEF OptionTypes, stringMap
  <2> QED BY <2>5 DEF k
<1>4. apply(p, h) = [o \in Names |-> IF rules(o) = {} THEN set[o]
                                     ELSE <<p.rules[last(o)].headers[o]>>]
  BY DEF apply
<1>5. ~RuleSets(p, n) => rules(n) = {}
  BY DEF RuleSets, RulesFor
<1>6. apply(p, h) \in Headers
  <2> HIDE DEF set, rules, last
  <2> QED BY <1>1, <1>3, <1>4 DEF Headers
<1>7. n \notin DOMAIN p.headers /\ ~RuleSets(p, n) => apply(p, h)[n] = h[n]
  <2> HIDE DEF set, rules, last
  <2> QED BY <1>1, <1>4, <1>5
<1> QED BY <1>6, <1>7

-----------------------------------------------------------------------------
(* Types *)

\* The type invariant, and that an informational response on its way out is
\* one of those there may be.
TypeInv ==
    /\ TypeOK
    /\ pc = "write" /\ call.code = 103 => sent.info < MaxInfo

\* The plugins of a service have what their factories made of their config.
LEMMA ServiceTyped ==
    ASSUME NEW c \in Configs, NEW s, s = NoService \/ \E n \in DOMAIN c : s = c[n]
    PROVE  /\ Len(ChainOf(s)) \in Nat /\ ChainOf(s)[1].name = "request_size_limiting"
           /\ \A i \in 1..Len(ChainOf(s)) : OptionTypes(ChainOf(s)[i])
<1>1. /\ IsList(s.plugins)
      /\ \A j \in DOMAIN s.plugins : OptionTypes(s.plugins[j])
  <2>1. CASE s = NoService
    <3>1. s.plugins = << >>
      BY <2>1 DEF NoService
    <3>2. << >> \in Seq({<< >>[j] : j \in DOMAIN << >>}) /\ DOMAIN << >> = {}
      OBVIOUS
    <3> QED BY <3>1, <3>2 DEF IsList
  <2>2. CASE \E n \in DOMAIN c : s = c[n]
    <3>1. PICK n \in DOMAIN c : s = c[n]
      BY <2>2
    <3> QED BY <3>1, ConfigAssumption, Zenon
  <2> QED BY <2>1, <2>2
<1>2. /\ Len(s.plugins) \in Nat /\ DOMAIN s.plugins = 1..Len(s.plugins)
      /\ Len(ChainOf(s)) = Len(s.plugins) + 1
      /\ ChainOf(s)[1] = [name |-> "request_size_limiting", maxBytes |-> maxBodyBytes]
      /\ \A j \in DOMAIN s.plugins : ChainOf(s)[j + 1] = s.plugins[j]
  BY <1>1, ChainIs
<1>3. ASSUME NEW i \in 1..Len(ChainOf(s)) PROVE OptionTypes(ChainOf(s)[i])
  <2>1. CASE i = 1
    <3>1. ChainOf(s)[i].name = "request_size_limiting"
      BY <1>2, <2>1
    <3> QED BY <3>1 DEF OptionTypes
  <2>2. CASE i # 1
    <3>1. i - 1 \in DOMAIN s.plugins /\ (i - 1) + 1 = i
      BY <1>2, <1>3, <2>2
    <3>2. ChainOf(s)[i] = s.plugins[i - 1]
      BY <1>2, <3>1
    <3> QED BY <1>1, <3>1, <3>2
  <2> QED BY <2>1, <2>2
<1> QED BY <1>2, <1>3

LEMMA ChainTyped ==
    ASSUME SettledInv
    PROVE  /\ Len(Chain) \in Nat /\ Last = Len(Chain) + 1
           /\ \A i \in 1..Len(Chain) : OptionTypes(Chain[i])
<1>1. cfg \in Configs /\ (svc = NoService \/ \E n \in DOMAIN cfg : svc = cfg[n])
  BY DEF SettledInv
<1> QED BY <1>1, ServiceTyped DEF Chain, Last

\* What the client has got, once a status goes out.
LEMMA SentTyped ==
    ASSUME NEW S, NEW H, NEW B, NEW I, NEW s \in [status : S, header : H, by : B, info : I],
           NEW c \in S, NEW h \in H, NEW b \in B
    PROVE  [s EXCEPT !.status = c, !.header = h, !.by = b] \in [status : S, header : H, by : B, info : I]
  OBVIOUS

\* For the steps that stay with the service.
LEMMA TypeKept ==
    ASSUME TypeInv, UNCHANGED svc, pc' \in Pcs, at' \in 1..Last, fwd' \in Headers, hdr' \in Headers,
           applied' \subseteq 1..Len(Chain), status' \in Codes,
           call' \in [code : Codes, pos : Nat, relayed : BOOLEAN], call'.pos < at',
           sent' \in [status : Codes \cup {Gone}, header : Headers, by : 0..Last, info : 0..MaxInfo],
           counted' \in Codes, reached' \in BOOLEAN,
           pc' = "write" /\ call'.code = 103 => sent'.info < MaxInfo
    PROVE  TypeInv'
  BY DEF TypeInv, TypeOK, Chain, Last

LEMMA HeaderNames ==
    /\ {RequestId, ContentType, AllowOrigin, AllowCredentials, Vary} \subseteq Names
    /\ {FreshId, "application/json", "text/plain", "text/html"} \subseteq Values
  BY BoundsAssumption

LEMMA TypeFront ==
    ASSUME SettledInv, TypeInv, Front PROVE TypeInv'
<1>1. hdr' \in Headers
  <2>1. hdr \in Headers /\ ContentType \in Names /\ {"text/html", "application/json"} \subseteq Values
    BY HeaderNames DEF TypeInv, TypeOK
  <2>2. Set(hdr, ContentType, "text/html") \in Headers /\ Set(hdr, ContentType, "application/json") \in Headers
    BY <2>1, SetIs
  <2>3. hdr' \in {hdr, Set(hdr, ContentType, "text/html"), Set(hdr, ContentType, "application/json")}
    BY FrontIs
  <2> QED BY <2>1, <2>2, <2>3
<1>2. UNCHANGED <<svc, at, fwd, applied, status, call, counted, reached>> /\ pc' = "done"
  BY FrontIs
<1>3. sent' \in [status : Codes \cup {Gone}, header : Headers, by : 0..Last, info : 0..MaxInfo]
  <2>1. sent \in [status : Codes \cup {Gone}, header : Headers, by : 0..Last, info : 0..MaxInfo]
    BY DEF TypeInv, TypeOK
  <2>2. sent' = [sent EXCEPT !.status = FrontCode, !.header = hdr']
    BY FrontIs
  <2>3. FrontCode \in Codes
    BY FrontIs DEF Codes
  <2> QED BY <1>1, <2>1, <2>2, <2>3
<1> QED BY <1>1, <1>2, <1>3, TypeKept DEF TypeInv, TypeOK, Pcs

LEMMA IdIsValue ==
    ASSUME req \in Requests
    PROVE  AssignId(req) \in Values /\ AssignId(req) # "" /\ \A s : ForwardedId(s, req, AssignId(req)) \in Values
<1>1. req.id \in Values /\ FreshId \in Values
  BY RequestAssumption, HeaderNames
<1> QED BY <1>1 DEF AssignId, ForwardedId, FreshId

LEMMA TypeArrive ==
    ASSUME SettledInv, TypeInv, Arrive, SettledInv' PROVE TypeInv'
<1> DEFINE i == AssignId(req)
           h == Set(NoHeader, RequestId, i)
<1>1. i \in Values /\ (\A s : ForwardedId(s, req, i) \in Values) /\ RequestId \in Names /\ ContentType \in Names
      /\ "text/plain" \in Values /\ "text/html" \in Values
  BY IdIsValue, HeaderNames DEF SettledInv
<1>2. h \in Headers /\ Set(h, ContentType, "text/plain") \in Headers
      /\ Set(h, ContentType, "text/html") \in Headers
      /\ \A s : Set(NoHeader, RequestId, ForwardedId(s, req, i)) \in Headers
  BY <1>1, SetIs, NoHeaderIs
<1>3. /\ at = 1 /\ applied = {} /\ call = NoCall /\ sent = Nothing /\ fwd = NoHeader /\ pc = "accept"
  BY DEF Arrive, SettledInv
<1>4. Len(Chain') \in Nat /\ Last' = Len(Chain') + 1
  <2>1. (cfg \in Configs /\ (svc = NoService \/ \E n \in DOMAIN cfg : svc = cfg[n]))'
    BY DEF SettledInv
  <2> QED BY <2>1, ServiceTyped DEF Chain, Last
<1>5. UNCHANGED <<at, applied, status, call, counted, reached>> /\ pc' \in {"chain", "done"}
  BY DEF Arrive
<1>6. hdr' \in Headers /\ fwd' \in Headers
  <2>1. hdr' \in {h, Set(h, ContentType, "text/plain"), Set(h, ContentType, "text/html")}
    BY ArriveIs
  <2>2. fwd' \in Headers
    BY <1>2, <1>3, NoHeaderIs DEF Arrive
  <2> QED BY <1>2, <2>1, <2>2
<1>7. \E c \in Codes : \E g \in Headers : sent' = [status |-> c, header |-> g, by |-> 0, info |-> 0]
  <2>1. sent = Nothing /\ NoHeader \in Headers
    BY <1>3, NoHeaderIs
  <2>2. {301, 404, 405, 0} \subseteq Codes
    BY DEF Codes
  <2>3. MuxCode \in Codes
    BY <2>2, ArriveIs
  <2>4. \/ sent' = sent
        \/ sent' = [status |-> MuxCode, header |-> hdr', by |-> 0, info |-> 0]
    BY <2>1, MuxAnswer, ArriveIs
  <2> QED BY <1>6, <2>1, <2>2, <2>3, <2>4 DEF Nothing
<1>8. sent' \in [status : Codes \cup {Gone}, header : Headers, by : 0..Last', info : 0..MaxInfo]
  <2>1. 0 \in 0..MaxInfo /\ 0 \in 0..Last'
    BY <1>4, BoundsAssumption
  <2> QED BY <1>7, <2>1
<1>9. /\ at' \in 1..Last' /\ applied' \subseteq 1..Len(Chain') /\ pc' \in Pcs /\ pc' # "write"
      /\ call' = call /\ call'.pos < at'
  BY <1>3, <1>4, <1>5 DEF NoCall, Pcs
<1> QED BY <1>5, <1>6, <1>8, <1>9 DEF TypeInv, TypeOK

LEMMA TypeLater ==
    ASSUME SettledInv, TypeInv, Later PROVE TypeInv'
<1> DEFINE Calls == [code : Codes, pos : Nat, relayed : BOOLEAN]
           Sents == [status : Codes \cup {Gone}, header : Headers, by : 0..Last, info : 0..MaxInfo]
<1>1. /\ pc \in Pcs /\ at \in 1..Last /\ fwd \in Headers /\ hdr \in Headers
      /\ applied \subseteq 1..Len(Chain) /\ status \in Codes /\ call \in Calls /\ call.pos < at
      /\ sent \in Sents /\ counted \in Codes /\ reached \in BOOLEAN
      /\ pc = "write" /\ call.code = 103 => sent.info < MaxInfo
  BY DEF TypeInv, TypeOK
<1>2. /\ Len(Chain) \in Nat /\ Last = Len(Chain) + 1
      /\ \A i \in 1..Len(Chain) : OptionTypes(Chain[i])
  BY ChainTyped
<1>3. svc' = svc /\ req \in Requests /\ pc' \in Pcs
  <2>1. pc' \in Pcs
    BY LaterIs, <1>1 DEF HandsOn, Replies, RoundTrip, Relays, Respond, WriteHeader, Upgrades, Loses,
       PassWriter, PassStatusWriter, WriteBody, Return, Abort, vars, Pcs
  <2> QED BY <2>1, ContextSettled DEF SettledInv
<1>4. at \in Nat /\ at - 1 \in Nat /\ at - 1 < at
  BY <1>1, <1>2
<1> HIDE DEF Calls, Sents
<1>5. ASSUME UNCHANGED <<fwd, applied, status, sent, counted, reached, at>>, hdr' \in Headers,
             NEW c \in Codes, NEW r \in BOOLEAN, call' = [code |-> c, pos |-> at - 1, relayed |-> r],
             c = 103 => sent.info < MaxInfo
      PROVE  TypeInv'
  <2>1. call' \in Calls /\ call'.pos < at /\ call'.code = c
    BY <1>4, <1>5 DEF Calls
  <2> QED BY <1>1, <1>3, <1>5, <2>1, TypeKept DEF Calls, Sents
<1>6. ASSUME NEW p, OptionTypes(p), p.name = "cors" PROVE CorsHeaders(p, hdr) \in Headers
  BY <1>1, <1>3, <1>6, CorsHeadersAre
<1>7. \A v \in {"text/plain", "application/json"} : Set(hdr, ContentType, v) \in Headers
  BY <1>1, SetIs, HeaderNames
<1>8. \A a \in Answers : copyHeader(hdr, Modified(a)) \in Headers
  BY <1>1, RelayedIs
<1>9. CASE HandsOn
  <2>1. at \in 1..Len(Chain) /\ OptionTypes(Plugin)
    BY <1>1, <1>2, <1>9 DEF HandsOn, Plugin
  <2>2. hdr' \in Headers
    BY <1>1, <1>6, <1>9, <2>1 DEF HandsOn
  <2>3. fwd' \in Headers
    BY <1>1, <1>9, <2>1, SetAllIs DEF HandsOn, OptionTypes
  <2>4. at' \in 1..Last /\ call.pos < at' /\ pc' # "write" /\ call.pos \in Nat
    BY <1>1, <1>2, <1>9, <2>1 DEF HandsOn, Calls
  <2>5. UNCHANGED <<applied, status, call, sent, counted, reached>>
    BY <1>9 DEF HandsOn
  <2> QED BY <1>1, <1>3, <2>2, <2>3, <2>4, <2>5, TypeKept DEF Calls, Sents
<1>10. CASE Replies
  <2>1. /\ UNCHANGED <<fwd, applied, status, sent, counted, reached, at>>
        /\ call' = [code |-> call'.code, pos |-> at - 1, relayed |-> FALSE]
    BY <1>10 DEF Replies
  <2>2. call'.code \in Codes /\ (call'.code = 103 => sent.info < MaxInfo)
    BY <1>10 DEF Replies, Codes
  <2>3. hdr' \in Headers
    <3>1. CASE hdr' = hdr \/ \E v \in {"text/plain", "application/json"} : hdr' = Set(hdr, ContentType, v)
      BY <1>1, <1>7, <3>1
    <3>2. CASE at < Last /\ Plugin.name = "cors" /\ hdr' = CorsHeaders(Plugin, hdr)
      <4>1. OptionTypes(Plugin)
        BY <1>1, <1>2, <3>2 DEF Plugin
      <4> QED BY <1>6, <3>2, <4>1
    <3> QED BY <1>10, <3>1, <3>2 DEF Replies
  <2> QED BY <1>5, <2>1, <2>2, <2>3
<1>11. CASE RoundTrip
  <2>1. fwd' \in Headers
    BY <1>1, <1>11, EndToEndIs DEF RoundTrip
  <2> QED BY <1>1, <1>3, <1>11, <2>1, TypeKept DEF RoundTrip, Calls, Sents
<1>12. ASSUME NEW a \in Answers, Relays(a) PROVE TypeInv'
  <2>1. a.status \in Codes /\ a.status # 103
    BY AnswerAssumption DEF Codes
  <2> QED BY <1>5, <1>8, <1>12, <2>1 DEF Relays, Respond, WriteHeader
<1>13. ASSUME NEW a \in Answers, Upgrades(a) PROVE TypeInv'
  <2>1. hdr' \in Headers /\ 101 \in Codes /\ at \in 0..Last
    BY <1>1, <1>2, <1>8, <1>13 DEF Upgrades, Codes
  <2>2. sent' \in Sents
    BY <1>1, <1>13, <2>1, SentTyped DEF Upgrades, Sents
  <2> QED BY <1>1, <1>3, <1>13, <2>1, <2>2, TypeKept DEF Upgrades, request, Calls, Sents
<1>14. ASSUME NEW a \in Answers, Loses(a) PROVE TypeInv'
  <2>1. hdr' \in Headers
    BY <1>8, <1>14, SetIs, HeaderNames DEF Loses
  <2>2. sent' \in Sents
    BY <1>1, <1>14 DEF Loses, Sents
  <2>3. call' \in Calls /\ call'.pos < at /\ call'.code # 103
    BY <1>4, <1>14 DEF Loses, Calls, Codes
  <2> QED BY <1>1, <1>3, <1>14, <2>1, <2>2, <2>3, TypeKept DEF Loses, request, Calls, Sents
<1>15. CASE PassWriter
  <2>1. call.pos \in Nat \ {0} /\ call.pos \in 1..Len(Chain)
    BY <1>1, <1>2, <1>15 DEF PassWriter, Calls
  <2>2. call' \in Calls /\ call'.pos < at /\ call'.code = call.code
    BY <1>1, <1>4, <1>15, <2>1 DEF PassWriter, Calls
  <2>3. hdr' \in Headers
    <3>1. CASE hdr' = hdr
      BY <1>1, <3>1
    <3>2. CASE Applies(Chain[call.pos], call.code) /\ hdr' = apply(Chain[call.pos], hdr)
      <4>1. OptionTypes(Chain[call.pos]) /\ Chain[call.pos].name = "response_headers"
        BY <1>2, <2>1, <3>2 DEF Applies
      <4> QED BY <1>1, <3>2, <4>1, AppliedIs, HeaderNames
    <3> QED BY <1>15, <3>1, <3>2 DEF PassWriter
  <2>4. applied' \subseteq 1..Len(Chain)
    BY <1>1, <1>15, <2>1 DEF PassWriter
  <2>5. UNCHANGED <<pc, at, fwd, status, sent, counted, reached>> /\ pc = "write"
    BY <1>15 DEF PassWriter, request
  <2> QED BY <1>1, <1>3, <2>2, <2>3, <2>4, <2>5, TypeKept DEF Calls, Sents
<1>16. CASE PassStatusWriter
  <2>1. status' \in Codes /\ call.code \in Codes
    BY <1>1, <1>16 DEF PassStatusWriter, Recorded, Calls
  <2>2. hdr' \in Headers
    BY <1>1, <1>16, NoHeaderIs DEF PassStatusWriter
  <2>3. sent' \in Sents
    <3>1. CASE call.code = 103
      <4>1. sent' = [sent EXCEPT !.info = @ + 1] /\ sent.info < MaxInfo
        BY <1>1, <1>16, <3>1 DEF PassStatusWriter
      <4>2. sent.info + 1 \in 0..MaxInfo
        BY <1>1, <4>1, BoundsAssumption DEF Sents
      <4> QED BY <1>1, <4>1, <4>2 DEF Sents
    <3>2. CASE call.code # 103
      <4>1. at \in 0..Last /\ 200 \in Codes
        BY <1>1, <1>2 DEF Codes
      <4>2. \E c \in Codes : sent' \in {sent, [sent EXCEPT !.status = c, !.header = hdr, !.by = at]}
        BY <1>16, <2>1, <3>2, <4>1 DEF PassStatusWriter
      <4>3. PICK c \in Codes : sent' \in {sent, [sent EXCEPT !.status = c, !.header = hdr, !.by = at]}
        BY <4>2
      <4>4. c \in Codes \cup {Gone}
        OBVIOUS
      <4>5. [sent EXCEPT !.status = c, !.header = hdr, !.by = at] \in Sents
        BY <1>1, <4>1, <4>4, SentTyped DEF Sents
      <4> QED BY <1>1, <4>3, <4>5
    <3> QED BY <3>1, <3>2
  <2>4. UNCHANGED <<at, fwd, applied, call, counted, reached>> /\ pc' # "write"
    BY <1>16 DEF PassStatusWriter, request
  <2> QED BY <1>1, <1>3, <2>1, <2>2, <2>3, <2>4, TypeKept DEF Calls, Sents
<1>17. CASE WriteBody
  <2>1. call' = [code |-> 0, pos |-> at - 1, relayed |-> call.relayed]
        /\ UNCHANGED <<hdr, fwd, applied, status, sent, counted, reached, at>>
    BY <1>1, <1>17 DEF WriteBody, request, Calls
  <2>2. 0 \in Codes /\ call.relayed \in BOOLEAN
    BY <1>1 DEF Codes, Calls
  <2> QED BY <1>1, <1>5, <2>1, <2>2
<1>18. CASE Return \/ Abort
  BY <1>1, <1>3, <1>18, TypeKept DEF Return, Abort, request, Calls, Sents
<1>19. CASE UNCHANGED vars
  BY <1>19 DEF vars, TypeInv, TypeOK, Chain, Last
<1> QED BY <1>9, <1>10, <1>11, <1>12, <1>13, <1>14, <1>15, <1>16, <1>17, <1>18, <1>19, LaterIs

LEMMA TypeInit == Init => TypeInv
<1> SUFFICES ASSUME Init PROVE TypeInv
  OBVIOUS
<1>1. /\ pc = "accept" /\ at = 1 /\ fwd = NoHeader /\ hdr = NoHeader /\ applied = {} /\ status = 200
      /\ call = NoCall /\ sent = Nothing /\ counted = 0 /\ reached = FALSE
  BY DEF Init
<1>2. Len(Chain) \in Nat /\ Last = Len(Chain) + 1
  BY SettledInit, ChainTyped
<1>3. sent \in [status : Codes \cup {Gone}, header : Headers, by : 0..Last, info : 0..MaxInfo]
  <2>1. 0 \in Codes /\ 0 \in 0..Last /\ 0 \in 0..MaxInfo
    BY <1>2, BoundsAssumption DEF Codes
  <2> QED BY <1>1, <2>1, NoHeaderIs DEF Nothing
<1>4. call \in [code : Codes, pos : Nat, relayed : BOOLEAN] /\ call.pos < at
  BY <1>1 DEF NoCall, Codes
<1>5. pc \in Pcs /\ status \in Codes /\ counted \in Codes /\ reached \in BOOLEAN /\ pc # "write"
  <2>1. reached \in BOOLEAN
    BY <1>1, Zenon
  <2>2. 200 \in Codes /\ 0 \in Codes
    BY DEF Codes
  <2>3. "accept" \in Pcs /\ "accept" # "write"
    BY DEF Pcs
  <2> QED BY <1>1, <2>1, <2>2, <2>3
<1>6. at \in 1..Last /\ applied \subseteq 1..Len(Chain) /\ fwd \in Headers /\ hdr \in Headers
  BY <1>1, <1>2, NoHeaderIs
<1> QED BY <1>3, <1>4, <1>5, <1>6 DEF TypeInv, TypeOK

LEMMA TypeNext == SettledInv /\ TypeInv /\ [Next]_vars => TypeInv'
  BY NextSplit, SettledNext, TypeFront, TypeArrive, TypeLater

(***************************************************************************)
(* Whatever the plugins, the origins and the informational responses: the  *)
(* headers are lists of values, a call on its way out is at a writer of    *)
(* its own handler's or further out, and only writers of the chain apply.  *)
(***************************************************************************)
THEOREM TypeCorrect == Spec => []TypeOK
<1> DEFINE Inv == SettledInv /\ TypeInv
<1>1. Init => Inv
  BY SettledInit, TypeInit
<1>2. Inv /\ [Next]_vars => Inv'
  BY SettledNext, TypeNext
<1>3. Inv => TypeOK
  BY DEF TypeInv
<1> QED BY <1>1, <1>2, <1>3, PTL DEF Spec

-----------------------------------------------------------------------------
(* The request id *)

\* The headers the gateway answers for.
Own == {RequestId, AllowOrigin, AllowCredentials}

LEMMA OwnNames == Own \subseteq Names /\ ContentType \notin Own
  BY HeaderNames DEF Own, RequestId, AllowOrigin, AllowCredentials, ContentType

\* cors hands a request on, or answers a preflight, with its headers.
CorsAdds ==
    /\ pc = "chain" /\ at < Last /\ Plugin.name = "cors"
    /\ hdr' = CorsHeaders(Plugin, hdr)
    /\ HandsOn \/ Replies

\* Unless response_headers is told to, nothing else changes them, up to an
\* informational response; and nothing at all the id.
LEMMA HeaderKept ==
    ASSUME SettledInv, TypeInv, Later, NEW n \in Own, ~Overrides("response_headers", n),
           sent'.info = 0
    PROVE  \/ hdr'[n] = hdr[n]
           \/ n # RequestId /\ CorsAdds
           \/ n # RequestId /\ \E a \in Answers : Relays(a) \/ Upgrades(a) \/ Loses(a)
<1>1. /\ hdr \in Headers /\ n \in Names /\ n # ContentType /\ ContentType \in Names
      /\ req \in Requests /\ at \in 1..Last
      /\ call \in [code : Codes, pos : Nat, relayed : BOOLEAN] /\ call.pos < at
  BY OwnNames, HeaderNames DEF TypeInv, TypeOK, SettledInv
<1>2. /\ Len(Chain) \in Nat /\ Last = Len(Chain) + 1
      /\ \A i \in 1..Len(Chain) : OptionTypes(Chain[i])
  BY ChainTyped
<1>3. ASSUME NEW v \in {"text/plain", "application/json"}, NEW h \in Headers
      PROVE  Set(h, ContentType, v)[n] = h[n]
  <2>1. v \in Values /\ n \in Names \ {ContentType}
    BY <1>1, HeaderNames
  <2> QED BY <1>1, <2>1, SetIs
<1>4. CASE HandsOn \/ Replies
  <2>1. ASSUME at < Last, Plugin.name = "cors", hdr' = CorsHeaders(Plugin, hdr), pc = "chain"
        PROVE  CorsAdds /\ (n = RequestId => hdr'[n] = hdr[n])
    <3>1. OptionTypes(Plugin)
      BY <1>1, <1>2, <2>1 DEF Plugin
    <3>2. CorsHeaders(Plugin, hdr)[RequestId] = hdr[RequestId]
      BY <1>1, <2>1, <3>1, CorsHeadersAre
    <3> QED BY <1>4, <2>1, <3>2 DEF CorsAdds
  <2>2. CASE HandsOn
    BY <2>1, <2>2 DEF HandsOn
  <2>3. CASE Replies
    BY <1>1, <1>3, <2>1, <2>3 DEF Replies
  <2> QED BY <1>4, <2>2, <2>3
<1>5. ASSUME NEW a \in Answers, Relays(a) \/ Upgrades(a) \/ Loses(a)
      PROVE  n = RequestId => hdr'[n] = hdr[n]
  <2>1. /\ copyHeader(hdr, Modified(a)) \in Headers
        /\ copyHeader(hdr, Modified(a))[RequestId] = hdr[RequestId]
    BY <1>1, RelayedIs
  <2> QED BY <1>3, <1>5, <2>1 DEF Relays, Respond, WriteHeader, Upgrades, Loses
<1>6. CASE PassWriter
  <2>1. call.pos \in 1..Len(Chain)
    BY <1>1, <1>2, <1>6 DEF PassWriter
  <2>2. CASE hdr' = hdr
    BY <2>2
  <2>3. CASE Applies(Chain[call.pos], call.code) /\ hdr' = apply(Chain[call.pos], hdr)
    <3>1. OptionTypes(Chain[call.pos]) /\ Chain[call.pos].name = "response_headers"
      BY <1>2, <2>1, <2>3 DEF Applies
    <3>2. n \notin DOMAIN Chain[call.pos].headers /\ ~RuleSets(Chain[call.pos], n)
      BY <2>1, <3>1 DEF Overrides
    <3> QED BY <1>1, <2>3, <3>1, <3>2, AppliedIs
  <2> QED BY <1>6, <2>2, <2>3 DEF PassWriter
<1>7. CASE PassStatusWriter
  <2>1. call.code # 103
    <3> SUFFICES ASSUME call.code = 103 PROVE FALSE
      OBVIOUS
    <3>1. sent' = [sent EXCEPT !.info = @ + 1]
      BY <1>7 DEF PassStatusWriter
    <3>2. sent.info \in Nat /\ sent'.info = sent.info + 1
      BY <3>1, BoundsAssumption DEF TypeInv, TypeOK
    <3> QED BY <3>2
  <2> QED BY <1>7, <2>1 DEF PassStatusWriter
<1>8. CASE RoundTrip \/ WriteBody \/ Return \/ Abort \/ UNCHANGED vars
  BY <1>8 DEF RoundTrip, WriteBody, Return, Abort, vars
<1> QED BY <1>4, <1>5, <1>6, <1>7, <1>8, LaterIs

\* The first final status goes out with the headers there are.
Finishes ==
    /\ PassStatusWriter /\ call.code # 103 /\ sent.status = 0 /\ hdr' = hdr
    /\ sent'.header = hdr /\ sent'.by = at /\ sent'.info = sent.info
    /\ sent'.status = IF call.code = 0 THEN 200 ELSE call.code

LEMMA SentIs ==
    ASSUME TypeInv, Later
    PROVE  \/ sent' = sent
           \/ sent'.info # 0 /\ sent'.status = sent.status
           \/ sent'.status = Gone /\ sent'.info = sent.info
           \/ \E a \in Answers : Upgrades(a) /\ sent'.status = 101 /\ sent'.header = hdr' /\ sent'.info = sent.info
           \/ Finishes
<1>1. /\ sent \in [status : Codes \cup {Gone}, header : Headers, by : 0..Last, info : 0..MaxInfo]
      /\ sent.info \in Nat
  BY BoundsAssumption DEF TypeInv, TypeOK
<1>2. CASE HandsOn \/ Replies \/ RoundTrip \/ PassWriter \/ WriteBody \/ Return \/ Abort \/ UNCHANGED vars
  BY <1>2 DEF HandsOn, Replies, RoundTrip, PassWriter, WriteBody, Return, Abort, vars
<1>3. ASSUME NEW a \in Answers, Relays(a) PROVE sent' = sent
  BY <1>3 DEF Relays, Respond, WriteHeader
<1>4. ASSUME NEW a \in Answers, Loses(a) PROVE sent'.status = Gone /\ sent'.info = sent.info
  BY <1>1, <1>4 DEF Loses
<1>5. ASSUME NEW a \in Answers, Upgrades(a)
      PROVE  sent'.status = 101 /\ sent'.header = hdr' /\ sent'.info = sent.info
  BY <1>1, <1>5 DEF Upgrades
<1>6. CASE PassStatusWriter
  <2>1. CASE call.code = 103
    <3>1. sent' = [sent EXCEPT !.info = @ + 1]
      BY <1>6, <2>1 DEF PassStatusWriter
    <3>2. sent'.info = sent.info + 1 /\ sent'.status = sent.status
      BY <1>1, <3>1
    <3> QED BY <1>1, <3>2
  <2>2. CASE call.code # 103 /\ sent.status = 0
    <3>1. hdr' = hdr /\ sent' = [sent EXCEPT !.status = IF call.code = 0 THEN 200 ELSE call.code,
                                             !.header = hdr, !.by = at]
      BY <1>6, <2>2 DEF PassStatusWriter
    <3> QED BY <1>1, <1>6, <2>2, <3>1 DEF Finishes
  <2>3. CASE call.code # 103 /\ sent.status # 0
    BY <1>6, <2>3 DEF PassStatusWriter
  <2> QED BY <2>1, <2>2, <2>3
<1> QED BY <1>2, <1>3, <1>4, <1>5, <1>6, LaterIs

\* The id is the one assigned, or the request has not come to the middleware;
\* the header map holds it, and so does the request that goes on.
IdInv ==
    /\ id \in {"", AssignId(req)}
    /\ id = "" => pc = "accept" \/ (pc = "done" /\ InFront(req))
    /\ id # "" /\ sent.info = 0 /\ ~Overrides("response_headers", RequestId) =>
         /\ hdr[RequestId] = <<id>>
         /\ sent.status >= 101 => sent.header[RequestId] = <<id>>
    /\ logged \subseteq {id}
    /\ pc = "accept" => sent.status = 0
    /\ (reached \/ pc = "chain") /\ ~Overrides("add_header", RequestId)
       /\ RequestId \notin req.connection =>
         fwd[RequestId] = <<ForwardedId(svc, req, id)>>

LEMMA IdArrives ==
    ASSUME SettledInv, Arrive PROVE IdInv'
<1> DEFINE i == AssignId(req)
           h == Set(NoHeader, RequestId, i)
<1>1. /\ i \in Values /\ i # "" /\ (\A s : ForwardedId(s, req, i) \in Values)
      /\ RequestId \in Names \ {ContentType} /\ ContentType \in Names /\ "text/plain" \in Values
      /\ "text/html" \in Values
  BY IdIsValue, HeaderNames, OwnNames DEF SettledInv, Own
<1>2. h \in Headers /\ h[RequestId] = <<i>>
  BY <1>1, SetIs, NoHeaderIs
<1>3. /\ Set(h, ContentType, "text/plain")[RequestId] = <<i>>
      /\ Set(h, ContentType, "text/html")[RequestId] = <<i>>
  <2> HIDE DEF h, i
  <2> QED BY <1>1, <1>2, SetIs
<1>4. ASSUME NEW s
      PROVE  Set(NoHeader, RequestId, ForwardedId(s, req, i))[RequestId] = <<ForwardedId(s, req, i)>>
  <2>1. ForwardedId(s, req, i) \in Values /\ RequestId \in Names /\ NoHeader \in Headers
    BY <1>1, NoHeaderIs
  <2> HIDE DEF i
  <2> QED BY <2>1, SetIs
<1>5. /\ id' = i /\ UNCHANGED <<trustRequestID, req, logged, reached>> /\ pc' # "accept"
      /\ AssignId(req)' = i
  BY DEF Arrive, arrival, AssignId
<1>6. logged = {} /\ reached = FALSE /\ sent = Nothing
  BY DEF Arrive, SettledInv
<1>7. hdr'[RequestId] = <<i>> /\ (sent' = sent \/ sent'.header = hdr')
  <2>1. hdr' \in {h, Set(h, ContentType, "text/plain"), Set(h, ContentType, "text/html")}
    BY ArriveIs
  <2>2. sent' = sent \/ sent' = [sent EXCEPT !.status = MuxCode, !.header = hdr']
    BY ArriveIs
  <2>3. sent'.header = hdr' \/ sent' = sent
    BY <1>6, <2>2, MuxAnswer
  <2> HIDE DEF h, i
  <2> QED BY <1>2, <1>3, <2>1, <2>3
<1>8. pc' = "chain" => fwd'[RequestId] = <<ForwardedId(svc', req, i)>>
  BY <1>4 DEF Arrive
<1>9. ForwardedId(svc, req, id)' = ForwardedId(svc', req, i)
  BY <1>5 DEF ForwardedId
<1>10. ~(sent.status >= 101)
  BY <1>6 DEF Nothing
<1> HIDE DEF i, h
<1> QED BY <1>1, <1>5, <1>6, <1>7, <1>8, <1>9, <1>10 DEF IdInv

LEMMA IdGoesOn ==
    ASSUME SettledInv, TypeInv, IdInv, Later PROVE IdInv'
<1>1. UNCHANGED <<trustRequestID, cfg, req, svc, id>> /\ (pc # "accept" => pc' # "accept")
  BY ContextSettled
<1>2. /\ AssignId(req)' = AssignId(req) /\ InFront(req)' = InFront(req)
      /\ ForwardedId(svc, req, id)' = ForwardedId(svc, req, id)
      /\ \A name, n : Overrides(name, n)' <=> Overrides(name, n)
  BY <1>1 DEF AssignId, ForwardedId, Overrides, Chain
<1>3. CASE UNCHANGED vars
  BY <1>2, <1>3 DEF vars, IdInv
<1>4. CASE ~UNCHANGED vars
  <2>1. pc \notin {"accept", "done"} /\ id # ""
    BY <1>4, LaterIs DEF IdInv, HandsOn, Replies, RoundTrip, AtProxy, Relays, Respond, Upgrades,
       Loses, PassWriter, PassStatusWriter, WriteBody, Return, Abort
  <2>2. ASSUME sent'.info = 0, ~Overrides("response_headers", RequestId)
        PROVE  /\ hdr'[RequestId] = <<id>>
               /\ sent'.status >= 101 => sent'.header[RequestId] = <<id>>
    <3>1. hdr'[RequestId] = hdr[RequestId]
      BY <2>2, HeaderKept DEF Own
    <3>2. sent.info = 0 \/ sent'.info # 0
      BY SentIs DEF Finishes
    <3>3. /\ hdr[RequestId] = <<id>>
          /\ sent.status >= 101 => sent.header[RequestId] = <<id>>
      BY <2>1, <2>2, <3>2 DEF IdInv
    <3>4. sent' = sent \/ sent'.header = hdr' \/ ~(sent'.status >= 101)
      BY <2>2, SentIs DEF Finishes, Gone
    <3> QED BY <3>1, <3>3, <3>4
  <2>3. logged' \subseteq {id}
    <3>1. logged' \in {logged, logged \cup {id}}
      BY LaterIs DEF HandsOn, Replies, RoundTrip, Relays, Respond, WriteHeader, Upgrades, Loses,
         PassWriter, PassStatusWriter, WriteBody, Return, Abort, request, vars
    <3> QED BY <3>1 DEF IdInv
  <2>4. ASSUME reached' \/ pc' = "chain", ~Overrides("add_header", RequestId),
               RequestId \notin req.connection
        PROVE  fwd'[RequestId] = <<ForwardedId(svc, req, id)>>
    <3>1. CASE HandsOn
      <4>1. at \in 1..Len(Chain) /\ OptionTypes(Plugin)
        BY <3>1, ChainTyped DEF HandsOn, TypeInv, TypeOK, Plugin
      <4>2. fwd'[RequestId] = fwd[RequestId]
        <5>1. CASE Plugin.name = "add_header"
          <6>1. stringMap(Plugin.headers) /\ RequestId \notin DOMAIN Plugin.headers /\ RequestId \in Names
            BY <2>4, <4>1, <5>1, HeaderNames DEF OptionTypes, Overrides, Plugin
          <6>2. fwd' = SetAll(fwd, Plugin.headers) /\ fwd \in Headers
            BY <3>1, <5>1 DEF HandsOn, TypeInv, TypeOK
          <6> QED BY <6>1, <6>2, SetAllIs
        <5>2. CASE Plugin.name # "add_header"
          BY <3>1, <5>2 DEF HandsOn
        <5> QED BY <5>1, <5>2
      <4>3. fwd[RequestId] = <<ForwardedId(svc, req, id)>>
        BY <2>4, <3>1 DEF HandsOn, IdInv
      <4> QED BY <4>2, <4>3
    <3>2. CASE RoundTrip
      <4>1. fwd' = endToEnd(fwd, req) /\ fwd \in Headers /\ pc = "chain" /\ RequestId \in Names
        BY <3>2, HeaderNames DEF RoundTrip, AtProxy, TypeInv, TypeOK
      <4>2. fwd'[RequestId] = fwd[RequestId]
        BY <2>4, <4>1, EndToEndIs
      <4> QED BY <2>4, <4>1, <4>2 DEF IdInv
    <3>3. CASE UNCHANGED <<fwd, reached>> /\ pc' # "chain"
      BY <2>4, <3>3 DEF IdInv
    <3>4. HandsOn \/ RoundTrip \/ (UNCHANGED <<fwd, reached>> /\ pc' # "chain")
      BY <1>4, LaterIs DEF Replies, Relays, Respond, WriteHeader, Upgrades, Loses,
         PassWriter, PassStatusWriter, WriteBody, Return, Abort, request
    <3> QED BY <3>1, <3>2, <3>3, <3>4
  <2> QED BY <1>1, <1>2, <2>1, <2>2, <2>3, <2>4 DEF IdInv
<1> QED BY <1>3, <1>4

LEMMA IdNext == SettledInv /\ TypeInv /\ IdInv /\ [Next]_vars => IdInv'
<1> SUFFICES ASSUME SettledInv, TypeInv, IdInv, Front \/ Arrive \/ Later PROVE IdInv'
  BY NextSplit
<1>1. CASE Front
  <2>1. /\ UNCHANGED <<trustRequestID, req, svc, id, logged, reached, fwd>> /\ pc' = "done"
        /\ InFront(req) /\ id = "" /\ reached = FALSE
    BY <1>1, FrontIs DEF SettledInv
  <2>2. AssignId(req)' = AssignId(req) /\ InFront(req)' = InFront(req)
    BY <2>1 DEF AssignId
  <2> QED BY <2>1, <2>2 DEF IdInv
<1> QED BY <1>1, IdArrives, IdGoesOn

(***************************************************************************)
(* Every response behind the gateway's middleware carries the request id   *)
(* that http_log writes and the origin gets, never the origin's own and,   *)
(* without trustRequestID, never one the client chose: for every chain of  *)
(* plugins and every answer, as long as no informational response came     *)
(* before it, no plugin is told to set the header itself and, for what the *)
(* origin gets, the client's Connection header does not name it.  What the *)
(* root mux answers by itself is not behind that middleware.               *)
(***************************************************************************)
THEOREM RequestIdsKept == Spec => []OneRequestId
<1> DEFINE Inv == SettledInv /\ TypeInv /\ IdInv
<1>1. Init => Inv
  <2>1. Init => id = "" /\ pc = "accept" /\ logged = {} /\ sent = Nothing /\ reached = FALSE
    BY DEF Init
  <2>2. Nothing.status = 0
    BY DEF Nothing
  <2> QED BY <2>1, <2>2, SettledInit, TypeInit DEF IdInv
<1>2. Inv /\ [Next]_vars => Inv'
  BY SettledNext, TypeNext, IdNext
<1>3. Inv => OneRequestId
  <2> SUFFICES ASSUME Inv PROVE OneRequestId
    OBVIOUS
  <2>1. ASSUME id # "", id = req.id PROVE trustRequestID
    <3>1. id = AssignId(req) /\ req.id # FreshId
      BY <2>1, RequestAssumption DEF IdInv, SettledInv
    <3> QED BY <2>1, <3>1 DEF AssignId
  <2>2. sent.status >= 101 /\ ~InFront(req) => id # ""
    <3>1. pc = "accept" => ~(sent.status >= 101)
      <4>1. pc = "accept" => sent.status = 0
        BY DEF IdInv
      <4> QED BY <4>1
    <3>2. id = "" => pc = "accept" \/ InFront(req)
      BY DEF IdInv
    <3> QED BY <3>1, <3>2, Zenon
  <2>3. fwd[RequestId] = <<ForwardedId(svc, req, id)>> =>
          fwd[RequestId] = <<IF svc.preserve /\ req.id # "" THEN req.id ELSE id>>
    BY DEF ForwardedId
  <2> QED BY <2>1, <2>2, <2>3 DEF IdInv, OneRequestId
<1> QED BY <1>1, <1>2, <1>3, PTL DEF Spec

-----------------------------------------------------------------------------
(* Answers that pages can read *)

\* What a cors plugin says to a page of an origin.
Readable(p, origin) ==
    IF origin = "" \/ ~originAllowed(p, origin) THEN << >>
    ELSE IF "*" \in p.origins THEN <<"*">> ELSE <<origin>>

WithCredentials(p, origin) ==
    IF (origin # "" /\ originAllowed(p, origin)) /\ p.credentials THEN <<"true">> ELSE << >>

\* A header says what the cors plugins up to position k of a chain say.
CorsSays(chain, origin, h, k) ==
    /\ \A i \in 1..Len(chain) : i <= k /\ chain[i].name = "cors" =>
          /\ h[AllowOrigin] = Readable(chain[i], origin)
          /\ h[AllowCredentials] = WithCredentials(chain[i], origin)
    /\ (\A i \in 1..Len(chain) : i <= k => chain[i].name # "cors") =>
          h[AllowOrigin] = << >> /\ h[AllowCredentials] = << >>

\* The plugins that have had their say.
Behind == IF pc \in {"accept", "chain"} THEN at - 1 ELSE at

\* Until an origin's header is added or the map is cleared, the header map says
\* what the cors plugins say, and so does what was sent.
CorsInv ==
    /\ call.relayed => pc \in {"write", "body", "done"} /\ call.code # 103
    /\ CorsDecides /\ sent.info = 0 /\ ~call.relayed /\ sent.status \notin {101, Gone} =>
         /\ CorsSays(Chain, req.origin, hdr, Behind)
         /\ sent.status # 0 => CorsSays(Chain, req.origin, sent.header, sent.by)

\* Only these two headers matter.
LEMMA CorsSame ==
    ASSUME NEW chain, NEW o, NEW h, NEW g, NEW k, CorsSays(chain, o, h, k),
           \A n \in {AllowOrigin, AllowCredentials} : g[n] = h[n]
    PROVE  CorsSays(chain, o, g, k)
<1>1. g[AllowOrigin] = h[AllowOrigin] /\ g[AllowCredentials] = h[AllowCredentials]
  OBVIOUS
<1> QED BY <1>1 DEF CorsSays

\* Other plugins say nothing.
LEMMA CorsSilent ==
    ASSUME NEW chain, NEW o, NEW h, NEW k \in Nat, Len(chain) \in Nat, CorsSays(chain, o, h, k - 1),
           k > Len(chain) \/ chain[k].name # "cors"
    PROVE  CorsSays(chain, o, h, k)
<1>1. \A i \in 1..Len(chain) : i <= k /\ chain[i].name = "cors" => i <= k - 1
  OBVIOUS
<1>2. \A i \in 1..Len(chain) : i <= k - 1 => i <= k
  OBVIOUS
<1> QED BY <1>1, <1>2 DEF CorsSays

\* The one cors plugin says what it says.
LEMMA CorsSpeaks ==
    ASSUME SettledInv, TypeInv, CorsDecides, at \in 1..Len(Chain), Plugin.name = "cors",
           CorsSays(Chain, req.origin, hdr, at - 1)
    PROVE  CorsSays(Chain, req.origin, CorsHeaders(Plugin, hdr), at)
<1>1. Len(Chain) \in Nat /\ OptionTypes(Plugin) /\ hdr \in Headers /\ req \in Requests
  BY ChainTyped DEF Plugin, TypeInv, TypeOK, SettledInv
<1>2. \A i \in 1..Len(Chain) : Chain[i].name = "cors" => i = at
  BY DEF CorsDecides, Plugin
<1>3. hdr[AllowOrigin] = << >> /\ hdr[AllowCredentials] = << >>
  <2>1. \A i \in 1..Len(Chain) : i <= at - 1 => Chain[i].name # "cors"
    BY <1>1, <1>2
  <2> QED BY <2>1 DEF CorsSays
<1> DEFINE g == CorsHeaders(Plugin, hdr)
<1>4. /\ g[AllowOrigin] =
           IF req.origin = "" \/ ~originAllowed(Plugin, req.origin) THEN hdr[AllowOrigin]
           ELSE IF "*" \in Plugin.origins THEN <<"*">> ELSE <<req.origin>>
      /\ g[AllowCredentials] =
           IF (req.origin # "" /\ originAllowed(Plugin, req.origin)) /\ Plugin.credentials
           THEN <<"true">> ELSE hdr[AllowCredentials]
  BY <1>1, CorsHeadersAre
<1> HIDE DEF g
<1>5. g[AllowOrigin] = Readable(Chain[at], req.origin)
  BY <1>3, <1>4 DEF Readable, Plugin
<1>6. g[AllowCredentials] = WithCredentials(Chain[at], req.origin)
  BY <1>3, <1>4 DEF WithCredentials, Plugin
<1>7. Chain[at].name = "cors" /\ at <= at
  BY <1>1 DEF Plugin
<1>8. CorsSays(Chain, req.origin, g, at)
  BY <1>2, <1>5, <1>6, <1>7 DEF CorsSays
<1> QED BY <1>8 DEF g

\* Before the middleware, and where no service is found, nothing is said.
LEMMA CorsUnsaid ==
    ASSUME NEW chain, NEW o, NEW h, Len(chain) \in Nat, chain[1].name # "cors",
           h[AllowOrigin] = << >>, h[AllowCredentials] = << >>
    PROVE  CorsSays(chain, o, h, 0) /\ CorsSays(chain, o, h, 1)
<1>1. \A i \in 1..Len(chain) : ~(i <= 0) /\ (i <= 1 => i = 1)
  OBVIOUS
<1> QED BY <1>1 DEF CorsSays

LEMMA CorsStarts ==
    ASSUME SettledInv, SettledInv', Front \/ Arrive
    PROVE  CorsInv'
<1>1. sent = Nothing /\ hdr = NoHeader /\ at = 1 /\ call = NoCall /\ svc = NoService
  BY FrontIs DEF Arrive, SettledInv
<1>2. UNCHANGED <<at, call>> /\ pc' \in {"chain", "done"}
  BY FrontIs DEF Arrive
<1>3. Len(Chain') \in Nat /\ Chain'[1].name # "cors"
  <2>1. (cfg \in Configs /\ (svc = NoService \/ \E n \in DOMAIN cfg : svc = cfg[n]))'
    BY DEF SettledInv
  <2> QED BY <2>1, ServiceTyped DEF Chain
<1>4. \A n \in {AllowOrigin, AllowCredentials} : hdr'[n] = << >>
  <2> TAKE n \in {AllowOrigin, AllowCredentials}
  <2>1. /\ n \in Names /\ n \in Names \ {ContentType} /\ n \in Names \ {RequestId}
        /\ ContentType \in Names /\ RequestId \in Names
        /\ {"text/plain", "text/html", "application/json"} \subseteq Values
    BY HeaderNames DEF AllowOrigin, AllowCredentials, ContentType, RequestId
  <2>2. NoHeader \in Headers /\ NoHeader[n] = << >>
    BY <2>1, NoHeaderIs
  <2>3. AssignId(req) \in Values
    BY IdIsValue DEF SettledInv
  <2> DEFINE h == Set(NoHeader, RequestId, AssignId(req))
  <2>4. h \in Headers /\ h[n] = NoHeader[n]
    <3>1. \A v \in Values : /\ Set(NoHeader, RequestId, v) \in Headers
                            /\ \A o \in Names \ {RequestId} : Set(NoHeader, RequestId, v)[o] = NoHeader[o]
      BY <2>1, <2>2, SetIs
    <3> QED BY <2>1, <2>3, <3>1, Zenon
  <2> HIDE DEF h
  <2>5. ASSUME NEW v \in Values
        PROVE  Set(NoHeader, ContentType, v)[n] = NoHeader[n] /\ Set(h, ContentType, v)[n] = h[n]
    <3>1. \A g \in Headers : \A o \in Names \ {ContentType} : Set(g, ContentType, v)[o] = g[o]
      BY <2>1, <2>5, SetIs
    <3> QED BY <2>1, <2>2, <2>4, <3>1, Zenon
  <2>6. \/ hdr' \in {h, NoHeader}
        \/ \E v \in Values : hdr' \in {Set(h, ContentType, v), Set(NoHeader, ContentType, v)}
    <3>1. CASE Front
      BY <1>1, <2>1, <3>1, FrontIs
    <3>2. CASE Arrive
      BY <2>1, <3>2, ArriveIs DEF h
    <3> QED BY <3>1, <3>2
  <2> QED BY <2>2, <2>4, <2>5, <2>6
<1>5. Behind' \in {0, 1}
  BY <1>1, <1>2 DEF Behind
<1>6. sent'.status # 0 => sent'.by = 0 /\ sent'.header = hdr'
  <2>1. CASE Front
    <3>1. sent' = [sent EXCEPT !.status = FrontCode, !.header = hdr']
      BY <2>1, FrontIs
    <3> QED BY <1>1, <3>1, MuxAnswer
  <2>2. CASE Arrive
    <3>1. sent' = sent \/ sent' = [sent EXCEPT !.status = MuxCode, !.header = hdr']
      BY <2>2, ArriveIs
    <3>2. CASE sent' = sent
      BY <1>1, <3>2 DEF Nothing
    <3>3. CASE sent' = [sent EXCEPT !.status = MuxCode, !.header = hdr']
      BY <1>1, <3>3, MuxAnswer
    <3> QED BY <3>1, <3>2, <3>3
  <2> QED BY <2>1, <2>2
<1>7. ~call'.relayed
  BY <1>1, <1>2 DEF NoCall
<1>8. CorsSays(Chain', req'.origin, hdr', 0) /\ CorsSays(Chain', req'.origin, hdr', 1)
  BY <1>3, <1>4, CorsUnsaid
<1> QED BY <1>5, <1>6, <1>7, <1>8 DEF CorsInv

\* Where a step leaves the plugins that have had their say.
LEMMA BehindIs ==
    ASSUME TypeInv, PassedInv, Later
    PROVE  \/ CorsAdds /\ Behind = at - 1 /\ Behind' = at
           \/ Behind' = Behind
           \/ /\ pc = "chain" /\ Behind = at - 1 /\ Behind' = at
              /\ at > Len(Chain) \/ Plugin.name # "cors"
<1>1. at \in Nat /\ Len(Chain) \in Nat /\ Last = Len(Chain) + 1
  BY DEF PassedInv, Last
<1>2. CASE HandsOn
  <2>1. pc = "chain" /\ Behind = at - 1 /\ Behind' = at
    BY <1>1, <1>2 DEF HandsOn, Behind
  <2>2. Plugin.name = "cors" => CorsAdds
    BY <1>2 DEF HandsOn, CorsAdds
  <2> QED BY <2>1, <2>2
<1>3. CASE Replies
  <2>1. at' = at /\ pc' = "write" /\ pc \in {"chain", "origin"}
    BY <1>3 DEF Replies
  <2>2. CASE pc = "origin"
    BY <2>1, <2>2 DEF Behind
  <2>3. CASE pc = "chain"
    <3>1. Behind = at - 1 /\ Behind' = at
      BY <2>1, <2>3 DEF Behind
    <3>2. at > Len(Chain) \/ Plugin.name # "cors" \/ CorsAdds
      BY <1>1, <1>3, <2>3 DEF Replies, CorsAdds, AtProxy
    <3> QED BY <2>3, <3>1, <3>2
  <2> QED BY <2>1, <2>2, <2>3
<1>4. CASE RoundTrip
  BY <1>1, <1>4 DEF RoundTrip, AtProxy, Behind
<1>5. CASE UNCHANGED vars
  BY <1>5 DEF vars, Behind
<1>6. CASE at' = at /\ pc \notin {"accept", "chain"} /\ pc' \notin {"accept", "chain"}
  BY <1>6 DEF Behind
<1>7. ASSUME \/ \E a \in Answers : Relays(a) \/ Upgrades(a) \/ Loses(a)
             \/ PassWriter \/ PassStatusWriter \/ WriteBody \/ Return \/ Abort
      PROVE  at' = at /\ pc \notin {"accept", "chain"} /\ pc' \notin {"accept", "chain"}
  BY <1>7 DEF Relays, Respond, WriteHeader, Upgrades, Loses, PassWriter, PassStatusWriter,
     WriteBody, Return, Abort
<1> QED BY <1>2, <1>3, <1>4, <1>5, <1>6, <1>7, LaterIs

\* An answer that is relayed remains so.
LEMMA RelayedStays ==
    ASSUME TypeInv, Later, call.relayed => pc \in {"write", "body", "done"} /\ call.code # 103
    PROVE  /\ call'.relayed => pc' \in {"write", "body", "done"} /\ call'.code # 103
           /\ call.relayed => call'.relayed
           /\ \A a \in Answers : Relays(a) => call'.relayed
<1>1. call \in [code : Codes, pos : Nat, relayed : BOOLEAN]
  BY DEF TypeInv, TypeOK
<1>2. \A a \in Answers : Relays(a) => call'.relayed
  BY DEF Relays, Respond, WriteHeader
<1>3. CASE HandsOn \/ RoundTrip
  BY <1>2, <1>3 DEF HandsOn, RoundTrip, AtProxy
<1>4. CASE Replies
  <2>1. ~call'.relayed /\ pc \in {"chain", "origin"}
    BY <1>4 DEF Replies
  <2> QED BY <1>2, <2>1
<1>5. ASSUME NEW a \in Answers, Relays(a)
      PROVE  pc = "origin" /\ pc' = "write" /\ call'.code # 103
  BY <1>5, AnswerAssumption DEF Relays, Respond, WriteHeader
<1>6. ASSUME NEW a \in Answers, Upgrades(a) \/ Loses(a)
      PROVE  pc = "origin" /\ (call' = call \/ ~call'.relayed)
  BY <1>6 DEF Upgrades, Loses
<1>7. CASE PassWriter
  <2>1. pc' = pc /\ call' = [call EXCEPT !.pos = @ - 1]
    BY <1>7 DEF PassWriter
  <2>2. call'.relayed = call.relayed /\ call'.code = call.code
    BY <1>1, <2>1
  <2> QED BY <1>2, <2>1, <2>2
<1>8. CASE PassStatusWriter
  BY <1>2, <1>8 DEF PassStatusWriter
<1>9. CASE WriteBody
  <2>1. pc' = "write" /\ pc = "body" /\ call'.code = 0 /\ call'.relayed = call.relayed
    BY <1>1, <1>9 DEF WriteBody
  <2> QED BY <1>2, <2>1
<1>10. CASE Return \/ Abort \/ UNCHANGED vars
  BY <1>2, <1>10 DEF Return, Abort, vars
<1> QED BY <1>2, <1>3, <1>4, <1>5, <1>6, <1>7, <1>8, <1>9, <1>10, LaterIs

LEMMA CorsGoesOn ==
    ASSUME SettledInv, TypeInv, PassedInv, CorsInv, Later PROVE CorsInv'
<1>1. UNCHANGED <<svc, req>> /\ Chain' = Chain
  BY ContextSettled DEF Chain
<1>2. CorsDecides' <=> CorsDecides
  BY <1>1 DEF CorsDecides, Overrides
<1>3. /\ call'.relayed => pc' \in {"write", "body", "done"} /\ call'.code # 103
      /\ call.relayed => call'.relayed
      /\ \A a \in Answers : Relays(a) => call'.relayed
  BY RelayedStays DEF CorsInv
<1>4. ASSUME CorsDecides, sent'.info = 0, ~call'.relayed, sent'.status \notin {101, Gone}
      PROVE  /\ CorsSays(Chain, req.origin, hdr', Behind')
             /\ sent'.status # 0 => CorsSays(Chain, req.origin, sent'.header, sent'.by)
  <2>1. sent' = sent \/ (Finishes /\ sent.info = 0)
    BY <1>4, SentIs DEF Finishes
  <2>2. sent.info = 0 /\ ~call.relayed /\ sent.status \notin {101, Gone}
    BY <1>3, <1>4, <2>1 DEF Finishes, Gone
  <2>3. /\ CorsSays(Chain, req.origin, hdr, Behind)
        /\ sent.status # 0 => CorsSays(Chain, req.origin, sent.header, sent.by)
    BY <1>4, <2>2 DEF CorsInv
  <2>4. \A a \in Answers : ~(Relays(a) \/ Upgrades(a) \/ Loses(a))
    <3> SUFFICES ASSUME NEW a \in Answers, Upgrades(a) \/ Loses(a) PROVE FALSE
      BY <1>3, <1>4
    <3>1. sent \in [status : Codes \cup {Gone}, header : Headers, by : 0..Last, info : 0..MaxInfo]
      BY DEF TypeInv, TypeOK
    <3>2. Upgrades(a) => sent'.status = 101
      BY <3>1 DEF Upgrades
    <3>3. Loses(a) => sent'.status = Gone
      BY <3>1 DEF Loses
    <3> QED BY <1>4, <3>2, <3>3
  <2>5. \A n \in {AllowOrigin, AllowCredentials} : CorsAdds \/ hdr'[n] = hdr[n]
    <3> TAKE n \in {AllowOrigin, AllowCredentials}
    <3>1. n \in Own /\ ~Overrides("response_headers", n)
      BY <1>4 DEF Own, CorsDecides
    <3> QED BY <1>4, <2>4, <3>1, HeaderKept
  <2>6. /\ at \in 1..Last /\ at \in Nat /\ Len(Chain) \in Nat /\ Last = Len(Chain) + 1
    BY ChainTyped DEF TypeInv, TypeOK
  <2>7. CASE CorsAdds /\ Behind = at - 1 /\ Behind' = at
    <3>1. at \in 1..Len(Chain) /\ Plugin.name = "cors" /\ hdr' = CorsHeaders(Plugin, hdr) /\ sent' = sent
      BY <2>6, <2>7 DEF CorsAdds, HandsOn, Replies
    <3>2. CorsSays(Chain, req.origin, hdr, at - 1)
      BY <2>3, <2>7
    <3>3. CorsSays(Chain, req.origin, CorsHeaders(Plugin, hdr), at)
      BY <1>4, <3>1, <3>2, CorsSpeaks
    <3> QED BY <2>3, <2>7, <3>1, <3>3
  <2>8. CASE ~CorsAdds
    <3>1. CorsSays(Chain, req.origin, hdr', Behind)
      BY <2>3, <2>5, <2>8, CorsSame
    <3>2. CorsSays(Chain, req.origin, hdr', Behind')
      <4>1. CASE Behind' = Behind
        BY <3>1, <4>1
      <4>2. CASE Behind = at - 1 /\ Behind' = at /\ (at > Len(Chain) \/ Plugin.name # "cors")
        <5>1. CorsSays(Chain, req.origin, hdr', at - 1)
          BY <3>1, <4>2
        <5> QED BY <2>6, <4>2, <5>1, CorsSilent DEF Plugin
      <4> QED BY <2>8, <4>1, <4>2, BehindIs
    <3>3. CASE Finishes
      <4>1. pc = "write" /\ sent'.header = hdr /\ sent'.by = at /\ Behind = at
        BY <3>3 DEF Finishes, PassStatusWriter, Behind
      <4> QED BY <2>3, <3>2, <4>1
    <3> QED BY <2>1, <2>3, <3>2, <3>3
  <2>9. CorsAdds => Behind = at - 1 /\ Behind' = at
    BY <2>6 DEF CorsAdds, HandsOn, Replies, Behind
  <2> QED BY <2>7, <2>8, <2>9
<1>5. req'.origin = req.origin
  BY <1>1
<1> QED BY <1>1, <1>2, <1>3, <1>4, <1>5 DEF CorsInv

LEMMA CorsInit == Init => CorsInv
<1> SUFFICES ASSUME Init PROVE CorsInv
  OBVIOUS
<1>1. /\ SettledInv /\ sent = Nothing /\ hdr = NoHeader /\ at = 1 /\ pc = "accept" /\ call = NoCall
  BY SettledInit DEF Init
<1>2. Len(Chain) \in Nat /\ Chain[1].name # "cors"
  <2>1. cfg \in Configs /\ (svc = NoService \/ \E n \in DOMAIN cfg : svc = cfg[n])
    BY <1>1 DEF SettledInv
  <2> QED BY <2>1, ServiceTyped DEF Chain
<1>3. hdr[AllowOrigin] = << >> /\ hdr[AllowCredentials] = << >>
  BY <1>1, NoHeaderIs, HeaderNames
<1>4. CorsSays(Chain, req.origin, hdr, 0)
  BY <1>2, <1>3, CorsUnsaid
<1>5. Behind = 0 /\ ~call.relayed /\ sent.status = 0
  BY <1>1 DEF Behind, NoCall, Nothing
<1> QED BY <1>4, <1>5 DEF CorsInv

LEMMA CorsNext == SettledInv /\ TypeInv /\ PassedInv /\ CorsInv /\ [Next]_vars => CorsInv'
  BY NextSplit, SettledNext, CorsStarts, CorsGoesOn

\* A config whose plugins are served has been accepted by their factories.
LEMMA CorsBuilt ==
    ASSUME SettledInv, NEW i \in 1..Len(Chain), Chain[i].name = "cors"
    PROVE  newCORS(Chain[i])
<1>1. Len(Chain) \in Nat /\ i # 1
  <2>1. cfg \in Configs /\ (svc = NoService \/ \E n \in DOMAIN cfg : svc = cfg[n])
    BY DEF SettledInv
  <2> QED BY <2>1, ServiceTyped DEF Chain
<1>2. svc # NoService
  <2> SUFFICES ASSUME svc = NoService PROVE FALSE
    OBVIOUS
  <2>1. svc.plugins = << >>
    BY DEF NoService
  <2>2. Len(Chain) = 1
    BY <2>1 DEF Chain, ChainOf
  <2> QED BY <1>1, <2>2
<1>3. PICK n \in DOMAIN cfg : svc = cfg[n]
  BY <1>2 DEF SettledInv
<1>4. /\ Len(svc.plugins) \in Nat /\ DOMAIN svc.plugins = 1..Len(svc.plugins)
      /\ Len(Chain) = Len(svc.plugins) + 1
      /\ \A j \in DOMAIN svc.plugins : Chain[j + 1] = svc.plugins[j]
  BY <1>3, PluginsListed, ChainIs DEF Chain
<1>5. i - 1 \in DOMAIN svc.plugins /\ (i - 1) + 1 = i
  BY <1>1, <1>4
<1>6. Chain[i] = svc.plugins[i - 1]
  BY <1>4, <1>5
<1>7. Build(svc.plugins[i - 1])
  BY <1>3, <1>5 DEF SettledInv, Served
<1> QED BY <1>6, <1>7 DEF Build

(***************************************************************************)
(* A page of an allowed origin can read every answer the gateway itself    *)
(* gives behind cors, a page of another origin none, and credentials are   *)
(* never allowed to any origin: for every chain with one cors plugin,      *)
(* wherever it is and whatever refuses or fails behind it.                 *)
(***************************************************************************)
THEOREM PagesReadAnswers == Spec => []CorsConsistent
<1> DEFINE Inv == SettledInv /\ TypeInv /\ PassedInv /\ CorsInv
<1>1. Init => Inv
  BY SettledInit, TypeInit, PassedInit, CorsInit
<1>2. Inv /\ [Next]_vars => Inv'
  <2>1. SettledInv => cfg \in Configs
    BY DEF SettledInv
  <2> QED BY <2>1, SettledNext, TypeNext, PassedNext, CorsNext
<1>3. Inv => CorsConsistent
  <2> SUFFICES ASSUME Inv, sent.status >= 200, sent.info = 0, ~call.relayed, CorsDecides
               PROVE  /\ \A i \in 1..Len(Chain) : i <= sent.by /\ Chain[i].name = "cors" =>
                            sent.header[AllowOrigin] = Readable(Chain[i], req.origin)
                      /\ sent.header[AllowCredentials] # << >> => sent.header[AllowOrigin] # <<"*">>
    BY DEF CorsConsistent, Readable
  <2>1. sent.status \notin {0, 101, Gone}
    BY DEF Gone
  <2>2. CorsSays(Chain, req.origin, sent.header, sent.by)
    BY <2>1 DEF CorsInv
  <2>3. ASSUME sent.header[AllowCredentials] # << >> PROVE sent.header[AllowOrigin] # <<"*">>
    <3>1. PICK i \in 1..Len(Chain) : i <= sent.by /\ Chain[i].name = "cors"
      BY <2>2, <2>3 DEF CorsSays
    <3>2. /\ sent.header[AllowOrigin] = Readable(Chain[i], req.origin)
          /\ WithCredentials(Chain[i], req.origin) # << >>
      BY <2>2, <2>3, <3>1 DEF CorsSays
    <3>3. req.origin # "" /\ originAllowed(Chain[i], req.origin) /\ Chain[i].credentials
      BY <3>2 DEF WithCredentials
    <3>4. "*" \notin Chain[i].origins
      BY <3>1, <3>3, CorsBuilt DEF newCORS
    <3>5. sent.header[AllowOrigin] = <<req.origin>> /\ req.origin # "*"
      BY <3>2, <3>3, <3>4 DEF Readable, originAllowed
    <3> QED BY <3>5
  <2> QED BY <2>2, <2>3 DEF CorsSays
<1> QED BY <1>1, <1>2, <1>3, PTL DEF Spec

-----------------------------------------------------------------------------
(* Response headers by policy *)

\* Applying a plugin's headers and rules twice is applying them once, unless a
\* rule changes the type that the rules are chosen by.
LEMMA ApplyOnce ==
    ASSUME NEW h \in Headers, NEW p, OptionTypes(p), p.name = "response_headers",
           ~RuleSets(p, ContentType)
    PROVE  apply(p, apply(p, h)) = apply(p, h)
<1> DEFINE g == apply(p, h)
           set1 == SetAll(h, p.headers)
           set2 == SetAll(g, p.headers)
           R(t, n) == RulesFor(p, t, n)
           last(S) == CHOOSE i \in S : \A j \in S : j <= i
           val(S, n) == <<p.rules[last(S)].headers[n]>>
<1>1. g \in Headers /\ ContentType \in Names /\ stringMap(p.headers)
  BY AppliedIs, HeaderNames DEF OptionTypes
<1>2. g = [n \in Names |-> IF R(set1[ContentType], n) = {} THEN set1[n] ELSE val(R(set1[ContentType], n), n)]
  BY DEF apply
<1>3. apply(p, g) =
        [n \in Names |-> IF R(set2[ContentType], n) = {} THEN set2[n] ELSE val(R(set2[ContentType], n), n)]
  BY DEF apply
<1> HIDE DEF g
<1>4. \A n \in Names : set1[n] = IF n \in DOMAIN p.headers THEN <<p.headers[n]>> ELSE h[n]
  BY <1>1, SetAllIs
<1>5. \A n \in Names : set2[n] = IF n \in DOMAIN p.headers THEN <<p.headers[n]>> ELSE g[n]
  BY <1>1, SetAllIs
<1>6. R(set1[ContentType], ContentType) = {}
  BY DEF RuleSets, RulesFor
<1> HIDE DEF set1, set2, R, val
<1>7. g[ContentType] = set1[ContentType]
  BY <1>1, <1>2, <1>6
<1>8. set2[ContentType] = set1[ContentType]
  BY <1>1, <1>4, <1>5, <1>7
<1> DEFINE t == set1[ContentType]
<1>9. ASSUME NEW n \in Names PROVE apply(p, g)[n] = g[n]
  <2>1. g[n] = IF R(t, n) = {} THEN set1[n] ELSE val(R(t, n), n)
    BY <1>2
  <2>2. apply(p, g)[n] = IF R(t, n) = {} THEN set2[n] ELSE val(R(t, n), n)
    BY <1>3, <1>8
  <2>3. R(t, n) = {} => set2[n] = set1[n]
    BY <1>4, <1>5, <2>1
  <2> QED BY <2>1, <2>2, <2>3
<1>10. apply(p, g) = [n \in Names |-> apply(p, g)[n]] /\ g = [n \in Names |-> g[n]]
  BY <1>2, <1>3
<1>11. apply(p, g) = g
  BY <1>9, <1>10
<1> QED BY <1>11 DEF g

\* h is what the outermost response_headers plugin of positions k+1..(m-1) makes
\* of it.
Governed(chain, h, k, m) ==
    \A i \in 1..Len(chain) :
        /\ chain[i].name = "response_headers" /\ k < i /\ i < m
        /\ ~RuleSets(chain[i], ContentType)
        /\ \A j \in 1..(i - 1) : ~(chain[j].name = "response_headers" /\ k < j /\ j < m)
        => apply(chain[i], h) = h

\* No writer applies before there is a final status; then each applies as the
\* call passes it.
PolicyInv ==
    /\ pc \in {"accept", "chain", "origin"} \/ (pc = "write" /\ call.code = 103) => applied = {}
    /\ pc = "write" /\ call.code # 103 /\ sent.status = 0 =>
         /\ call.code >= 200
         /\ applied \subseteq (call.pos + 1)..(at - 1)
         /\ Governed(Chain, hdr, call.pos, at)
    /\ sent.status >= 200 => Governed(Chain, sent.header, 0, sent.by)

\* Nothing is passed yet.
LEMMA GovernedByNone ==
    ASSUME NEW chain, NEW h, NEW k \in Int, NEW m \in Int, m <= k + 1, Len(chain) \in Nat
    PROVE  Governed(chain, h, k, m)
<1>1. \A i \in 1..Len(chain) : ~(k < i /\ i < m)
  OBVIOUS
<1> QED BY <1>1 DEF Governed

\* A plugin without a writer is passed.
LEMMA GovernedAsBefore ==
    ASSUME NEW chain, NEW h, NEW k \in Nat \ {0}, NEW m \in Nat, Len(chain) \in Nat,
           Governed(chain, h, k, m), chain[k].name # "response_headers"
    PROVE  Governed(chain, h, k - 1, m)
<1> SUFFICES ASSUME NEW i \in 1..Len(chain),
                    chain[i].name = "response_headers" /\ k - 1 < i /\ i < m,
                    ~RuleSets(chain[i], ContentType),
                    \A j \in 1..(i - 1) : ~(chain[j].name = "response_headers" /\ k - 1 < j /\ j < m)
             PROVE  apply(chain[i], h) = h
  BY Zenon DEF Governed
<1>1. k < i
  BY DEF Governed
<1>2. \A j \in 1..(i - 1) : ~(chain[j].name = "response_headers" /\ k < j /\ j < m)
  OBVIOUS
<1> QED BY <1>1, <1>2, Zenon DEF Governed

\* A writer is passed, and applies.
LEMMA GovernedByOuter ==
    ASSUME NEW chain, NEW h \in Headers, NEW k \in 1..Len(chain), NEW m \in Nat, Len(chain) \in Nat, k < m,
           chain[k].name = "response_headers", OptionTypes(chain[k])
    PROVE  Governed(chain, apply(chain[k], h), k - 1, m)
<1> DEFINE g == apply(chain[k], h)
<1>1. ~RuleSets(chain[k], ContentType) => apply(chain[k], g) = g
  BY ApplyOnce
<1> HIDE DEF g
<1> SUFFICES ASSUME NEW i \in 1..Len(chain),
                    chain[i].name = "response_headers" /\ k - 1 < i /\ i < m,
                    ~RuleSets(chain[i], ContentType),
                    \A j \in 1..(i - 1) : ~(chain[j].name = "response_headers" /\ k - 1 < j /\ j < m)
             PROVE  apply(chain[i], g) = g
  BY Zenon DEF Governed, g
<1>2. i = k
  <2> SUFFICES ASSUME i # k PROVE FALSE
    OBVIOUS
  <2>1. k \in 1..(i - 1) /\ k - 1 < k
    OBVIOUS
  <2> QED BY <2>1
<1> QED BY <1>1, <1>2

\* A handler calls WriteHeader.
LEMMA PolicyWrites ==
    ASSUME TypeInv, PolicyInv, UNCHANGED <<svc, sent, applied, at>>, pc \in {"chain", "origin"}, pc' = "write",
           NEW c, NEW r, call' = [code |-> c, pos |-> at - 1, relayed |-> r], c = 103 \/ c >= 200,
           Len(Chain) \in Nat
    PROVE  PolicyInv'
<1>1. Chain' = Chain /\ at \in Int /\ applied = {} /\ call'.code = c /\ call'.pos = at - 1
  BY DEF Chain, TypeInv, TypeOK, PolicyInv
<1>2. Governed(Chain, hdr', at - 1, at)
  BY <1>1, GovernedByNone
<1>3. sent.status >= 200 => Governed(Chain, sent.header, 0, sent.by)
  BY DEF PolicyInv
<1> QED BY <1>1, <1>2, <1>3 DEF PolicyInv

LEMMA PolicyGoesOn ==
    ASSUME SettledInv, TypeInv, StatusInv, PolicyInv, Later PROVE PolicyInv'
<1>1. UNCHANGED svc /\ Chain' = Chain
  BY ContextSettled DEF Chain
<1>2. /\ Len(Chain) \in Nat /\ Last = Len(Chain) + 1
      /\ \A i \in 1..Len(Chain) : OptionTypes(Chain[i])
  BY ChainTyped
<1>3. /\ at \in 1..Last /\ at \in Nat /\ hdr \in Headers /\ applied \subseteq 1..Len(Chain)
      /\ call \in [code : Codes, pos : Nat, relayed : BOOLEAN] /\ call.pos < at
      /\ sent \in [status : Codes \cup {Gone}, header : Headers, by : 0..Last, info : 0..MaxInfo]
  BY <1>2 DEF TypeInv, TypeOK
<1>4. sent.status >= 200 => Governed(Chain, sent.header, 0, sent.by)
  BY DEF PolicyInv
<1>5. CASE HandsOn \/ RoundTrip
  <2>1. pc = "chain" /\ pc' \in {"chain", "origin"} /\ UNCHANGED <<applied, sent>>
    BY <1>5 DEF HandsOn, RoundTrip, AtProxy
  <2> QED BY <1>1, <1>4, <2>1 DEF PolicyInv
<1>6. CASE Replies
  <2>1. /\ UNCHANGED <<svc, sent, applied, at>> /\ pc \in {"chain", "origin"} /\ pc' = "write"
        /\ call' = [code |-> call'.code, pos |-> at - 1, relayed |-> FALSE]
    BY <1>1, <1>6 DEF Replies
  <2>2. call'.code = 103 \/ call'.code >= 200
    BY <1>6 DEF Replies
  <2> QED BY <1>2, <2>1, <2>2, PolicyWrites
<1>7. ASSUME NEW a \in Answers, Relays(a) PROVE PolicyInv'
  <2>1. a.status >= 200
    BY <1>7, AnswerAssumption DEF Relays
  <2>2. /\ UNCHANGED <<svc, sent, applied, at>> /\ pc \in {"chain", "origin"} /\ pc' = "write"
        /\ call' = [code |-> a.status, pos |-> at - 1, relayed |-> TRUE]
    BY <1>1, <1>7 DEF Relays, Respond, WriteHeader
  <2> QED BY <1>2, <2>1, <2>2, PolicyWrites
<1>8. ASSUME NEW a \in Answers, Upgrades(a) PROVE PolicyInv'
  <2>1. sent'.status = 101 /\ pc' = "body"
    BY <1>3, <1>8 DEF Upgrades
  <2> QED BY <2>1 DEF PolicyInv
<1>9. ASSUME NEW a \in Answers, Loses(a) PROVE PolicyInv'
  <2>1. sent'.status = Gone /\ pc' = "write" /\ call'.code = 502
    BY <1>3, <1>9 DEF Loses
  <2> QED BY <2>1 DEF PolicyInv, Gone
<1>10. CASE PassWriter
  <2> DEFINE k == call.pos
             p == Chain[k]
  <2>1. /\ UNCHANGED <<sent, at, pc>> /\ pc = "write" /\ k \in Nat \ {0} /\ k \in 1..Len(Chain)
        /\ call'.code = call.code /\ call'.pos = k - 1
    BY <1>2, <1>3, <1>10 DEF PassWriter
  <2>2. CASE call.code = 103
    <3>1. ~Applies(p, call.code)
      BY <2>2 DEF Applies
    <3>2. applied' = applied /\ applied = {}
      BY <1>10, <2>1, <2>2, <3>1 DEF PassWriter, PolicyInv
    <3> QED BY <1>1, <1>4, <2>1, <2>2, <3>2 DEF PolicyInv
  <2>3. CASE call.code # 103 /\ sent.status = 0
    <3>1. call.code >= 200 /\ applied \subseteq (k + 1)..(at - 1) /\ Governed(Chain, hdr, k, at)
      BY <2>1, <2>3 DEF PolicyInv
    <3>2. k \notin applied
      BY <2>1, <3>1
    <3>3. CASE p.name = "response_headers"
      <4>1. hdr' = apply(p, hdr) /\ applied' = applied \cup {k}
        BY <1>10, <3>1, <3>2, <3>3 DEF PassWriter, Applies
      <4>2. Governed(Chain, hdr', k - 1, at)
        BY <1>2, <1>3, <2>1, <3>3, <4>1, GovernedByOuter
      <4>3. applied' \subseteq ((k - 1) + 1)..(at - 1)
        <5>1. k \in Nat \ {0} /\ k < at
          BY <1>3, <2>1
        <5> HIDE DEF k
        <5>2. (k - 1) + 1 = k /\ k \in k..(at - 1) /\ (k + 1)..(at - 1) \subseteq k..(at - 1)
          BY <1>3, <5>1
        <5> QED BY <3>1, <4>1, <5>2
      <4> QED BY <1>1, <1>4, <2>1, <2>3, <3>1, <4>2, <4>3 DEF PolicyInv
    <3>4. CASE p.name # "response_headers"
      <4>1. hdr' = hdr /\ applied' = applied
        BY <1>10, <3>4 DEF PassWriter, Applies
      <4>2. Governed(Chain, hdr, k - 1, at)
        BY <1>2, <1>3, <2>1, <3>1, <3>4, GovernedAsBefore
      <4>3. applied \subseteq ((k - 1) + 1)..(at - 1)
        BY <1>3, <2>1, <3>1
      <4> QED BY <1>1, <1>4, <2>1, <2>3, <3>1, <4>1, <4>2, <4>3 DEF PolicyInv
    <3> QED BY <3>3, <3>4
  <2>4. CASE call.code # 103 /\ sent.status # 0
    BY <1>1, <1>4, <2>1, <2>4 DEF PolicyInv
  <2> QED BY <2>2, <2>3, <2>4
<1>11. CASE PassStatusWriter
  <2>1. pc = "write" /\ call.pos = 0 /\ UNCHANGED <<applied, call, at>> /\ pc' \in {"origin", "body"}
    BY <1>11 DEF PassStatusWriter
  <2>2. CASE call.code = 103
    <3>1. sent'.status = sent.status /\ sent.status = 0 /\ applied = {}
      BY <1>3, <1>11, <2>1, <2>2 DEF PassStatusWriter, PolicyInv, StatusInv
    <3> QED BY <2>1, <3>1 DEF PolicyInv
  <2>3. CASE call.code # 103 /\ sent.status # 0
    <3>1. sent' = sent /\ pc' = "body"
      BY <1>11, <2>3 DEF PassStatusWriter
    <3> QED BY <1>1, <1>4, <3>1 DEF PolicyInv
  <2>4. CASE call.code # 103 /\ sent.status = 0
    <3>1. pc' = "body" /\ sent'.header = hdr /\ sent'.by = at
      BY <1>3, <1>11, <2>4 DEF PassStatusWriter
    <3>2. Governed(Chain, hdr, 0, at)
      BY <2>1, <2>4 DEF PolicyInv
    <3> QED BY <1>1, <3>1, <3>2 DEF PolicyInv
  <2> QED BY <2>2, <2>3, <2>4
<1>12. CASE WriteBody
  <2>1. sent.status # 0 /\ sent' = sent /\ pc' = "write" /\ call'.code = 0
    BY <1>3, <1>12 DEF WriteBody
  <2> QED BY <1>1, <1>4, <2>1 DEF PolicyInv
<1>13. CASE Return \/ Abort
  <2>1. sent' = sent /\ pc' = "done"
    BY <1>13 DEF Return, Abort
  <2> QED BY <1>1, <1>4, <2>1 DEF PolicyInv
<1>14. CASE UNCHANGED vars
  BY <1>14 DEF vars, PolicyInv, Chain
<1> QED BY <1>5, <1>6, <1>7, <1>8, <1>9, <1>10, <1>11, <1>12, <1>13, <1>14, LaterIs

LEMMA PolicyStarts ==
    ASSUME SettledInv, SettledInv', Front \/ Arrive PROVE PolicyInv'
<1>1. sent = Nothing /\ applied = {} /\ applied' = applied /\ pc' \in {"chain", "done"}
  BY FrontIs DEF Arrive, SettledInv
<1>2. Len(Chain') \in Nat
  <2>1. (cfg \in Configs /\ (svc = NoService \/ \E n \in DOMAIN cfg : svc = cfg[n]))'
    BY DEF SettledInv
  <2> QED BY <2>1, ServiceTyped DEF Chain
<1>3. sent'.by = 0
  <2>1. CASE Front
    <3>1. sent' = [sent EXCEPT !.status = FrontCode, !.header = hdr']
      BY <2>1, FrontIs
    <3> QED BY <1>1, <3>1, MuxAnswer
  <2>2. CASE Arrive
    <3>1. sent' = sent \/ sent' = [sent EXCEPT !.status = MuxCode, !.header = hdr']
      BY <2>2, ArriveIs
    <3>2. CASE sent' = sent
      BY <1>1, <3>2 DEF Nothing
    <3>3. CASE sent' = [sent EXCEPT !.status = MuxCode, !.header = hdr']
      BY <1>1, <3>3, MuxAnswer
    <3> QED BY <3>1, <3>2, <3>3
  <2> QED BY <2>1, <2>2
<1>4. Governed(Chain', sent'.header, 0, 0)
  BY <1>2, GovernedByNone
<1> QED BY <1>1, <1>3, <1>4 DEF PolicyInv

LEMMA PolicyNext ==
    SettledInv /\ TypeInv /\ StatusInv /\ PolicyInv /\ [Next]_vars => PolicyInv'
  BY NextSplit, SettledNext, PolicyStarts, PolicyGoesOn

(***************************************************************************)
(* The final response is what the outermost response_headers plugin it has *)
(* passed makes of it: for every chain of plugins, whoever answers, and    *)
(* whatever informational responses came before.                           *)
(***************************************************************************)
THEOREM PoliciesApplied == Spec => []PolicyApplied
<1> DEFINE Inv == SettledInv /\ TypeInv /\ StatusInv /\ PolicyInv
<1>1. Init => Inv
  <2>1. Init => applied = {} /\ pc = "accept" /\ sent = Nothing
    BY DEF Init
  <2>2. Nothing.status = 0
    BY DEF Nothing
  <2>3. Init => PolicyInv
    BY <2>1, <2>2 DEF PolicyInv
  <2> QED BY <2>3, SettledInit, TypeInit, StatusInit
<1>2. Inv /\ [Next]_vars => Inv'
  BY SettledNext, TypeNext, StatusNext, PolicyNext
<1>3. Inv => PolicyApplied
  <2> SUFFICES ASSUME Inv, sent.status >= 200, NEW i \in 1..Len(Chain), Covers(i),
                      ~RuleSets(Chain[i], ContentType), \A j \in 1..(i - 1) : ~Covers(j)
               PROVE  apply(Chain[i], sent.header) = sent.header
    BY DEF PolicyApplied
  <2>1. Governed(Chain, sent.header, 0, sent.by)
    BY DEF PolicyInv
  <2>2. 0 < i /\ \A j \in 1..(i - 1) : 0 < j
    BY ChainTyped
  <2> QED BY <2>1, <2>2 DEF Governed, Covers
<1> QED BY <1>1, <1>2, <1>3, PTL DEF Spec
=============================================================================
