# Dealer: a verification project in TLA+

Dealer is an HTTP gateway in Go. It reads services, routes and plugins from a
YAML file, proxies each request to one of the service's origins, and picks up
edits of the file while it runs. This directory holds models of the parts in
which goroutines share state and of a request's way through them, the TLC configurations that check them on small
instances, and proofs that TLAPS checks for every value of the constants.

Run `tlc -config <run>.cfg <MC module>` for a run and `tlapm <M>_proofs.tla`
for the proofs. `PROJECT.json` lists runs, mutants, findings, hazards, theorems
and, for every definition, the source lines it models.

## Inventory

| Component (source) | State | Operations | Who else touches it |
|---|---|---|---|
| Origin health record (`proxy/origin.go`) | `lastFailureAt`, `forcedDown`, `consecutiveFailures` under a mutex | `available`, `breakerOpen`, `recordFailure`, `recordSuccess`, `setForcedDown` | all requests of the service, the prober |
| Round-robin proxy (`proxy/loadbalancer.go`, `proxy/proxy.go`) | atomic counter `next`, one record per origin | `ServeHTTP`: scan, fallback, 502 fast-fail; callbacks `ModifyResponse`, `ErrorHandler` | one goroutine per request |
| Retrying transport (`proxy/retry.go`) | the attempt number (local) | `RoundTrip` | below the reverse proxy |
| Health prober (`proxy/health.go`) | none of its own | `Start`, `probeOnce`, `probe` | writes the origins' `forcedDown` |
| Gateway and hot reload (`gateway/gateway.go`) | atomic pointers `mux`, `hosts`, `plugins`, `proberCancel`, `logFlusherCancel` | `New`, the reload callback, routing, `HasHost`, `Close` | watcher, requests, ACME host policy, main |
| Config watcher (`config/watcher.go`) | last mtime and size | `NewWatcher`, `Start`, `pollOnce` | whoever edits the file |
| Config parsing, router (`config/parse.go`, `router/router.go`) | none | `Parse`, `Load`, `Build`; `ServeMux` picks a pattern | called by `New` and reloads; requests |
| Client address (`clientip/clientip.go`) | the request's context | `Resolve`, `Middleware` | `rate_limiting` |
| Request ids (`tracing/requestid.go`) | the request's context and header, the response's header | `Middleware`, `PreserveInbound` | `http_log`, the origin, `ModifyResponse` |
| Plugins `cors`, `jwt_auth`, `request_size_limiting`, `add_header`, `response_headers` (`plugin/*.go`) | a response writer each, for `response_headers`: applied or not | factories, `Wrap`, `apply`, the writer's `WriteHeader`, `Write`, `Flush` | the plugins before and after, the proxy |
| Metrics (`metrics/metrics.go`) | counters; a status per request | `Wrap`, `statusWriter` | every service's handler |
| `http_log` (`plugin/http_log.go`) | a line buffer under a mutex | `log`, `Flush` | requests, the flusher, `Close` |
| `rate_limiting`, memory mode (`plugin/rate_limiting.go`) | visitors map and call counter under a mutex | `newRateLimiting`, `Wrap`, `allow`, `sweepLocked` | all requests of the service |
| `rate_limiting`, distributed mode (`plugin/ratelimit_sugardb.go`) | counters in SugarDB | `allow`: INCR, then EXPIRE | several gateway processes |
| TLS reloader (`cmd/dealer/internal/tlscert/reloader.go`) | certificate pointer, two mtimes | `NewReloader`, `Reload`, `pollOnce` | TLS handshakes, whoever renews |
| Process (`cmd/dealer/main.go`) | the servers, the signal | start, root mux and info endpoint, shutdown with a deadline | `Close`, requests in flight |
| ACME, OpenTelemetry, load-test tools | none that requests depend on | see `PROJECT.json` | |

**Interactions.** A request gets its client's address and its id, is routed by
the mux of one generation and stays with it, passes the service's plugins (which
may block it, and whose response writers its answer passes on the way back),
takes a position
from the service's counter, is handed to an origin, and its outcome is written
to that origin's record by a callback. A prober writes the same records. A
reload builds a generation and publishes it pointer by pointer, cancelling the
goroutines of the previous one. In front of all this are `net/http`'s server and
the root mux, which answer some requests by themselves. On a signal `main` drains the servers, up to a
deadline, and `Close` cancels whatever the pointers name.

**Where it is hard.** A decision is taken under a mutex and acted on after it
is released (dialing, recording). Times are read before the lock under which
they are used. Half-open is not a state but a consequence of two fields and the
clock. A reload is five stores with requests, polls and `Close` in between. The
watcher learns of a change from a stamp and reads the content later. A response
goes through writers that act once, in an order the config decides, after
informational responses, refusals or a hijacked connection. None of this is
reached by the unit tests, which call one method after another. The 39
hazards are in `PROJECT.json`, each at its line.

**What makes each part correct.** Breaker: `available` and `breakerOpen` agree,
a failure blocks, a healthy origin is never blocked. Proxy: a request that a
healthy origin could serve is served; requests are spread; retries are bounded
and never repeat an unsafe method; every request ends. Reload: generations are
whole, none leaks, the served config only moves forward and catches up with the
file; log lines are flushed. Limiter: the admitted requests keep to the rate
and a client under the rate is not blocked, whatever is forgotten or reordered.
Distributed limiter: every second has a bound over all gateways, and a block
ends. Certificates: a handshake gets a matching pair, never an older one, and
the last renewal is served in the end. A request: it is known by the address it
came from, whatever it claims; it goes to its host's service; it has one id in
its response, its log line and at its origin; no plugin that refuses it is
passed; and its answer has the headers the plugins promise and is counted as
what it was. Shutdown: a signal ends the process.

## Modules

| Module | Models | Built on |
|---|---|---|
| `OriginState` | the methods of `originState` as operators, with the width of `time.Duration` | |
| `RoundRobinProxy` | one service's proxy: requests, retries, callbacks, prober, origins, clock | EXTENDS `OriginState` |
| `HotReload` | abstract: what a user of a hot-reloaded value sees | |
| `GatewayReload` | New, the watcher, reloads, generations' goroutines, `http_log` buffers, `main`'s shutdown, Close; implements `HotReload` | INSTANCE `HotReload` |
| `ClientIP` | `clientip.Resolve`, and how a request comes through proxies | |
| `Router` | `Parse`'s checks, `router.Build`'s patterns, `ServeMux`'s choice | |
| `ServiceHandler` | one request through middleware, route, plugins and proxy, its response through the writers, the metric | EXTENDS `ClientIP`, `Router` |
| `TokenBucket` | abstract: one never-forgotten token bucket per client | |
| `RateLimiter` | the plugin over the swept in-memory store; implements `TokenBucket` | EXTENDS `TokenBucket` |
| `VisitorMap` | how far the store's map grows | EXTENDS `RateLimiter` |
| `SugarStore` | the plugin's distributed mode: gateways, INCR and EXPIRE, failures, crashes, expiry | |
| `CertReloader` | NewReloader, polls and loads against two-file renewals; implements `HotReload` | INSTANCE `HotReload` |
| `MC…` | model values, symmetry sets, configs and requests | the module they name |
| `…_proofs` | theorems and their proofs | the module they name; `ServiceHandler_proofs` also on `Router_proofs`, whose lemmas it cites |

Operators named like `SkipLastScan` or `SweepIdle`, introduced as plausible
faults, are not part of any specification. Each is a way the code
could be wrong; putting it in the place of the definition it mirrors makes a
named property fail (`mutants` in `PROJECT.json`).

### RoundRobinProxy

`req[r]` holds the locals of one `ServeHTTP` call: its position (`start`), the
time read on entry (`now`), the loop index, the origin it was handed to, the
attempt, and the time `ErrorHandler` reads before it takes the mutex
(`failAt`). Every step touches shared state once: `Enter`
(`next.Add`), `ReadNow`, one `Scan` per candidate, `Fallback`, `FastFail`, then
`Send`, `Answer`/`OriginError`/`ClientFault`, `WakeUp`, and the callbacks.
`StampFailure` and `ErrorHandler` are two steps because `lb.now()` is an
argument evaluated before `recordFailure` locks. `ClientFault` covers a
cancelled client and an unreadable body (for instance one cut off by
`request_size_limiting`): `RoundTrip` returns neither as a `net.Error`, so
neither is retried, and both reach `ErrorHandler`. `ModifyResponse` may be
followed by `ErrorHandler` when a protocol upgrade fails.

The origins are the environment: `health` is up, sick (serves, but the health
path is not 2xx) or down. `Good` are the origins that never leave "up" and
never fail an upgrade.

### GatewayReload

The watcher's `pc` first walks through `New` (`starting`), then through polls.
`LoadAndBuild` reads the file once and either yields a generation, an error, or
a panic. `StoreMux` … `CancelOldFlusher` are the rest of an installation in the
code's order, one access to shared state each: a pointer is swapped in one step
(`SwapProbers`, `SwapFlusher`), and the function it held, a local of the reload
(`watcher.old`), is called in the next (`CancelOldProbers`, `CancelOldFlusher`),
so that `Close` can come in between. `Remember` is the end of `pollOnce`. A
config is what becomes of it: `ok`, `rejected`, `missing`, `conflict`
(`ServeMux.Handle` panics) or `badtick` (`time.NewTicker` panics in the prober's
goroutine). Which configs are which is `ServiceHandler`'s `Served`. `BootKinds` are those the file may hold when `New`
reads it, `Kinds` those an edit may leave.

`server` is `main`: it is up from the end of `New`, drains after a signal
(`Shutdown`: the auxiliary servers and the listener, which takes no request any
more), and exits, either by way of `Close` when no request is in flight, or
without it when the deadline passes (`ShutdownTimesOut`, `log.Fatalf`) or the
listener fails (`ServeFails`). `Close` is five steps, each a pointer's load with
the call on what it loaded. Here one step is enough: a cancel function may be
called twice and has no effect on anyone but its own goroutine, no line is logged
any more when the buffers are flushed, and the properties speak of `Close` only
when all its calls are over. After it `MainReturns` ends the process, and with it
whatever runs; until then a reload under way goes on. `closing.installed` is history.

What requests see of all this is `HotReload`: the config served is `loaded` of
the mux's generation, the config published is the last edit. `HotReload` says
that from the first load on there is always a config, that it was complete on
disk, and that it is never replaced by an older one.

### Router, ClientIP and ServiceHandler

A config is a sequence of services whose fields are abstracted to what `Parse`,
`router.Build` and the plugins tell apart; a path is the set of request paths it
covers. `Served` are the configs that `New` and a reload accept. `ServeMux`
(methods, `HEAD` under `GET`, hosts before no host, the more specific of two
paths, 404 and 405, conflicts, redirects) is external and written down from its
documentation as far as the code relies on it. A service for "/orders/" covers
what is below it too: `inexact` are the paths that only this open end takes, and
`Slashed` says which path is which other one with a slash added. `ServeMux` sends
a client from the one to the other (`Redirected`) when no pattern takes the first
to its end.

There are two muxes. The root mux (`newRootMux`) is in front of the middleware:
`target` says whether a request's path is clean, has to be cleaned, or is `*`,
and `RootMux` is what `net/http` answers then without calling the gateway (301,
400, or 200 to `OPTIONS *`; `CONNECT` is not cleaned). `Info` is its other
handler. The gateway's own mux is behind client address and id; it gets clean
paths only.

A request is in one place at a time: `Arrive` is the middleware and the
gateway's mux, one action per plugin is its `Wrap`, with
the two outcomes "answers" (`WriteHeader`) and "calls next" (`Continue`), and
`FastFail`, `RoundTrip`, `OriginFails`, `Inform`, `Respond`, `Switch` are the
reverse proxy. A call on the response writer then travels outwards (`call.pos`)
through the writers of the plugins before it (`PassWriter`: only
`response_headers` has one) to `statusWriter` and the server
(`PassStatusWriter`); `WriteBody` sends further writes and flushes the same way.
`Return` is where `Recorder.Wrap` counts the request, `Abort` the panic with
which `ReverseProxy` ends a copy that fails. `hdr` is the one header map all
writers share: the server keeps what it is at the first final status
(`sent.header`). `ReverseProxy` is external: it appends the origin's headers,
clears the map after an informational response, and removes from the request, after
the Director and all plugins have seen it, what the client's `Connection` header
names (`connection`, `endToEnd`).

A header is a sequence of `Values`. `Names`, `Values`, `Requests`, `Configs` and
`Answers` are constants; the assumptions say no more of them than their types,
that the gateway's own names and values are among them, that a generated id is
none a client sends (it is random), that an answer's status is 101 or final, and
that `DEALER_INFO_PATH` is an exact path, as `newRootMux`'s comment has it.
What a plugin's options are (`OptionTypes`) is what its factory parses them to.
`add_header` does not set `Connection` itself. Where a property has an
exception, its comment says which: what a mux answers by itself, an informational
response, which clears the header map, a client that names `X-Request-Id` in
`Connection`; and a `response_headers` plugin is free to set
the id, the `cors` headers or the very `Content-Type` by which it chose its rules.

What the origins do is nondeterministic here and in detail in `RoundRobinProxy`;
`rate_limiting` answers either way here and in detail in `RateLimiter` and
`SugarStore`.

### TokenBucket and RateLimiter

A token is `Scale` units and time is in seconds, so that fractional rates are
integers; float64 rounding is left out. `Burst` is computed as
`newRateLimiting` does, an absent burst included. `ReadNow` is `p.now()` in
`Wrap`; `Allow` is all of `memoryStore.allow`, sweep first, under the mutex.
`bucket`, `newest` and `ledger` are history variables: the buckets a store
without a sweep would have, and for each client the requests that `allow`
really let through. `TokenBucket`'s specification over these variables is what
`RateLimiter` implements: `ledger` is written from the code's answer, so a
sweep that changed an answer would not be a step of `TokenBucket`. `VisitorMap`
adds the clients decided since the last sweep and that sweep's time.

### SugarStore

`Incr` is `allow` up to its first command: a request that did not begin a
counter is decided there, one that did still has its `Expire` to run. Any other
gateway's requests, a tick, a failed command (`IncrFails` is one that was
applied although it reports an error) or the end of its gateway (`Crash`) may
come first. `Setup` is `getSharedSugarDBStore` with its `sync.Once`: what became
of the first call holds until the process ends. SugarDB is external: one
replicated map with atomic commands, as `allow` and the two-node test use it.
Time is relative (instants a counter has left), so behaviours are infinite and
liveness is checked under endless traffic. `recent` is history: the ages of the
requests a client was let through in the last second, the newest first.

### CertReloader

The two Stats and the two reads of a poll are four steps, and so are those of
`NewReloader`, in its other order. A certificate is the renewal it comes from
and the key it was issued for; `Matches` is the check of `tls.X509KeyPair`. A
renewal is issued (`Issue`, with the same or a new key) and then written file by
file, possibly by way of a truncated or missing file, possibly never finished.
Every write changes the file's modification time. `cert` is what
`GetCertificate` returns; over it and the renewals issued the reloader is a
`HotReload`.

## Runs

The type invariants of `GatewayReload` and `CertReloader` are proved for every
value of the constants and not checked again here.

| Run | Checks | Shows |
|---|---|---|
| `lb_failover` | `TypeOK`, `HealthyOriginAvailable`, `NoFastFailWithGoodOrigin`, `RetryBound`, `RoundRobin` | one of two origins fails at any moment, two requests, retries, probes: the healthy origin is never marked or passed over |
| `lb_breaker` | `HalfOpenConsistent`, `FailureDateConsistent`, `FreshFailureBlocks`, `NoAdmissionWhileOpen` | one unreliable origin, overlapping requests and client faults: trips, escalations past the cap, half-open windows |
| `lb_liveness` | `EveryRequestAnswered`, `ProbeConverges` | under fairness |
| `gw_reload` | `CoherentAtRest`, `CloseStopsInstalled`, `InstalledLinesFlushed`, `ImplementsHotReload` | two edits of any kind at any time, two requests, shutdown, and Close between any two steps of a reload: what it leaves running of the generation it found is only what the reload has swapped out and cancels next |
| `gw_converges` | `ConfigPickedUp`, `LinesFlushed`, `SignalEndsProcess` | under fairness |
| `gw_request` | `TypeOK`, `ClientIdentified`, `PolicyApplied`, `MetricIsAnswer`, `OneRequestId`, `OriginShielded`, `RoutedByHost`, `PreflightAnswered`, `CorsConsistent` | every kind of request, clean or not, route, redirect, plugin, refusal, failure, informational response and upgrade |
| `rl_memory` | `TypeOK`, `RateBound`, `MapBounded`, `ImplementsTokenBucket`, `SlowClientAdmitted` | two clients, reordered times, sweeps |
| `rl_distributed` | `TypeOK`, `WindowBound`, `BlockEnds`, `OnlyFailuresOrphan` | two gateways, two clients, every failure, a fractional burst; safety and, under fairness, liveness |
| `tls_renewal` | `ServesMatchingPair`, `NothingMissed`, `ImplementsHotReload`, `RenewalServed` | two renewals with the same key or a new one, broken and missing files; safety and, under fairness, liveness |

Three runs state what a document or a comment of the repository says and find the
code doing otherwise (`findings` quotes the lines):

| Run | Claim refuted | Counterexample |
|---|---|---|
| `lb_client_faults` | `HealthyOriginAvailable` | a client that cancels takes a healthy origin out of rotation |
| `gw_bad_edit` | `WatcherSurvives` | a gateway that runs with a valid config picks up an edit that Parse accepts, and the reload, or a prober it starts, panics |
| `gw_lost_lines` | `NoLineLost` | lines buffered by a replaced generation have no flusher left and Close does not reach them |

### Bounds

- Two requests in flight: every property speaks of at most two requests and one
  origin at a time; a third adds no new kind of interference. Two origins in
  `lb_failover` are the fewest for which scan order matters.
- `MaxRequests`, `MaxTime`, `MaxEdits`, `MaxGens`, `MaxCalls` cap counters and
  are chosen so that the interesting case happens: `lb_breaker` has time and
  requests for a trip, an escalation past the cap
  (`maxBreakerCooldownShift = 1`) and a half-open window; `gw_reload` installs
  three generations; `gw_converges` has one line per request, enough for a line
  to be left unflushed; `rl_memory` runs until a visitor is old enough to be swept
  (`staleAfter = 4`, `sweepEvery = 2`, seven seconds) and sits exactly on the
  condition of the theorem. `next` and `calls` are `uint64` in the code; the
  models stay below 2^64, so their wrap is excluded.
- `MaxDuration = 7` stands for 2^63 - 1: uncapped, the second escalation wraps.
- `MaxLag` is how long a request may wait for the limiter's mutex with a time it
  has read.
- `rl_distributed` counts up to `MaxCount`, above the limit of 2, where counters
  saturate; a second is two instants. `WindowBound` is tight: one less is
  violated. `tls_renewal` has two renewals after the first pair.
- `gw_request` has one request at a time: requests share nothing in these parts
  but the counters. Five configs are served: the order of plugins README
  recommends, the opposite one behind a host, plugins nested in themselves, and
  a service for "/b/" with and without one for "/" around it;
  seventeen more are refused, one for each check of `Parse`, of the factories and
  of `ServeMux`. Requests combine methods, tokens, origins, ids and
  lengths freely, and every `X-Forwarded-For` of up to two claimed entries with
  up to two proxies; every route is asked for with a path that is clean, unclean
  or `*`, and with headers named in `Connection`. One informational response (`MaxInfo`) is enough to use up
  what acts once.
- Symmetry is used for request slots and clients, in safety runs only.

Deadlock checking is off for `GatewayReload`, `RateLimiter` and `CertReloader`: a
closed or crashed gateway, one whose clock and calls are used up, and a stopped
reloader do stop.

### Fairness

`RoundRobinProxy!FairSpec` is weakly fair to each request's goroutine and to the
prober, not to new requests, time or the origins. Goroutines are scheduled by
Go; dialing and waiting for response headers are bounded by the service's
timeout (`proxy.go`), so a round trip ends; backoff sleeps end. Uploading a
request body is not bounded by `ResponseHeaderTimeout`: that a stalled upload
ends is assumed. Probes carry their own timeout.

`GatewayReload!FairSpec` is weakly fair to the watcher and to each flusher's
tick: tickers keep firing. It is weakly fair to `main` once a signal has come:
either the requests end, `Close` runs and `main` returns (`MainReturns`), or the
deadline of `shutdownTimeout` passes. Nobody has to edit, request or send a signal.
`ConfigPickedUp` is conditioned on the edits ending with a valid config and on
the gateway staying open.

`CertReloader!FairSpec` is weakly fair to the reloader's goroutine (the ticker
keeps firing), not to whoever renews; `RenewalServed` is conditioned on the
files ending up complete. `SugarStore!FairSpec` is weakly fair to time and to
the second command of each request, whether it succeeds or fails.

## Proofs

All for any number of origins, requests, generations, clients and for every
setting of the options, from the named assumptions of each module.

**RoundRobinProxy.** `TypeCorrect`. `FailureDatesConsistent` is not inductive
alone: `DatesInv` adds that a time read by `ErrorHandler` and not recorded yet
is not in the future. With the lemma that an escalated cooldown never wraps
(`EscalationDoesNotWrap`) it gives `BreakerMatchesAvailability` and
`FreshFailuresBlock`. `HealthyOriginsServe` rests on `HealthyInv`: a good
origin's record is unmarked, no probe result about to be applied holds it down
and no request handed to it is on its way to `ErrorHandler`.
`NoSpuriousFastFail` adds `ScanInv`: the candidates a scan has passed over are
not good. N consecutive positions cover every origin modulo N
(`ScanCoversEveryOrigin`), so a scan that ends has found no good origin to
exist. `RequestsAreSpread` adds `PositionInv`. `RetriesBounded` adds
`AttemptInv`: a request asleep between two attempts may be repeated and has
attempts left. `OpenBreakersAdmitNothing` adds
`NowInv` (the time a decision uses is never ahead of the clock) and the lemma
that a breaker open now was open at every earlier time, so an old time errs on
the safe side. The three theorems about good origins assume `~ClientFaults`,
which `lb_client_faults` shows to be necessary.

`NoOverflowAssumption` says the capped cooldown fits a `Duration`: with the
code's cap of 10 doublings, any `BreakerCooldown` below 2^53 ns (104 days). The
code does not check it.

**GatewayReload.** `ReloadInv` is `TypeOK` with `StageInv` (where each pointer
stands, by the watcher's pc, and which generation a reload has just swapped out),
`RunningInv` (while open, exactly the goroutines are running that a pointer can
still cancel, or is about to, or that a reload has just taken out of it),
`ClosingInv` (of the generations up to the installed one, only those goroutines
run that Close has yet to cancel or a reload under way cancels next) and
`ZeroInv`. It gives `TypeCorrect`, `ReloadsAreWhole` and `CloseCancelsInstalled`,
the last with what a reload has swapped out and not yet cancelled as its only
exception; with
`VersionInv` (a generation being installed is no older than the served one) it
gives `GatewayImplementsHotReload`: every step is a step of `HotReload` or
changes nothing a request sees. `CloseFlushesInstalled` adds `FlushedInv`: once
the server drains no request is routed any more, so that no line is added after
the final flush.

**Router.** `RouteIsUnique`: in a config without conflicts, a request that some
pattern matches has exactly one most specific pattern. Two patterns that match
the same request are equal or one is more specific (`ServeMux` panics
otherwise); a config has finitely many, and a strict order on a finite set has a
least element. `PatternOf` says where a pattern comes from, `HostsFirst` and
`MostSpecificPaths` what the chosen one wins over.

**ServiceHandler.** For every config, chain of plugins, request and answer. The
actions are first sorted by what they mean for the request (`HandsOn`,
`Replies`, `Upgrades`, `Loses`, `Relays`), so that each invariant below is
shown once per meaning and not once per plugin. `FrontIs` and `ArriveIs` say
what the two muxes answer by themselves.

- `TypeCorrect` by `TypeInv`, which adds that an informational response on its
  way out is one of those there may be.
- `ClientsIdentified` rests on `ResolveFindsClient`: the client's own entry is
  the one that the first proxy appended, everything to its right is trusted, and
  it is not, so the walk from the right ends there.
- `RequestsRoutedByHost`: `SettledInv` says how everything is before the
  middleware and what it settles; the route is chosen once, with the id, and the
  rest is `Router`'s.
- `MetricsAreAnswers` is not inductive alone: `StatusInv` says how
  `statusWriter`'s status, the call under way and what was sent relate at each
  place.
- `OriginsShielded` rests on `PassedInv`: whatever plugin a request is behind
  has let it pass, wherever in the chain it is.
- `PreflightsAnswered` rests on `PreflightInv`: such a preflight is routed to
  the one service of its path, by its `OPTIONS` pattern, gets no further than
  the `cors` plugin, and the call on its way out is that plugin's 204.
- `RequestIdsKept` rests on `IdInv`: from the middleware on the shared header
  map, the header sent and the request handed on hold the id, whatever plugins
  and origins add, unless a plugin is told to set it, the map was cleared, or the
  client has `ReverseProxy` remove it; a request without an id has not come past
  the root mux.
- `PagesReadAnswers` rests on `CorsInv`: until an origin's answer is relayed the
  header map says exactly what the `cors` plugins the request has come through
  say (`CorsSays`), wherever the answer comes from.
- `PoliciesApplied` rests on `PolicyInv`: no writer has applied before there is a
  final status, and while the call passes outwards, the header map is what the
  outermost writer passed makes of it (`Governed`). `apply` is idempotent unless
  its rules set the `Content-Type` (`ApplyOnce`), so what the last writer made
  stays what it would make.

**RateLimiter.** About the abstract bucket: `BucketInv` looks at a bucket from
the latest time its client's requests carried (`Level`). Seen from there it
holds between nothing and a burst (`LevelInv`), although its tokens alone can be
negative after a reordered request, and every suffix of the admitted requests is
paid for (`PaidFor`). This gives `BucketBoundsRate` and
`BucketAdmitsSlowClients`. About the store: `StoreInv` adds that a visitor is
its client's bucket (`AgreeInv`), that times lag by at most `MaxLag` (`LagInv`),
and that a client without a visitor has a bucket which will be full for every
time its next request can carry (`ForgottenInv`). So `Allow` is a step of
`TokenBucket` (`StoreImplementsTokenBucket`), and the two abstract results hold
of the code's answers (`LimiterBoundsRate`, `LimiterAdmitsSlowClients`).
The premises: `Scale <= Burst`, which the code does not guarantee for a default
burst (see the known limits), and `RefillsWhileKept`, Burst <= Rate * (staleAfter - 2 * MaxLag):
with the code's ten minutes, a burst of at most about 600 seconds' worth of
requests. A larger burst is accepted by the code; an idle client's bucket is
then refilled by the sweep earlier than by the rate.

**VisitorMap.** `VisitorMapBounded` rests on `MapInv`: the clients touched since
the last sweep are no more than the calls since, the sweeping one included
(`calls % sweepEvery + 1`), and everyone else in the map survived that sweep.
No premise on rates or lags is needed.

**CertReloader.** `PairInv` orders the renewals: what is served is no newer than
what a load has read, that no newer than the file, that no newer than what was
issued. It gives `PairsMatch` and `ReloaderImplementsHotReload`. `NothingMissed`
is not inductive alone: `StampInv` adds that no time is remembered or seen that
the file has not had, and that a load which found the file with the time its
poll saw has read what is in it. `NoRenewalMissed` assumes `~StartupRenewals`.

**SugarStore.** `CommandsDoNotOrphan` needs only the types of the store and the
database (`StoreInv`): a counter without expiry always has a request in flight
that will set it, until a failure takes that request away. `CounterInv` adds
`BeginnersInv` (a request between INCR and EXPIRE began its counter, is the only
one, and the counter has no expiry while it is there) and `WindowsInv` (what a
counter and its remaining time say of the ages of the requests let through). It
gives `TypeCorrect` and `WindowsBoundRate`. The bound is one below twice the
limit because the request that begins a window is let through only after its
EXPIRE, so that when the window ends, all but `Limit - 1` of its requests are a
second old.

**How data is reasoned about.** Induction theorems with an operator as a
parameter are out of the provers' reach. Where a proof needs a least or a last element (the most specific of the
patterns, the last rule that sets a header) it takes it from the library's
minimum principle for well-founded relations (`LeastNatural`, `LastPosition`
and `RouteIsUnique` in `Router_proofs`); invariants speak of positions in a
chain or a list and not of what a recursive walk computes.

**Only model-checked.** Every invariant and every safety property of a passing
run is stated by a theorem. What remains is liveness under fairness, which the
prover does not handle: `EveryRequestAnswered`, `ProbeConverges`,
`ConfigPickedUp`, `LinesFlushed`, `SignalEndsProcess`, `BlockEnds`,
`RenewalServed`.

## Known limits of the code, met while modelling

Besides the findings, and within what the comments leave open:

- A request handed to an origin before its breaker opened still dials it.
  `NoAdmissionWhileOpen` is what does hold.
- Requests already in flight when a breaker trips lengthen its cooldown when
  they fail, although they were not trials.
- During a reload `HasHost` briefly answers for the previous config while
  requests are routed by the new one (`mux` and `hosts` are two stores).
- A reload that overlaps `Close` leaves its own generation's goroutines running:
  `Close` cancels the watcher without waiting for it. A reload that has swapped
  its cancel function in and not yet called the old one (gateway.go:326, 351)
  makes `Close` cancel the new generation and return with the installed one's
  probers or flusher still running until the reload goes on, although Close's
  comment (gateway.go:362-363) says it stops them. `CloseStopsInstalled` is what
  does hold; in `main` the process exits right after.
- An edit that keeps mtime and size is not seen, as the watcher documents.
- Once a breaker's cooldown has elapsed, every request that arrives before the
  first outcome is let through, where the repository's README speaks of a
  single trial request (README.md:190).
- `NewWatcher` and `NewReloader` take their stamps after the content was loaded,
  so an edit or a renewal in between counts as seen until the next one. With
  `StartupEdits` or `StartupRenewals` TRUE, `ConfigPickedUp`, `NothingMissed` and
  `RenewalServed` fail.
- In distributed mode a client whose EXPIRE is lost stays blocked, and a second
  that straddles two windows sees up to twice the burst less one request;
  README.md:209 says up to `burst` in any given second.
- An absent burst defaults to `requests_per_second` without the check that a
  configured one gets. With a rate below 1 the bucket holds less than one token:
  a client is admitted once and then blocked for as long as its visitor is kept,
  although it stays under the rate. With such a rate `SlowClientAdmitted` fails.
- After an informational response of the origin, `ReverseProxy` clears the
  header map, so the final response has neither the request id nor cors's
  headers. README.md:225 says every response carries the id. What the root mux
  answers in front of the gateway has none either: the info endpoint, the 301 to
  a path that has to be cleaned (such as `//a`), and 400 or 200 to `*`. Nor is
  any of these counted or logged.
- A client that sends `Connection: X-Request-Id` makes `ReverseProxy` remove the
  id from the request the origin gets, as it makes it remove any header that
  `add_header` sets; its response and log line still have it.
- A `DEALER_INFO_PATH` that ends in a slash is a pattern for everything below it,
  although `newRootMux`'s comment says "(exact match)".
- A preflight for a path without its trailing slash is redirected by `ServeMux`,
  which browsers do not follow; so it is not answered by `cors`.
- The gateway's own size limit comes before a service's `response_headers` and
  `cors`, so its 413 has the headers of neither; and a 101 bypasses
  `response_headers`.
- A host's request with a method its own service does not take goes to the
  services without a host; README.md:165 speaks only of hosts that match no
  service.
- A response whose body fails half-way is not counted, since `ReverseProxy`
  panics through `Recorder.Wrap`.
- The shutdown of all servers shares one deadline. When it passes, `main` exits
  without `Close`, and buffered lines are lost.

## Not modelled

- ACME certificates (`acmecert.go`): a wrapper of `autocert`. Its host policy
  reads `Gateway.HasHost`, whose pointer `GatewayReload` has.
- OpenTelemetry spans (`tracing/otel.go`): library calls with no effect on a
  request.
- Environment parsing in `main.go`, the debug and metrics listeners, and the
  parsing of YAML, of host names, addresses and of `DEALER_TRUSTED_PROXIES`:
  sequential conversions, of which the models have the outcomes.
- The `Content-Type` that `net/http` sniffs from the body when a response has
  none: it is set after `response_headers` has chosen its rules, so a rule for
  that type does not apply to such a response.
- Durations and histograms of the metrics; log wording; URL rewriting.
- The load-test tools (`loadtest/`): not part of the gateway.

## Plan

Done, in this order: the breaker and the proxy; hot reload and Close; the memory
rate limiter with its abstract specification; the certificate reloader; the
distributed limiter; their first proofs; client addresses, routing and the
chain of plugins and response writers; the shutdown of the process; both
reloaders as refinements of one abstract specification.

Then proofs of every safety property that the runs check: `RetryBound`,
`MapBounded`, `WindowBound`, the type invariants and all that `gw_request`
states, from lemmas about `Router`'s choice and about the header operators.

Next:

1. The safety cores of the liveness properties: that nothing a waiting request,
   a watcher at rest or a flusher waits for can be lost (for instance, that a
   watcher which has not the last edit loaded sees a changed stamp).
2. Shorter proofs where a step shape or a lemma can stand for several leaves.
