--------------------------- MODULE GatewayReload ---------------------------
(***************************************************************************)
(* The life of a Gateway (gateway/gateway.go): New loads the config file   *)
(* and starts the watcher (internal/config/watcher.go); every reload       *)
(* builds a new generation (mux, hosts, probers, plugins, log flusher) and *)
(* installs it one atomic pointer at a time; requests route through the    *)
(* current mux and log into their generation's http_log buffer             *)
(* (internal/plugin/http_log.go); Close tears everything down.  The        *)
(* watcher, the requests, the goroutines of each generation, Close and     *)
(* whoever edits the file all interleave.                                  *)
(*                                                                         *)
(* A config is what its fate tells apart: "ok"; "rejected" (Parse or       *)
(* buildMux returns an error); "missing" (no file); "conflict" (two routes *)
(* with one pattern: ServeMux.Handle panics); "badtick" (a health_check    *)
(* interval that is not positive: the prober's NewTicker panics).          *)
(***************************************************************************)
EXTENDS Integers

CONSTANTS
    BootKinds,     \* the kinds of config the process may start with
    Kinds,         \* the kinds of config an edit may leave on disk
    Requests,      \* slots for requests in flight
    SameStamp,     \* whether an edit may keep the file's mtime and size
    StartupEdits,  \* whether the file may change while New runs
    BufferLines,   \* lines that fit an http_log buffer
    MaxEdits,      \* bound: edits of the file
    MaxGens        \* bound: generations built

AllKinds == {"ok", "rejected", "missing", "conflict", "badtick"}

ASSUME GatewayAssumption ==
    /\ BootKinds \subseteq AllKinds /\ Kinds \subseteq AllKinds
    /\ {SameStamp, StartupEdits} \subseteq BOOLEAN
    /\ BufferLines \in Nat \ {0}
    /\ MaxEdits \in Nat
    /\ MaxGens \in Nat \ {0}

\* 0 stands for a nil pointer.
Gens == 0..MaxGens

VARIABLES
    file,      \* environment: version, mtime/size stamp and kind on disk
    watcher,   \* the goroutine of New, then of Watcher.Start; old is oldCancel
    gen,       \* generations built so far
    conf,      \* generation -> the version and kind it was built from
    mux, hosts, plugins,             \* the atomic pointers, as generations
    proberCancel, logFlusherCancel,  \* the generation each cancels
    prober, flusher,  \* generation -> its goroutines
    buffer,    \* generation -> lines in its http_log buffer
    req,       \* request slot -> the generation serving it, 0 when idle
    closing,   \* Close, and (history) the generation installed when it began
    alive,     \* FALSE after an unrecovered panic
    server     \* main's http.Server: "up", "draining", or "exited" with main

pointers == <<mux, hosts, plugins, proberCancel, logFlusherCancel>>
vars == <<file, watcher, gen, conf, pointers, prober, flusher, buffer, req, closing, alive, server>>

InstallPcs == {"mux", "hosts", "spawn", "probers", "oldprobers",
               "plugins", "spawnflusher", "flusher", "oldflusher"}
WatcherPcs == InstallPcs \cup {"boot", "stat0", "idle", "load", "remember", "stopped", "exited"}
ClosePcs == {"open", "watcher", "probers", "flusher", "flush", "closed"}
GoroutineStates == {"none", "running", "cancelled", "stopped"}

\* The type invariant.
TypeOK ==
    /\ file \in [ver : Nat, stamp : Nat, kind : AllKinds]
    /\ watcher \in [pc : WatcherPcs, starting : BOOLEAN, seen : Nat, last : Nat, old : Gens]
    /\ gen \in Gens
    /\ conf \in [Gens -> [ver : Nat, kind : AllKinds]]
    /\ mux \in Gens /\ hosts \in Gens /\ plugins \in Gens
    /\ proberCancel \in Gens /\ logFlusherCancel \in Gens
    /\ prober \in [Gens -> GoroutineStates]
    /\ flusher \in [Gens -> GoroutineStates]
    /\ buffer \in [Gens -> 0..BufferLines]
    /\ req \in [Requests -> Gens]
    /\ closing \in [pc : ClosePcs, installed : Gens]
    /\ alive \in BOOLEAN
    /\ server \in {"up", "draining", "exited"}

\* The process starts with some config on disk.
Init ==
    /\ \E k \in BootKinds : file = [ver |-> 1, stamp |-> 1, kind |-> k]
    /\ watcher = [pc |-> "boot", starting |-> TRUE, seen |-> 0, last |-> 0, old |-> 0]
    /\ gen = 0
    /\ conf = [g \in Gens |-> [ver |-> 0, kind |-> "ok"]]
    /\ mux = 0 /\ hosts = 0 /\ plugins = 0
    /\ proberCancel = 0 /\ logFlusherCancel = 0
    /\ prober = [g \in Gens |-> "none"]
    /\ flusher = [g \in Gens |-> "none"]
    /\ buffer = [g \in Gens |-> 0]
    /\ req = [r \in Requests |-> 0]
    /\ closing = [pc |-> "open", installed |-> 0]
    /\ alive = TRUE
    /\ server = "up"

\* Calling a generation's CancelFunc; 0 is the nil pointer.
Cancel(goroutines, g) ==
    IF g # 0 /\ goroutines[g] = "running" THEN [goroutines EXCEPT ![g] = "cancelled"]
                                          ELSE goroutines

-----------------------------------------------------------------------------
(* Plausible faults of the actions below. *)

SwapWithoutCancel ==
    /\ watcher.pc = "probers"
    /\ proberCancel' = gen
    /\ watcher' = [watcher EXCEPT !.pc = "oldprobers"]
    /\ UNCHANGED <<file, gen, conf, mux, hosts, plugins, logFlusherCancel,
                   prober, flusher, buffer, req, closing, alive, server>>

CancelWhatIsStored ==
    /\ watcher.pc = "flusher"
    /\ logFlusherCancel' = gen
    /\ watcher' = [watcher EXCEPT !.pc = "oldflusher", !.old = gen]
    /\ UNCHANGED <<file, gen, conf, mux, hosts, plugins, proberCancel,
                   prober, flusher, buffer, req, closing, alive, server>>

CloseForgetsProbers ==
    /\ closing.pc = "watcher"
    /\ closing' = [closing EXCEPT !.pc = "probers"]
    /\ UNCHANGED <<file, watcher, gen, conf, pointers, prober, flusher, buffer, req, alive, server>>

CloseWithoutFlush ==
    /\ closing.pc = "flusher"
    /\ closing' = [closing EXCEPT !.pc = "flush"]
    /\ UNCHANGED <<file, watcher, gen, conf, pointers, prober, flusher, buffer, req, alive, server>>

RememberCurrentStamp ==
    /\ watcher.pc = "remember"
    /\ watcher' = [watcher EXCEPT !.pc = "idle", !.last = file.stamp, !.seen = 0]
    /\ UNCHANGED <<file, gen, conf, pointers, prober, flusher, buffer, req, closing, alive, server>>

FallBackToBootConfig ==
    /\ watcher.pc \in {"boot", "load"}
    /\ gen < MaxGens
    /\ file.kind \in {"ok", "badtick", "rejected"}
    /\ gen' = gen + 1
    /\ conf' = [conf EXCEPT ![gen + 1] = IF file.kind = "rejected"
                                         THEN [conf[1] EXCEPT !.kind = "ok"]
                                         ELSE [ver |-> file.ver, kind |-> file.kind]]
    /\ watcher' = [watcher EXCEPT !.pc = "mux"]
    /\ UNCHANGED <<file, pointers, prober, flusher, buffer, req, closing, alive, server>>

-----------------------------------------------------------------------------
(* New and Watcher.pollOnce *)

\* config.Load and buildMux, in New ("boot") or in a reload ("load"): the
\* file is read once, and nothing shared changes unless both succeed.
LoadAndBuild ==
    /\ watcher.pc \in {"boot", "load"}
    /\ gen < MaxGens
    /\ \/ /\ file.kind \in {"ok", "badtick"}
          /\ gen' = gen + 1
          /\ conf' = [conf EXCEPT ![gen + 1] = [ver |-> file.ver, kind |-> file.kind]]
          /\ watcher' = [watcher EXCEPT !.pc = "mux"]
          /\ UNCHANGED alive
       \/ /\ file.kind \in {"rejected", "missing"}
          /\ watcher' = [watcher EXCEPT !.pc = IF @ = "boot" THEN "exited" ELSE "idle"]
          /\ UNCHANGED <<gen, conf, alive>>
       \/ /\ file.kind = "conflict"
          /\ alive' = FALSE
          /\ UNCHANGED <<gen, conf, watcher>>
    /\ UNCHANGED <<file, pointers, prober, flusher, buffer, req, closing, server>>

\* pollOnce's Stat: a changed stamp leads to a reload, anything else returns.
Poll ==
    /\ watcher.pc = "idle"
    /\ file.kind # "missing"
    /\ file.stamp # watcher.last
    /\ watcher' = [watcher EXCEPT !.pc = "load", !.seen = file.stamp]
    /\ UNCHANGED <<file, gen, conf, pointers, prober, flusher, buffer, req, closing, alive, server>>

\* gw.mux.Store(mux)
StoreMux ==
    /\ watcher.pc = "mux"
    /\ mux' = gen
    /\ watcher' = [watcher EXCEPT !.pc = "hosts"]
    /\ UNCHANGED <<file, gen, conf, hosts, plugins, proberCancel, logFlusherCancel,
                   prober, flusher, buffer, req, closing, alive, server>>

StoreHosts ==
    /\ watcher.pc = "hosts"
    /\ hosts' = gen
    /\ watcher' = [watcher EXCEPT !.pc = "spawn"]
    /\ UNCHANGED <<file, gen, conf, mux, plugins, proberCancel, logFlusherCancel,
                   prober, flusher, buffer, req, closing, alive, server>>

\* startProbers: go p.Start(ctx) for every prober ...
SpawnProbers ==
    /\ watcher.pc = "spawn"
    /\ prober' = [prober EXCEPT ![gen] = "running"]
    /\ watcher' = [watcher EXCEPT !.pc = "probers"]
    /\ UNCHANGED <<file, gen, conf, pointers, flusher, buffer, req, closing, alive, server>>

\* ... then proberCancel.Swap ...
SwapProbers ==
    /\ watcher.pc = "probers"
    /\ proberCancel' = gen
    /\ watcher' = [watcher EXCEPT !.pc = "oldprobers", !.old = proberCancel]
    /\ UNCHANGED <<file, gen, conf, mux, hosts, plugins, logFlusherCancel,
                   prober, flusher, buffer, req, closing, alive, server>>

\* ... and only then (*oldCancel)(), of the previous generation.
CancelOldProbers ==
    /\ watcher.pc = "oldprobers"
    /\ prober' = Cancel(prober, watcher.old)
    /\ watcher' = [watcher EXCEPT !.pc = "plugins", !.old = 0]
    /\ UNCHANGED <<file, gen, conf, pointers, flusher, buffer, req, closing, alive, server>>

\* startLogFlusher: g.plugins.Store ...
StorePlugins ==
    /\ watcher.pc = "plugins"
    /\ plugins' = gen
    /\ watcher' = [watcher EXCEPT !.pc = "spawnflusher"]
    /\ UNCHANGED <<file, gen, conf, mux, hosts, proberCancel, logFlusherCancel,
                   prober, flusher, buffer, req, closing, alive, server>>

\* ... then the flush goroutine ...
SpawnFlusher ==
    /\ watcher.pc = "spawnflusher"
    /\ flusher' = [flusher EXCEPT ![gen] = "running"]
    /\ watcher' = [watcher EXCEPT !.pc = "flusher"]
    /\ UNCHANGED <<file, gen, conf, pointers, prober, buffer, req, closing, alive, server>>

\* ... then logFlusherCancel.Swap ...
SwapFlusher ==
    /\ watcher.pc = "flusher"
    /\ logFlusherCancel' = gen
    /\ watcher' = [watcher EXCEPT !.pc = "oldflusher", !.old = logFlusherCancel]
    /\ UNCHANGED <<file, gen, conf, mux, hosts, plugins, proberCancel,
                   prober, flusher, buffer, req, closing, alive, server>>

\* ... and (*oldCancel)().  New goes on to NewWatcher; a reload has succeeded.
CancelOldFlusher ==
    /\ watcher.pc = "oldflusher"
    /\ flusher' = Cancel(flusher, watcher.old)
    /\ watcher' = [watcher EXCEPT !.pc = IF watcher.starting THEN "stat0" ELSE "remember",
                                  !.old = 0]
    /\ UNCHANGED <<file, gen, conf, pointers, prober, buffer, req, closing, alive, server>>

\* NewWatcher stats the file now, not when New loaded it; then go watcher.Start.
NewWatcher ==
    /\ watcher.pc = "stat0"
    /\ watcher' = [pc |-> "idle", starting |-> FALSE, seen |-> 0, old |-> 0,
                   last |-> IF file.kind = "missing" THEN 0 ELSE file.stamp]
    /\ UNCHANGED <<file, gen, conf, pointers, prober, flusher, buffer, req, closing, alive, server>>

\* The end of pollOnce: what the poll saw before it loaded is remembered.
Remember ==
    /\ watcher.pc = "remember"
    /\ watcher' = [watcher EXCEPT !.pc = "idle", !.last = watcher.seen, !.seen = 0]
    /\ UNCHANGED <<file, gen, conf, pointers, prober, flusher, buffer, req, closing, alive, server>>

\* ctx.Done() of Watcher.Start; a tick that is ready too may win the select.
WatcherStops ==
    /\ watcher.pc = "idle"
    /\ closing.pc # "open"
    /\ watcher' = [watcher EXCEPT !.pc = "stopped"]
    /\ UNCHANGED <<file, gen, conf, pointers, prober, flusher, buffer, req, closing, alive, server>>

-----------------------------------------------------------------------------
(* The goroutines of a generation *)

\* NewTicker panics in the prober's own goroutine.
ProberPanics(g) ==
    /\ prober[g] \in {"running", "cancelled"}
    /\ conf[g].kind = "badtick"
    /\ alive' = FALSE
    /\ UNCHANGED <<file, watcher, gen, conf, pointers, prober, flusher, buffer, req, closing,
                   server>>

ProberStops(g) ==
    /\ prober[g] = "cancelled"
    /\ prober' = [prober EXCEPT ![g] = "stopped"]
    /\ UNCHANGED <<file, watcher, gen, conf, pointers, flusher, buffer, req, closing, alive, server>>

\* A tick: FlushLoggers over the generation's plugins.  It may still win the
\* select after the context is cancelled.
FlushTick(g) ==
    /\ flusher[g] \in {"running", "cancelled"}
    /\ buffer[g] > 0
    /\ buffer' = [buffer EXCEPT ![g] = 0]
    /\ UNCHANGED <<file, watcher, gen, conf, pointers, prober, flusher, req, closing, alive, server>>

FlusherStops(g) ==
    /\ flusher[g] = "cancelled"
    /\ flusher' = [flusher EXCEPT ![g] = "stopped"]
    /\ UNCHANGED <<file, watcher, gen, conf, pointers, prober, buffer, req, closing, alive, server>>

-----------------------------------------------------------------------------
(* Requests *)

\* gw.mux.Load(): the request stays with this generation to its end.  The
\* server runs when New has returned, and takes requests until its Shutdown.
Route(r) ==
    /\ req[r] = 0
    /\ ~watcher.starting
    /\ server = "up"
    /\ req' = [req EXCEPT ![r] = mux]
    /\ UNCHANGED <<file, watcher, gen, conf, pointers, prober, flusher, buffer, closing, alive, server>>

\* httpLog.log: a line goes into the buffer, which is written out when full.
Log(r) ==
    /\ req[r] # 0
    /\ buffer' = [buffer EXCEPT ![req[r]] = IF @ = BufferLines THEN 1 ELSE @ + 1]
    /\ req' = [req EXCEPT ![r] = 0]
    /\ UNCHANGED <<file, watcher, gen, conf, pointers, prober, flusher, closing, alive, server>>

-----------------------------------------------------------------------------
(* The end of main *)

\* A signal: the debug, metrics and ACME servers are shut down first, with
\* requests still coming in here, then srv.
Shutdown ==
    /\ ~watcher.starting
    /\ server = "up"
    /\ server' = "draining"
    /\ UNCHANGED <<file, watcher, gen, conf, pointers, prober, flusher, buffer, req, closing, alive>>

Drained == \A r \in Requests : req[r] = 0

\* A plausible fault: a Shutdown without a deadline.
WaitForRequests ==
    /\ server = "draining" /\ closing.pc = "open" /\ Drained
    /\ server' = "exited"
    /\ UNCHANGED <<file, watcher, gen, conf, pointers, prober, flusher, buffer, req, closing, alive>>

\* The deadline that the servers share has passed before the requests were
\* over: log.Fatalf, without Close.
ShutdownTimesOut ==
    /\ server = "draining" /\ closing.pc = "open"
    /\ server' = "exited"
    /\ UNCHANGED <<file, watcher, gen, conf, pointers, prober, flusher, buffer, req, closing, alive>>

\* serveErr: srv cannot listen or accept, which is fatal too.
ServeFails ==
    /\ ~watcher.starting
    /\ server = "up"
    /\ server' = "exited"
    /\ UNCHANGED <<file, watcher, gen, conf, pointers, prober, flusher, buffer, req, closing, alive>>

-----------------------------------------------------------------------------
(* Close *)

\* Shutdown has seen the last request end, and main returns: first g.cancel().
CloseWatcher ==
    /\ closing.pc = "open"
    /\ server = "draining"
    /\ Drained
    /\ closing' = [pc |-> "watcher", installed |-> logFlusherCancel]
    /\ UNCHANGED <<file, watcher, gen, conf, pointers, prober, flusher, buffer, req, alive, server>>

CloseProbers ==
    /\ closing.pc = "watcher"
    /\ prober' = Cancel(prober, proberCancel)
    /\ closing' = [closing EXCEPT !.pc = "probers"]
    /\ UNCHANGED <<file, watcher, gen, conf, pointers, flusher, buffer, req, alive, server>>

CloseFlusher ==
    /\ closing.pc = "probers"
    /\ flusher' = Cancel(flusher, logFlusherCancel)
    /\ closing' = [closing EXCEPT !.pc = "flusher"]
    /\ UNCHANGED <<file, watcher, gen, conf, pointers, prober, buffer, req, alive, server>>

\* The final FlushLoggers.
CloseFlush ==
    /\ closing.pc = "flusher"
    /\ buffer' = [buffer EXCEPT ![plugins] = 0]
    /\ closing' = [closing EXCEPT !.pc = "flush"]
    /\ UNCHANGED <<file, watcher, gen, conf, pointers, prober, flusher, req, alive, server>>

\* tracingShutdown, and Close returns.
CloseTracing ==
    /\ closing.pc = "flush"
    /\ closing' = [closing EXCEPT !.pc = "closed"]
    /\ UNCHANGED <<file, watcher, gen, conf, pointers, prober, flusher, buffer, req, alive, server>>

\* Close was deferred by main, which returns; goroutines run until it does.
MainReturns ==
    /\ closing.pc = "closed"
    /\ server' = "exited"
    /\ UNCHANGED <<file, watcher, gen, conf, pointers, prober, flusher, buffer, req, closing, alive>>

-----------------------------------------------------------------------------
(* Environment *)

\* Somebody writes, replaces or removes the file.
Edit(k) ==
    /\ file.ver <= MaxEdits
    /\ StartupEdits \/ ~watcher.starting
    /\ \E s \in IF SameStamp THEN {file.stamp, file.ver + 1} ELSE {file.ver + 1} :
          file' = [ver |-> file.ver + 1, stamp |-> s, kind |-> k]
    /\ UNCHANGED <<watcher, gen, conf, pointers, prober, flusher, buffer, req, closing, alive, server>>

WatcherStep ==
    \/ LoadAndBuild \/ Poll \/ StoreMux \/ StoreHosts \/ SpawnProbers \/ SwapProbers
    \/ CancelOldProbers \/ StorePlugins \/ SpawnFlusher \/ SwapFlusher \/ CancelOldFlusher
    \/ NewWatcher \/ Remember \/ WatcherStops

CloseStep == CloseWatcher \/ CloseProbers \/ CloseFlusher \/ CloseFlush \/ CloseTracing

MainStep == Shutdown \/ ShutdownTimesOut \/ ServeFails \/ MainReturns

GoroutineStep(g) == ProberPanics(g) \/ ProberStops(g) \/ FlushTick(g) \/ FlusherStops(g)

\* The process.
Running == alive /\ server # "exited"

Next ==
    /\ Running
    /\ \/ WatcherStep
       \/ CloseStep
       \/ MainStep
       \/ \E g \in Gens : GoroutineStep(g)
       \/ \E r \in Requests : Route(r) \/ Log(r)
       \/ \E k \in Kinds : Edit(k)

Spec == Init /\ [][Next]_vars

\* Tickers keep firing and goroutines are scheduled: the watcher, the
\* flushers and a main that is shutting down never stall for ever.  Nobody
\* has to edit, request or stop the gateway, and no request has to end.
FairSpec ==
    /\ Spec
    /\ WF_vars(Running /\ WatcherStep)
    /\ WF_vars(Running /\ (CloseStep \/ ShutdownTimesOut \/ MainReturns))
    /\ \A g \in Gens : WF_vars(Running /\ FlushTick(g))

-----------------------------------------------------------------------------
(* Properties *)

(***************************************************************************)
(* At rest, between polls and before Close, the five pointers name one     *)
(* generation, built from a config that was on disk, and its goroutines    *)
(* are the only ones not cancelled: "hot-reload never leaks a generation's *)
(* probers" (Gateway.proberCancel), nor its flush goroutine.               *)
(***************************************************************************)
CoherentAtRest ==
    watcher.pc \in {"idle", "load"} /\ closing.pc = "open" =>
        /\ {mux, hosts, plugins, proberCancel, logFlusherCancel} = {gen}
        /\ \A g \in Gens : (prober[g] = "running") <=> (g = gen)
        /\ \A g \in Gens : (flusher[g] = "running") <=> (g = gen)

(***************************************************************************)
(* What is true of "Close stops ... the current generation's active        *)
(* health-check probers and log flusher": once it has returned, nothing of *)
(* the generation it found installed, or of an older one, is left          *)
(* uncancelled but what a reload under way has already swapped out and     *)
(* cancels with its next step.  (Close does not wait for that reload.)     *)
(***************************************************************************)
CloseStopsInstalled ==
    closing.pc = "closed" =>
        \A g \in Gens : g <= closing.installed =>
            /\ prober[g] = "running" => watcher.pc = "oldprobers" /\ watcher.old = g
            /\ flusher[g] = "running" => watcher.pc = "oldflusher" /\ watcher.old = g

(***************************************************************************)
(* Close "gives every http_log instance one last flush (so buffered lines  *)
(* aren't lost on a graceful shutdown)": the requests are over when Close  *)
(* is called, so no line is left in a buffer when it returns.              *)
(***************************************************************************)
NoLineLost ==
    closing.pc = "closed" => \A g \in Gens : buffer[g] = 0

(***************************************************************************)
(* What Close keeps of that promise: the lines of the generation it found  *)
(* installed are written, unless a reload replaced it meanwhile.           *)
(***************************************************************************)
InstalledLinesFlushed ==
    closing.pc = "closed" /\ plugins = closing.installed => buffer[plugins] = 0

(***************************************************************************)
(* Watcher: "a bad edit never stops the watcher from picking up a          *)
(* subsequent, valid one".                                                 *)
(***************************************************************************)
WatcherSurvives == ~watcher.starting => alive

\* What a request sees: the version its routing table was built from, or -1
\* for one that is not valid.
Reload == INSTANCE HotReload WITH
    published <- file.ver,
    served <- IF conf[mux].kind \in {"ok", "badtick"} THEN conf[mux].ver ELSE -1

(***************************************************************************)
(* The steps of a reload are invisible to a request: it is routed by a     *)
(* valid config that was on disk, never by an older one than a request     *)
(* before it, although the stamp a poll saw and the content it then loads  *)
(* may belong to different edits.                                          *)
(***************************************************************************)
ImplementsHotReload == Reload!Spec

(***************************************************************************)
(* README: "configuration changes picked up automatically at runtime".  If *)
(* the edits end with a valid config, the gateway ends up serving it, also *)
(* when the file changed between a poll's Stat and its Load, or when other *)
(* edits were rejected in between.                                         *)
(***************************************************************************)
ConfigPickedUp ==
    /\ <>[](file.kind = "ok")
    /\ [](Running /\ closing.pc = "open" /\ watcher.pc # "exited")
    => <>[](conf[mux].ver = file.ver)

(***************************************************************************)
(* A line in the current generation's buffer is written out, unless a      *)
(* reload or Close intervenes.                                             *)
(***************************************************************************)
LinesFlushed ==
    \A g \in Gens :
        (buffer[g] > 0 /\ g = logFlusherCancel)
            ~> (buffer[g] = 0 \/ g # logFlusherCancel \/ closing.pc # "open" \/ ~Running)

(***************************************************************************)
(* A signal ends the process, although requests in flight may never end    *)
(* and a reload may be under way.                                          *)
(***************************************************************************)
SignalEndsProcess == server = "draining" ~> ~Running
=============================================================================
