------------------------ MODULE GatewayReload_proofs ------------------------
(***************************************************************************)
(* Proofs about GatewayReload for any number of requests, edits and        *)
(* reloads and for every kind of edit at any moment.                       *)
(***************************************************************************)
EXTENDS GatewayReload, TLAPS

\* The pcs of an installation, up to and including the step that moves each
\* pointer: before it the pointer names the previous generation.
BeforeHosts == {"mux", "hosts"}
BeforeProbers == {"mux", "hosts", "spawn", "probers"}
BeforePlugins == {"mux", "hosts", "spawn", "probers", "oldprobers", "plugins"}
BeforeFlusher == InstallPcs \ {"oldflusher"}

\* Where the pointers stand, by the watcher's pc.
StageInv ==
    /\ watcher.pc \notin {"boot", "exited"} <=> gen > 0
    /\ mux = IF watcher.pc = "mux" THEN gen - 1 ELSE gen
    /\ hosts = IF watcher.pc \in BeforeHosts THEN gen - 1 ELSE gen
    /\ proberCancel = IF watcher.pc \in BeforeProbers THEN gen - 1 ELSE gen
    /\ plugins = IF watcher.pc \in BeforePlugins THEN gen - 1 ELSE gen
    /\ logFlusherCancel = IF watcher.pc \in BeforeFlusher THEN gen - 1 ELSE gen
    /\ watcher.pc \in {"oldprobers", "oldflusher"} => watcher.old = gen - 1

\* While the gateway is open, exactly the goroutines are running that a
\* pointer can still cancel, or is about to, or that a reload has just taken
\* out of the pointer.
RunningInv ==
    closing.pc = "open" =>
        /\ \A g \in Gens : prober[g] = "running" <=>
              \/ g = proberCancel /\ g > 0
              \/ g = gen /\ watcher.pc = "probers"
              \/ g = watcher.old /\ g > 0 /\ watcher.pc = "oldprobers"
        /\ \A g \in Gens : flusher[g] = "running" <=>
              \/ g = logFlusherCancel /\ g > 0
              \/ g = gen /\ watcher.pc = "flusher"
              \/ g = watcher.old /\ g > 0 /\ watcher.pc = "oldflusher"

\* Once Close has begun: of the generations up to the one it found
\* installed, only those are running that Close has yet to cancel or that a
\* reload has swapped out and is about to cancel.
ClosingInv ==
    closing.pc # "open" =>
        /\ closing.installed <= logFlusherCancel
        /\ \A g \in Gens : g <= closing.installed =>
             /\ prober[g] = "running" =>
                    \/ g = proberCancel /\ closing.pc = "watcher"
                    \/ g = watcher.old /\ watcher.pc = "oldprobers"
             /\ flusher[g] = "running" =>
                    \/ g = logFlusherCancel /\ closing.pc \in {"watcher", "probers"}
                    \/ g = watcher.old /\ watcher.pc = "oldflusher"

\* The nil pointer's generation has no goroutines.
ZeroInv == prober[0] = "none" /\ flusher[0] = "none"

ReloadInv == TypeOK /\ StageInv /\ RunningInv /\ ClosingInv /\ ZeroInv

-----------------------------------------------------------------------------
\* main's own steps change nothing in the gateway.
LEMMA MainIsQuiet ==
    ASSUME MainStep
    PROVE  /\ UNCHANGED <<file, watcher, gen, conf, mux, hosts, plugins, proberCancel,
                          logFlusherCancel, prober, flusher, buffer, req, closing, alive>>
           /\ server' \in {"draining", "exited"}
  BY DEF MainStep, Shutdown, ShutdownTimesOut, ServeFails, MainReturns, pointers

\* Cancelling a generation leaves every other one as it was.
LEMMA CancelType ==
    ASSUME NEW f \in [Gens -> GoroutineStates], NEW h \in Gens
    PROVE  /\ Cancel(f, h) \in [Gens -> GoroutineStates]
           /\ \A g \in Gens : Cancel(f, h)[g] = "running" <=> f[g] = "running" /\ (g # h \/ h = 0)
  BY DEF Cancel, GoroutineStates

\* What TypeOK says of generations.
LEMMA GenTypes ==
    ASSUME TypeOK
    PROVE  /\ Gens \subseteq Nat /\ 0 \in Gens /\ gen \in Gens /\ mux \in Gens
           /\ proberCancel \in Gens /\ logFlusherCancel \in Gens
           /\ prober \in [Gens -> GoroutineStates] /\ flusher \in [Gens -> GoroutineStates]
           /\ conf \in [Gens -> [ver : Nat, kind : AllKinds]] /\ file.ver \in Nat
           /\ \A g \in Gens : conf[g].ver \in Nat
<1>1. Gens \subseteq Nat /\ 0 \in Gens
  BY GatewayAssumption DEF Gens
<1>2. /\ gen \in Gens /\ mux \in Gens /\ proberCancel \in Gens /\ logFlusherCancel \in Gens
      /\ prober \in [Gens -> GoroutineStates] /\ flusher \in [Gens -> GoroutineStates]
  BY DEF TypeOK
<1>3. conf \in [Gens -> [ver : Nat, kind : AllKinds]] /\ file \in [ver : Nat, stamp : Nat, kind : AllKinds]
  BY DEF TypeOK
<1>4. \A g \in Gens : conf[g].ver \in Nat
  BY <1>3
<1> QED BY <1>1, <1>2, <1>3, <1>4

LEMMA ReloadInit == Init => ReloadInv
<1> SUFFICES ASSUME Init PROVE ReloadInv
  OBVIOUS
<1>1. TypeOK
  BY GatewayAssumption DEF Init, TypeOK, Gens, WatcherPcs, ClosePcs, GoroutineStates, AllKinds
<1>2. StageInv
  BY DEF Init, StageInv, BeforeHosts, BeforeProbers, BeforePlugins, BeforeFlusher, InstallPcs
<1>3. RunningInv
  BY DEF Init, RunningInv
<1>4. ClosingInv
  BY DEF Init, ClosingInv
<1>5. ZeroInv
  BY GatewayAssumption DEF Init, ZeroInv, Gens
<1> QED BY <1>1, <1>2, <1>3, <1>4, <1>5 DEF ReloadInv

\* Every step of the watcher's goroutine keeps the types.
LEMMA TypeWatcher == ASSUME TypeOK, StageInv, WatcherStep PROVE TypeOK'
<1> USE DEF TypeOK, pointers
<1>0. MaxGens \in Nat /\ gen \in 0..MaxGens
  BY GatewayAssumption DEF Gens
<1>1. CASE LoadAndBuild
  <2>0. /\ gen < MaxGens
        /\ UNCHANGED <<file, mux, hosts, plugins, proberCancel, logFlusherCancel>>
        /\ UNCHANGED <<prober, flusher, buffer, req, closing, server>>
    BY <1>1, Zenon DEF LoadAndBuild
  <2>1. gen + 1 \in Gens
    BY <1>0, <2>0 DEF Gens
  <2>2. gen' \in Gens /\ conf' \in [Gens -> [ver : Nat, kind : AllKinds]]
    <3>1. \/ gen' = gen + 1 /\ conf' = [conf EXCEPT ![gen + 1] = [ver |-> file.ver, kind |-> file.kind]]
          \/ UNCHANGED <<gen, conf>>
      BY <1>1 DEF LoadAndBuild
    <3>2. [ver |-> file.ver, kind |-> file.kind] \in [ver : Nat, kind : AllKinds]
      OBVIOUS
    <3> QED BY <2>1, <3>1, <3>2
  <2>3. watcher' \in [pc : WatcherPcs, starting : BOOLEAN, seen : Nat, last : Nat, old : Gens]
    BY <1>1 DEF LoadAndBuild, WatcherPcs, InstallPcs
  <2>4. alive' \in BOOLEAN
    BY <1>1 DEF LoadAndBuild
  <2> QED BY <2>0, <2>2, <2>3, <2>4
<1>2. CASE Poll
  BY <1>2 DEF Poll, WatcherPcs
<1>3. CASE StoreMux
  BY <1>3 DEF StoreMux, WatcherPcs, InstallPcs
<1>4. CASE StoreHosts
  BY <1>4 DEF StoreHosts, WatcherPcs, InstallPcs
<1>5. CASE SpawnProbers
  BY <1>5 DEF SpawnProbers, WatcherPcs, InstallPcs, GoroutineStates
<1>6. CASE SwapProbers
  BY <1>6 DEF SwapProbers, WatcherPcs, InstallPcs
<1>7. CASE StorePlugins
  BY <1>7 DEF StorePlugins, WatcherPcs, InstallPcs
<1>8. CASE SpawnFlusher \/ SwapFlusher
  BY <1>8 DEF SpawnFlusher, SwapFlusher, WatcherPcs, InstallPcs, GoroutineStates
<1>00. 0 \in Gens /\ watcher.old \in Gens
  BY GatewayAssumption DEF Gens
<1>12. CASE CancelOldProbers
  <2>1. prober' \in [Gens -> GoroutineStates]
    BY <1>00, <1>12, CancelType DEF CancelOldProbers
  <2>2. watcher' \in [pc : WatcherPcs, starting : BOOLEAN, seen : Nat, last : Nat, old : Gens]
    BY <1>00, <1>12 DEF CancelOldProbers, WatcherPcs, InstallPcs
  <2> QED BY <1>12, <2>1, <2>2 DEF CancelOldProbers
<1>13. CASE CancelOldFlusher
  <2>1. flusher' \in [Gens -> GoroutineStates]
    BY <1>00, <1>13, CancelType DEF CancelOldFlusher
  <2>2. watcher' \in [pc : WatcherPcs, starting : BOOLEAN, seen : Nat, last : Nat, old : Gens]
    BY <1>00, <1>13 DEF CancelOldFlusher, WatcherPcs
  <2> QED BY <1>13, <2>1, <2>2 DEF CancelOldFlusher
<1>9. CASE NewWatcher
  <2>1. watcher' \in [pc : WatcherPcs, starting : BOOLEAN, seen : Nat, last : Nat, old : Gens]
    BY <1>00, <1>9 DEF NewWatcher, WatcherPcs
  <2> QED BY <1>9, <2>1 DEF NewWatcher
<1>10. CASE Remember
  BY <1>10 DEF Remember, WatcherPcs
<1>11. CASE WatcherStops
  BY <1>11 DEF WatcherStops, WatcherPcs
<1> QED BY <1>1, <1>2, <1>3, <1>4, <1>5, <1>6, <1>7, <1>8, <1>9, <1>10, <1>11, <1>12, <1>13
        DEF WatcherStep

\* A line more never overfills a buffer: a full one is written out first.
LEMMA BufferNeverOverfull ==
    \A b \in 0..BufferLines : (IF b = BufferLines THEN 1 ELSE b + 1) \in 0..BufferLines
  BY GatewayAssumption

\* So does every other step.
LEMMA TypeOthers ==
    ASSUME TypeOK, \/ CloseStep
                   \/ MainStep
                   \/ \E g \in Gens : GoroutineStep(g)
                   \/ \E r \in Requests : Route(r) \/ Log(r)
                   \/ \E k \in Kinds : Edit(k)
    PROVE  TypeOK'
<1> USE DEF TypeOK, pointers
<1>1. CASE CloseStep
  <2>1. CASE CloseWatcher
    BY <2>1 DEF CloseWatcher, ClosePcs
  <2>2. CASE CloseProbers
    BY <2>2, CancelType DEF CloseProbers, ClosePcs
  <2>3. CASE CloseFlusher
    BY <2>3, CancelType DEF CloseFlusher, ClosePcs
  <2>4. CASE CloseFlush
    <3>1. 0 \in 0..BufferLines
      BY GatewayAssumption
    <3> QED BY <2>4, <3>1 DEF CloseFlush, ClosePcs
  <2>5. CASE CloseTracing
    BY <2>5 DEF CloseTracing, ClosePcs
  <2> QED BY <1>1, <2>1, <2>2, <2>3, <2>4, <2>5 DEF CloseStep
<1>2. ASSUME NEW g \in Gens, GoroutineStep(g) PROVE TypeOK'
  <2>1. CASE ProberPanics(g)
    BY <2>1 DEF ProberPanics
  <2>2. CASE ProberStops(g)
    BY <2>2 DEF ProberStops, GoroutineStates
  <2>3. CASE FlushTick(g)
    <3>1. 0 \in 0..BufferLines
      BY GatewayAssumption
    <3> QED BY <2>3, <3>1 DEF FlushTick
  <2>4. CASE FlusherStops(g)
    BY <2>4 DEF FlusherStops, GoroutineStates
  <2> QED BY <1>2, <2>1, <2>2, <2>3, <2>4 DEF GoroutineStep
<1>3. ASSUME NEW r \in Requests, Route(r) PROVE TypeOK'
  BY <1>3 DEF Route
<1>4. ASSUME NEW r \in Requests, Log(r) PROVE TypeOK'
  <2> DEFINE lines == IF buffer[req[r]] = BufferLines THEN 1 ELSE buffer[req[r]] + 1
  <2>0. buffer[req[r]] \in 0..BufferLines
    OBVIOUS
  <2>1. lines \in 0..BufferLines /\ 0 \in Gens
    <3>1. lines \in 0..BufferLines
      BY <2>0, BufferNeverOverfull
    <3>2. 0 \in Gens
      BY GatewayAssumption DEF Gens
    <3> QED BY <3>1, <3>2
  <2> HIDE DEF lines
  <2>2. buffer' = [buffer EXCEPT ![req[r]] = lines]
    BY <1>4 DEF Log, lines
  <2> QED BY <1>4, <2>1, <2>2 DEF Log
<1>5. ASSUME NEW k \in Kinds, Edit(k) PROVE TypeOK'
  BY <1>5, GatewayAssumption DEF Edit
<1>6. CASE MainStep
  BY <1>6, MainIsQuiet
<1> QED BY <1>1, <1>2, <1>3, <1>4, <1>5, <1>6

LEMMA TypeNext == TypeOK /\ StageInv /\ [Next]_vars => TypeOK'
<1>1. TypeOK /\ UNCHANGED vars => TypeOK'
  BY DEF TypeOK, vars, pointers
<1> QED BY <1>1, TypeWatcher, TypeOthers DEF Next

\* Only the watcher's goroutine builds generations and moves pointers.
LEMMA StageNext == TypeOK /\ StageInv /\ [Next]_vars => StageInv'
<1> SUFFICES ASSUME TypeOK, StageInv, [Next]_vars PROVE StageInv'
  OBVIOUS
<1> USE DEF StageInv, BeforeHosts, BeforeProbers, BeforePlugins, BeforeFlusher, InstallPcs, pointers
<1>0. gen \in Nat /\ watcher.pc \in WatcherPcs
  BY DEF TypeOK, Gens
<1>1. CASE LoadAndBuild
  <2>1. UNCHANGED pointers
    BY <1>1 DEF LoadAndBuild
  <2>2. CASE gen' = gen + 1 /\ watcher' = [watcher EXCEPT !.pc = "mux"]
    <3>1. watcher'.pc = "mux"
      BY <2>2 DEF TypeOK
    <3>2. watcher.pc \in {"boot", "load"}
      BY <1>1 DEF LoadAndBuild
    <3> QED BY <1>0, <2>1, <2>2, <3>1, <3>2
  <2>3. CASE gen' = gen /\ watcher' = [watcher EXCEPT !.pc = IF @ = "boot" THEN "exited" ELSE "idle"]
    <3>1. watcher'.pc = IF watcher.pc = "boot" THEN "exited" ELSE "idle"
      BY <2>3 DEF TypeOK
    <3>2. watcher.pc \in {"boot", "load"}
      BY <1>1 DEF LoadAndBuild
    <3> QED BY <1>0, <2>1, <2>3, <3>1, <3>2
  <2>4. CASE UNCHANGED <<gen, watcher>>
    BY <2>1, <2>4
  <2> QED BY <1>1, <2>2, <2>3, <2>4 DEF LoadAndBuild
<1>2. CASE Poll
  BY <1>2 DEF Poll, TypeOK
<1>3. CASE StoreMux
  BY <1>0, <1>3 DEF StoreMux, TypeOK
<1>4. CASE StoreHosts
  BY <1>0, <1>4 DEF StoreHosts, TypeOK
<1>5. CASE SpawnProbers
  BY <1>0, <1>5 DEF SpawnProbers, TypeOK
<1>6. CASE SwapProbers
  BY <1>0, <1>6 DEF SwapProbers, TypeOK
<1>7. CASE StorePlugins
  BY <1>0, <1>7 DEF StorePlugins, TypeOK
<1>8. CASE SpawnFlusher \/ SwapFlusher
  BY <1>0, <1>8 DEF SpawnFlusher, SwapFlusher, TypeOK
<1>17. CASE CancelOldProbers \/ CancelOldFlusher
  <2>1. \/ watcher.pc = "oldprobers" /\ watcher'.pc = "plugins"
        \/ watcher.pc = "oldflusher" /\ watcher'.pc \in {"stat0", "remember"}
    <3>1. CASE CancelOldProbers
      BY <3>1 DEF CancelOldProbers, TypeOK
    <3>2. CASE CancelOldFlusher
      BY <3>2 DEF CancelOldFlusher, TypeOK
    <3> QED BY <1>17, <3>1, <3>2
  <2>2. UNCHANGED <<gen, pointers>>
    BY <1>17 DEF CancelOldProbers, CancelOldFlusher
  <2> QED BY <2>1, <2>2
<1>9. CASE NewWatcher \/ Remember \/ WatcherStops
  <2>1. watcher.pc \in {"stat0", "remember", "idle"} /\ watcher'.pc \in {"idle", "stopped"}
    <3>1. CASE NewWatcher
      BY <3>1 DEF NewWatcher
    <3>2. CASE Remember
      BY <3>2 DEF Remember, TypeOK
    <3>3. CASE WatcherStops
      BY <3>3 DEF WatcherStops, TypeOK
    <3> QED BY <1>9, <3>1, <3>2, <3>3
  <2>2. UNCHANGED <<gen, pointers>>
    BY <1>9 DEF NewWatcher, Remember, WatcherStops
  <2> QED BY <2>1, <2>2
<1>10. CASE UNCHANGED <<watcher, gen, pointers>>
  BY <1>10
<1>11. CASE CloseStep
  BY <1>10, <1>11 DEF CloseStep, CloseWatcher, CloseProbers, CloseFlusher, CloseFlush, CloseTracing
<1>12. ASSUME NEW g \in Gens, GoroutineStep(g) PROVE StageInv'
  BY <1>10, <1>12 DEF GoroutineStep, ProberPanics, ProberStops, FlushTick, FlusherStops
<1>13. ASSUME NEW r \in Requests, Route(r) \/ Log(r) PROVE StageInv'
  BY <1>10, <1>13 DEF Route, Log
<1>14. ASSUME NEW k \in Kinds, Edit(k) PROVE StageInv'
  BY <1>10, <1>14 DEF Edit
<1>15. CASE UNCHANGED vars
  BY <1>10, <1>15 DEF vars
<1>16. CASE MainStep
  BY <1>10, <1>16, MainIsQuiet
<1> QED BY <1>1, <1>2, <1>3, <1>4, <1>5, <1>6, <1>7, <1>8, <1>9, <1>11, <1>12, <1>13, <1>14, <1>15, <1>16,
           <1>17 DEF Next, WatcherStep

\* The steps that leave alone everything RunningInv and ClosingInv speak of.
LEMMA QuietSteps ==
    ASSUME RunningInv, ClosingInv,
           UNCHANGED <<watcher, gen, pointers, prober, flusher, closing>>
    PROVE  RunningInv' /\ ClosingInv'
  BY DEF RunningInv, ClosingInv, pointers

\* The watcher's steps that neither start nor cancel goroutines, and are not
\* between a start and a cancellation.
LEMMA RestingSteps ==
    ASSUME TypeOK,
           \/ Poll \/ StoreMux \/ StoreHosts \/ StorePlugins \/ NewWatcher \/ Remember
           \/ WatcherStops \/ LoadAndBuild
    PROVE  {watcher.pc, watcher'.pc} \cap {"probers", "oldprobers", "flusher", "oldflusher"} = {}
<1>0. watcher \in [pc : WatcherPcs, starting : BOOLEAN, seen : Nat, last : Nat, old : Gens]
  BY DEF TypeOK
<1>1. CASE Poll \/ Remember \/ WatcherStops
  BY <1>0, <1>1 DEF Poll, Remember, WatcherStops
<1>2. CASE StoreMux \/ StoreHosts \/ StorePlugins
  BY <1>0, <1>2 DEF StoreMux, StoreHosts, StorePlugins
<1>3. CASE NewWatcher
  BY <1>3 DEF NewWatcher
<1>4. CASE LoadAndBuild
  BY <1>0, <1>4 DEF LoadAndBuild
<1> QED BY <1>1, <1>2, <1>3, <1>4

LEMMA RunningNext == ReloadInv /\ [Next]_vars => RunningInv'
<1> SUFFICES ASSUME ReloadInv, [Next]_vars, closing'.pc = "open" PROVE RunningInv'
  BY DEF RunningInv
<1>0. /\ gen \in Nat /\ gen \in Gens /\ proberCancel \in Gens /\ logFlusherCancel \in Gens
      /\ prober \in [Gens -> GoroutineStates] /\ flusher \in [Gens -> GoroutineStates]
      /\ closing \in [pc : ClosePcs, installed : Gens]
      /\ watcher \in [pc : WatcherPcs, starting : BOOLEAN, seen : Nat, last : Nat, old : Gens]
      /\ watcher.old \in Gens /\ Gens \subseteq Nat
  BY DEF ReloadInv, TypeOK, Gens
<1>1. closing.pc = "open" /\ closing' = closing
  BY <1>0 DEF Next, WatcherStep, LoadAndBuild, Poll, StoreMux, StoreHosts, SpawnProbers, SwapProbers,
         CancelOldProbers, StorePlugins, SpawnFlusher, SwapFlusher, CancelOldFlusher, NewWatcher,
         Remember, WatcherStops, CloseStep, CloseWatcher,
         CloseProbers, CloseFlusher, CloseFlush, CloseTracing, GoroutineStep, ProberPanics,
         ProberStops, FlushTick, FlusherStops, Route, Log, Edit, vars, MainStep, Shutdown,
         ShutdownTimesOut, ServeFails, MainReturns
<1>2. /\ \A g \in Gens : prober[g] = "running" <=>
              \/ g = proberCancel /\ g > 0
              \/ g = gen /\ watcher.pc = "probers"
              \/ g = watcher.old /\ g > 0 /\ watcher.pc = "oldprobers"
      /\ \A g \in Gens : flusher[g] = "running" <=>
              \/ g = logFlusherCancel /\ g > 0
              \/ g = gen /\ watcher.pc = "flusher"
              \/ g = watcher.old /\ g > 0 /\ watcher.pc = "oldflusher"
  BY <1>1 DEF ReloadInv, RunningInv
<1>3. StageInv
  BY DEF ReloadInv
<1>4. CASE \/ Poll \/ StoreMux \/ StoreHosts \/ StorePlugins \/ NewWatcher \/ Remember
           \/ WatcherStops \/ LoadAndBuild
  <2>1. UNCHANGED <<prober, flusher, proberCancel, logFlusherCancel>>
    BY <1>4 DEF Poll, StoreMux, StoreHosts, StorePlugins, NewWatcher, Remember, WatcherStops,
                LoadAndBuild, pointers
  <2>2. {watcher.pc, watcher'.pc} \cap {"probers", "oldprobers", "flusher", "oldflusher"} = {}
    BY <1>0, <1>4, RestingSteps DEF ReloadInv
  <2> QED BY <1>2, <2>1, <2>2 DEF RunningInv
<1>5. CASE SpawnProbers
  <2>1. /\ watcher.pc = "spawn" /\ watcher'.pc = "probers"
        /\ prober' = [prober EXCEPT ![gen] = "running"]
        /\ UNCHANGED <<gen, proberCancel, logFlusherCancel, flusher>>
    BY <1>0, <1>5 DEF SpawnProbers, pointers
  <2> QED BY <1>0, <1>2, <2>1 DEF RunningInv
<1>6. CASE SwapProbers
  <2>1. /\ watcher.pc = "probers" /\ watcher'.pc = "oldprobers" /\ watcher'.old = proberCancel
        /\ proberCancel' = gen
        /\ UNCHANGED <<gen, logFlusherCancel, prober, flusher>>
    BY <1>0, <1>6 DEF SwapProbers
  <2>2. gen > 0
    BY <1>3, <2>1 DEF StageInv
  <2> QED BY <1>0, <1>2, <2>1, <2>2 DEF RunningInv
<1>7. CASE CancelOldProbers
  <2>1. /\ watcher.pc = "oldprobers" /\ watcher'.pc = "plugins"
        /\ prober' = Cancel(prober, watcher.old)
        /\ UNCHANGED <<gen, proberCancel, logFlusherCancel, flusher>>
    BY <1>0, <1>7 DEF CancelOldProbers, pointers
  <2>2. proberCancel = gen /\ watcher.old = gen - 1
    BY <1>3, <2>1 DEF StageInv, BeforeProbers
  <2>3. \A g \in Gens : prober'[g] = "running" <=>
           prober[g] = "running" /\ (g # watcher.old \/ watcher.old = 0)
    <3>1. \A h, g \in Gens : Cancel(prober, h)[g] = "running" <=>
             prober[g] = "running" /\ (g # h \/ h = 0)
      BY <1>0, CancelType
    <3> QED BY <1>0, <2>1, <3>1
  <2>4. \A g \in Gens : prober'[g] = "running" <=> (g = gen /\ g > 0)
    BY <1>0, <1>2, <2>1, <2>2, <2>3
  <2> QED BY <1>2, <2>1, <2>2, <2>4 DEF RunningInv
<1>14. CASE SpawnFlusher
  <2>1. /\ watcher.pc = "spawnflusher" /\ watcher'.pc = "flusher"
        /\ flusher' = [flusher EXCEPT ![gen] = "running"]
        /\ UNCHANGED <<gen, proberCancel, logFlusherCancel, prober>>
    BY <1>0, <1>14 DEF SpawnFlusher, pointers
  <2> QED BY <1>0, <1>2, <2>1 DEF RunningInv
<1>15. CASE SwapFlusher
  <2>1. /\ watcher.pc = "flusher" /\ watcher'.pc = "oldflusher" /\ watcher'.old = logFlusherCancel
        /\ logFlusherCancel' = gen
        /\ UNCHANGED <<gen, proberCancel, prober, flusher>>
    BY <1>0, <1>15 DEF SwapFlusher
  <2>2. gen > 0
    BY <1>3, <2>1 DEF StageInv
  <2> QED BY <1>0, <1>2, <2>1, <2>2 DEF RunningInv
<1>16. CASE CancelOldFlusher
  <2>1. /\ watcher.pc = "oldflusher" /\ watcher'.pc \in {"stat0", "remember"}
        /\ flusher' = Cancel(flusher, watcher.old)
        /\ UNCHANGED <<gen, proberCancel, logFlusherCancel, prober>>
    BY <1>0, <1>16 DEF CancelOldFlusher, pointers
  <2>2. logFlusherCancel = gen /\ watcher.old = gen - 1
    BY <1>3, <2>1 DEF StageInv, BeforeFlusher
  <2>3. \A g \in Gens : flusher'[g] = "running" <=>
           flusher[g] = "running" /\ (g # watcher.old \/ watcher.old = 0)
    <3>1. \A h, g \in Gens : Cancel(flusher, h)[g] = "running" <=>
             flusher[g] = "running" /\ (g # h \/ h = 0)
      BY <1>0, CancelType
    <3> QED BY <1>0, <2>1, <3>1
  <2>4. \A g \in Gens : flusher'[g] = "running" <=> (g = gen /\ g > 0)
    BY <1>0, <1>2, <2>1, <2>2, <2>3
  <2> QED BY <1>2, <2>1, <2>2, <2>4 DEF RunningInv
<1>8. CASE CloseStep
  BY <1>0, <1>1, <1>8 DEF CloseStep, CloseWatcher, CloseProbers, CloseFlusher, CloseFlush, CloseTracing
<1>9. ASSUME NEW h \in Gens, GoroutineStep(h) PROVE RunningInv'
  <2>1. UNCHANGED <<gen, watcher, proberCancel, logFlusherCancel>>
    BY <1>9 DEF GoroutineStep, ProberPanics, ProberStops, FlushTick, FlusherStops, pointers
  <2>2. \A g \in Gens : /\ prober'[g] = "running" <=> prober[g] = "running"
                        /\ flusher'[g] = "running" <=> flusher[g] = "running"
    BY <1>0, <1>9 DEF GoroutineStep, ProberPanics, ProberStops, FlushTick, FlusherStops
  <2> QED BY <1>2, <2>1, <2>2 DEF RunningInv
<1>10. ASSUME NEW r \in Requests, Route(r) \/ Log(r) PROVE RunningInv'
  BY <1>10, QuietSteps DEF Route, Log, ReloadInv
<1>11. ASSUME NEW k \in Kinds, Edit(k) PROVE RunningInv'
  BY <1>11, QuietSteps DEF Edit, ReloadInv
<1>12. CASE UNCHANGED vars
  BY <1>12, QuietSteps DEF vars, ReloadInv
<1>13. CASE MainStep
  BY <1>13, QuietSteps, MainIsQuiet DEF pointers, ReloadInv
<1> QED BY <1>4, <1>5, <1>6, <1>7, <1>8, <1>9, <1>10, <1>11, <1>12, <1>13, <1>14, <1>15, <1>16
        DEF Next, WatcherStep

LEMMA ZeroNeverRuns ==
    ASSUME ReloadInv
    PROVE  prober[0] # "running" /\ flusher[0] # "running"
  BY DEF ReloadInv, ZeroInv

\* Goroutines are started for the generation just built, which is not 0.
LEMMA ZeroNext == ReloadInv /\ [Next]_vars => ZeroInv'
<1> SUFFICES ASSUME ReloadInv, [Next]_vars PROVE ZeroInv'
  OBVIOUS
<1>0. /\ gen \in Gens /\ proberCancel \in Gens /\ logFlusherCancel \in Gens /\ 0 \in Gens
      /\ watcher.old \in Gens
      /\ prober \in [Gens -> GoroutineStates] /\ flusher \in [Gens -> GoroutineStates]
      /\ prober[0] = "none" /\ flusher[0] = "none"
  <2>1. watcher.old \in Gens
    BY DEF ReloadInv, TypeOK
  <2> QED BY <2>1, GenTypes DEF ReloadInv, ZeroInv
<1>1. \A f \in [Gens -> GoroutineStates], h \in Gens :
         f[0] = "none" => Cancel(f, h) \in [Gens -> GoroutineStates] /\ Cancel(f, h)[0] = "none"
  BY <1>0 DEF Cancel, GoroutineStates
<1>2. watcher.pc \in InstallPcs => gen # 0
  BY DEF ReloadInv, StageInv, InstallPcs
<1>3. CASE SpawnProbers
  BY <1>0, <1>2, <1>3 DEF SpawnProbers, InstallPcs, ZeroInv
<1>4. CASE CancelOldProbers \/ CloseProbers
  BY <1>0, <1>1, <1>4 DEF CancelOldProbers, CloseProbers, ZeroInv
<1>5. CASE SpawnFlusher
  BY <1>0, <1>2, <1>5 DEF SpawnFlusher, InstallPcs, ZeroInv
<1>13. CASE CancelOldFlusher
  BY <1>0, <1>1, <1>13 DEF CancelOldFlusher, ZeroInv
<1>6. CASE CloseFlusher
  BY <1>0, <1>1, <1>6 DEF CloseFlusher, ZeroInv
<1>7. ASSUME NEW g \in Gens, GoroutineStep(g) PROVE ZeroInv'
  BY <1>0, <1>7 DEF GoroutineStep, ProberPanics, ProberStops, FlushTick, FlusherStops, ZeroInv
<1>8. CASE UNCHANGED <<prober, flusher>>
  BY <1>0, <1>8 DEF ZeroInv
<1>9. CASE \/ LoadAndBuild \/ Poll \/ StoreMux \/ StoreHosts \/ StorePlugins \/ NewWatcher \/ Remember
           \/ SwapProbers \/ SwapFlusher \/ WatcherStops \/ CloseWatcher \/ CloseFlush \/ CloseTracing
           \/ UNCHANGED vars
  BY <1>8, <1>9 DEF LoadAndBuild, Poll, StoreMux, StoreHosts, StorePlugins, NewWatcher, Remember,
                    SwapProbers, SwapFlusher, WatcherStops, CloseWatcher, CloseFlush, CloseTracing, vars
<1>10. ASSUME NEW r \in Requests, Route(r) \/ Log(r) PROVE ZeroInv'
  BY <1>8, <1>10 DEF Route, Log
<1>11. ASSUME NEW k \in Kinds, Edit(k) PROVE ZeroInv'
  BY <1>8, <1>11 DEF Edit
<1>12. CASE MainStep
  BY <1>8, <1>12, MainIsQuiet
<1> QED BY <1>3, <1>4, <1>5, <1>6, <1>7, <1>9, <1>10, <1>11, <1>12, <1>13
        DEF Next, WatcherStep, CloseStep

LEMMA ClosingNext == ReloadInv /\ [Next]_vars => ClosingInv'
<1> SUFFICES ASSUME ReloadInv, [Next]_vars PROVE ClosingInv'
  OBVIOUS
<1>0. /\ gen \in Nat /\ gen \in Gens /\ proberCancel \in Gens /\ logFlusherCancel \in Gens
      /\ prober \in [Gens -> GoroutineStates] /\ flusher \in [Gens -> GoroutineStates]
      /\ closing \in [pc : ClosePcs, installed : Gens]
      /\ watcher \in [pc : WatcherPcs, starting : BOOLEAN, seen : Nat, last : Nat, old : Gens]
      /\ watcher.old \in Gens /\ \A g \in Gens : g \in Nat
      /\ closing.installed \in Nat /\ logFlusherCancel \in Nat
  BY DEF ReloadInv, TypeOK, Gens
<1>1. StageInv /\ ClosingInv /\ RunningInv
  BY DEF ReloadInv
<1>2. CASE \/ Poll \/ StoreMux \/ StoreHosts \/ StorePlugins \/ NewWatcher \/ Remember
           \/ WatcherStops \/ LoadAndBuild
  <2>1. UNCHANGED <<prober, flusher, proberCancel, logFlusherCancel, closing>>
    BY <1>2 DEF Poll, StoreMux, StoreHosts, StorePlugins, NewWatcher, Remember, WatcherStops,
                LoadAndBuild, pointers
  <2>2. {watcher.pc, watcher'.pc} \cap {"probers", "oldprobers", "flusher", "oldflusher"} = {}
    BY <1>2, RestingSteps DEF ReloadInv
  <2> QED BY <1>1, <2>1, <2>2 DEF ClosingInv
<1>3. CASE SpawnProbers
  <2>1. /\ watcher.pc = "spawn" /\ watcher'.pc = "probers"
        /\ prober' = [prober EXCEPT ![gen] = "running"]
        /\ UNCHANGED <<gen, proberCancel, logFlusherCancel, flusher, closing>>
    BY <1>0, <1>3 DEF SpawnProbers, pointers
  <2>2. logFlusherCancel = gen - 1
    BY <1>1, <2>1 DEF StageInv, BeforeFlusher, InstallPcs
  <2>3. closing.pc # "open" => gen > closing.installed
    BY <1>0, <1>1, <2>2 DEF ClosingInv
  <2>4. closing.pc # "open" => \A g \in Gens : g <= closing.installed => prober'[g] = prober[g]
    BY <1>0, <2>1, <2>3
  <2> QED BY <1>1, <2>1, <2>4 DEF ClosingInv
<1>4. CASE SwapProbers
  <2>1. /\ watcher.pc = "probers" /\ watcher'.pc = "oldprobers" /\ watcher'.old = proberCancel
        /\ UNCHANGED <<gen, logFlusherCancel, prober, flusher, closing>>
    BY <1>0, <1>4 DEF SwapProbers
  <2> QED BY <1>1, <2>1 DEF ClosingInv
<1>5. CASE CancelOldProbers
  <2>1. /\ watcher.pc = "oldprobers" /\ watcher'.pc = "plugins"
        /\ prober' = Cancel(prober, watcher.old)
        /\ UNCHANGED <<gen, proberCancel, logFlusherCancel, flusher, closing>>
    BY <1>0, <1>5 DEF CancelOldProbers, pointers
  <2>2. \A g \in Gens : prober'[g] = "running" => prober[g] = "running" /\ g # watcher.old
    <3>1. \A h, g \in Gens : Cancel(prober, h)[g] = "running" => prober[g] = "running" /\ g # h
      BY <1>0, CancelType, ZeroNeverRuns
    <3> QED BY <1>0, <2>1, <3>1
  <2> QED BY <1>1, <2>1, <2>2 DEF ClosingInv
<1>15. CASE SpawnFlusher
  <2>1. /\ watcher.pc = "spawnflusher" /\ watcher'.pc = "flusher"
        /\ flusher' = [flusher EXCEPT ![gen] = "running"]
        /\ UNCHANGED <<gen, proberCancel, logFlusherCancel, prober, closing>>
    BY <1>0, <1>15 DEF SpawnFlusher, pointers
  <2>2. logFlusherCancel = gen - 1
    BY <1>1, <2>1 DEF StageInv, BeforeFlusher, InstallPcs
  <2>3. closing.pc # "open" => gen > closing.installed
    BY <1>0, <1>1, <2>2 DEF ClosingInv
  <2>4. closing.pc # "open" => \A g \in Gens : g <= closing.installed => flusher'[g] = flusher[g]
    BY <1>0, <2>1, <2>3
  <2> QED BY <1>1, <2>1, <2>4 DEF ClosingInv
<1>16. CASE SwapFlusher
  <2>1. /\ watcher.pc = "flusher" /\ watcher'.pc = "oldflusher" /\ watcher'.old = logFlusherCancel
        /\ logFlusherCancel' = gen
        /\ UNCHANGED <<gen, proberCancel, prober, flusher, closing>>
    BY <1>0, <1>16 DEF SwapFlusher
  <2>2. logFlusherCancel = gen - 1
    BY <1>1, <2>1 DEF StageInv, BeforeFlusher, InstallPcs
  <2>3. closing.pc # "open" => closing.installed <= gen
    BY <1>0, <1>1, <2>2 DEF ClosingInv
  <2> QED BY <1>1, <2>1, <2>3 DEF ClosingInv
<1>17. CASE CancelOldFlusher
  <2>1. /\ watcher.pc = "oldflusher" /\ watcher'.pc \in {"stat0", "remember"}
        /\ flusher' = Cancel(flusher, watcher.old)
        /\ UNCHANGED <<gen, proberCancel, logFlusherCancel, prober, closing>>
    BY <1>0, <1>17 DEF CancelOldFlusher, pointers
  <2>2. \A g \in Gens : flusher'[g] = "running" => flusher[g] = "running" /\ g # watcher.old
    <3>1. \A h, g \in Gens : Cancel(flusher, h)[g] = "running" => flusher[g] = "running" /\ g # h
      BY <1>0, CancelType, ZeroNeverRuns
    <3> QED BY <1>0, <2>1, <3>1
  <2> QED BY <1>1, <2>1, <2>2 DEF ClosingInv
<1>6. CASE CloseWatcher
  <2>1. /\ closing.pc = "open" /\ closing' = [pc |-> "watcher", installed |-> logFlusherCancel]
        /\ UNCHANGED <<watcher, gen, proberCancel, logFlusherCancel, prober, flusher>>
    BY <1>6 DEF CloseWatcher, pointers
  <2>2. \A g \in Gens :
           /\ prober[g] = "running" => \/ g = proberCancel
                                       \/ g = gen /\ watcher.pc = "probers"
                                       \/ g = watcher.old /\ watcher.pc = "oldprobers"
           /\ flusher[g] = "running" => \/ g = logFlusherCancel
                                        \/ g = gen /\ watcher.pc = "flusher"
                                        \/ g = watcher.old /\ watcher.pc = "oldflusher"
    BY <1>1, <2>1 DEF RunningInv
  <2>3. watcher.pc \in {"probers", "flusher"} => logFlusherCancel = gen - 1
    BY <1>1 DEF StageInv, BeforeFlusher, InstallPcs
  <2> QED BY <1>0, <2>1, <2>2, <2>3 DEF ClosingInv
<1>7. CASE CloseProbers
  <2>1. /\ closing.pc = "watcher" /\ closing'.pc = "probers"
        /\ closing'.installed = closing.installed
        /\ prober' = Cancel(prober, proberCancel)
        /\ UNCHANGED <<watcher, proberCancel, logFlusherCancel, flusher>>
    BY <1>0, <1>7 DEF CloseProbers, pointers
  <2>2. \A g \in Gens : prober'[g] = "running" => prober[g] = "running" /\ g # proberCancel
    BY <1>0, <2>1, CancelType, ZeroNeverRuns
  <2> QED BY <1>1, <2>1, <2>2 DEF ClosingInv
<1>8. CASE CloseFlusher
  <2>1. /\ closing.pc = "probers" /\ closing'.pc = "flusher"
        /\ closing'.installed = closing.installed
        /\ flusher' = Cancel(flusher, logFlusherCancel)
        /\ UNCHANGED <<watcher, proberCancel, logFlusherCancel, prober>>
    BY <1>0, <1>8 DEF CloseFlusher, pointers
  <2>2. \A g \in Gens : flusher'[g] = "running" => flusher[g] = "running" /\ g # logFlusherCancel
    BY <1>0, <2>1, CancelType, ZeroNeverRuns
  <2> QED BY <1>1, <2>1, <2>2 DEF ClosingInv
<1>9. CASE CloseFlush \/ CloseTracing
  <2>1. /\ closing.pc \in {"flusher", "flush"} /\ closing'.pc \in {"flush", "closed"}
        /\ closing'.installed = closing.installed
        /\ UNCHANGED <<watcher, proberCancel, logFlusherCancel, prober, flusher>>
    BY <1>0, <1>9 DEF CloseFlush, CloseTracing, pointers
  <2> QED BY <1>1, <2>1 DEF ClosingInv
<1>10. ASSUME NEW h \in Gens, GoroutineStep(h) PROVE ClosingInv'
  <2>1. UNCHANGED <<closing, watcher, proberCancel, logFlusherCancel>>
    BY <1>10 DEF GoroutineStep, ProberPanics, ProberStops, FlushTick, FlusherStops, pointers
  <2>2. \A g \in Gens : /\ prober'[g] = "running" <=> prober[g] = "running"
                        /\ flusher'[g] = "running" <=> flusher[g] = "running"
    BY <1>0, <1>10 DEF GoroutineStep, ProberPanics, ProberStops, FlushTick, FlusherStops
  <2> QED BY <1>1, <2>1, <2>2 DEF ClosingInv
<1>11. ASSUME NEW r \in Requests, Route(r) \/ Log(r) PROVE ClosingInv'
  BY <1>1, <1>11, QuietSteps DEF Route, Log
<1>12. ASSUME NEW k \in Kinds, Edit(k) PROVE ClosingInv'
  BY <1>1, <1>12, QuietSteps DEF Edit
<1>13. CASE UNCHANGED vars
  BY <1>1, <1>13, QuietSteps DEF vars
<1>14. CASE MainStep
  BY <1>1, <1>14, QuietSteps, MainIsQuiet DEF pointers
<1> QED BY <1>2, <1>3, <1>4, <1>5, <1>6, <1>7, <1>8, <1>9, <1>10, <1>11, <1>12, <1>13, <1>14,
           <1>15, <1>16, <1>17
        DEF Next, WatcherStep, CloseStep

LEMMA ReloadNext == ReloadInv /\ [Next]_vars => ReloadInv'
<1>1. ReloadInv /\ [Next]_vars => TypeOK' /\ StageInv'
  BY TypeNext, StageNext DEF ReloadInv
<1> QED BY <1>1, RunningNext, ClosingNext, ZeroNext DEF ReloadInv

-----------------------------------------------------------------------------
(***************************************************************************)
(* Type correctness: every pointer names a generation that was built, and  *)
(* no http_log buffer outgrows its capacity.                               *)
(***************************************************************************)
THEOREM TypeCorrect == Spec => []TypeOK
<1>1. ReloadInv => TypeOK
  BY DEF ReloadInv
<1> QED BY <1>1, ReloadInit, ReloadNext, PTL DEF Spec

(***************************************************************************)
(* Hot reload installs whole generations: whenever the watcher is between  *)
(* reloads and the gateway is open, mux, hosts, plugins and both cancel    *)
(* functions belong to the latest generation, whose goroutines run and     *)
(* whose predecessors' are all cancelled, after any number of reloads.     *)
(***************************************************************************)
THEOREM ReloadsAreWhole == Spec => []CoherentAtRest
<1>1. ReloadInv => CoherentAtRest
  <2> SUFFICES ASSUME ReloadInv, watcher.pc \in {"idle", "load"}, closing.pc = "open"
               PROVE  /\ {mux, hosts, plugins, proberCancel, logFlusherCancel} = {gen}
                      /\ \A g \in Gens : (prober[g] = "running") <=> (g = gen)
                      /\ \A g \in Gens : (flusher[g] = "running") <=> (g = gen)
    BY DEF CoherentAtRest
  <2>1. /\ gen > 0
        /\ mux = gen /\ hosts = gen /\ plugins = gen
        /\ proberCancel = gen /\ logFlusherCancel = gen
    BY DEF ReloadInv, StageInv, BeforeHosts, BeforeProbers, BeforePlugins, BeforeFlusher, InstallPcs
  <2>2. /\ \A g \in Gens : (prober[g] = "running") <=> (g = gen)
        /\ \A g \in Gens : (flusher[g] = "running") <=> (g = gen)
    BY <2>1 DEF ReloadInv, RunningInv
  <2> QED BY <2>1, <2>2
<1> QED BY <1>1, ReloadInit, ReloadNext, PTL DEF Spec

(***************************************************************************)
(* When Close has returned, whatever reload is under way, each goroutine   *)
(* of the generation it found installed and of the earlier ones has been   *)
(* cancelled, but for the one generation that a reload has swapped out and *)
(* has not cancelled yet: a Close between the two cannot reach that.       *)
(***************************************************************************)
THEOREM CloseCancelsInstalled == Spec => []CloseStopsInstalled
<1>1. ReloadInv => CloseStopsInstalled
  BY DEF ReloadInv, ClosingInv, CloseStopsInstalled
<1> QED BY <1>1, ReloadInit, ReloadNext, PTL DEF Spec

-----------------------------------------------------------------------------
\* Close begins when the requests are over and no more come in, so once it has
\* flushed the installed generation's buffer nothing is written to that.
FlushedInv ==
    closing.pc # "open" =>
        /\ server # "up" /\ Drained
        /\ closing.pc \in {"flush", "closed"} /\ plugins = closing.installed => buffer[plugins] = 0

LEMMA FlushedNext ==
    ASSUME ReloadInv, FlushedInv, [Next]_vars
    PROVE  FlushedInv'
<1>0. /\ plugins \in Gens /\ gen \in Nat /\ closing.installed \in Nat
      /\ buffer \in [Gens -> 0..BufferLines]
      /\ closing \in [pc : ClosePcs, installed : Gens]
  BY DEF ReloadInv, TypeOK, Gens
<1> USE DEF FlushedInv, Drained
<1>1. CASE UNCHANGED <<plugins, buffer, req, closing>> /\ (server' = server \/ server' # "up")
  BY <1>1
<1>2. CASE StorePlugins
  <2>1. plugins' = gen /\ watcher.pc = "plugins" /\ UNCHANGED <<buffer, req, closing, server>>
    BY <1>2 DEF StorePlugins
  <2>2. closing.pc # "open" => closing.installed < gen
    BY <1>0, <2>1 DEF ReloadInv, StageInv, ClosingInv, BeforeFlusher, InstallPcs
  <2> QED BY <1>0, <2>1, <2>2
<1>3. CASE WatcherStep /\ ~StorePlugins
  BY <1>1, <1>3 DEF WatcherStep, LoadAndBuild, Poll, StoreMux, StoreHosts, SpawnProbers, SwapProbers,
                    CancelOldProbers, SpawnFlusher, SwapFlusher, CancelOldFlusher, NewWatcher,
                    Remember, WatcherStops, pointers
<1>4. CASE CloseWatcher
  BY <1>4 DEF CloseWatcher
<1>5. CASE CloseProbers \/ CloseFlusher
  BY <1>0, <1>5 DEF CloseProbers, CloseFlusher, pointers
<1>6. CASE CloseFlush
  BY <1>0, <1>6 DEF CloseFlush, pointers
<1>7. CASE CloseTracing
  BY <1>0, <1>7 DEF CloseTracing, pointers
<1>8. ASSUME NEW g \in Gens, GoroutineStep(g) PROVE FlushedInv'
  <2>1. CASE FlushTick(g)
    BY <1>0, <2>1 DEF FlushTick, pointers
  <2> QED BY <1>1, <1>8, <2>1 DEF GoroutineStep, ProberPanics, ProberStops, FlusherStops, pointers
<1>9. ASSUME NEW r \in Requests, Route(r) PROVE FlushedInv'
  BY <1>9 DEF Route, pointers
<1>10. ASSUME NEW r \in Requests, Log(r) PROVE FlushedInv'
  BY <1>10 DEF Log, pointers
<1>11. ASSUME NEW k \in Kinds, Edit(k) PROVE FlushedInv'
  BY <1>1, <1>11 DEF Edit, pointers
<1>12. CASE MainStep
  BY <1>1, <1>12, MainIsQuiet
<1>13. CASE UNCHANGED vars
  BY <1>1, <1>13 DEF vars, pointers
<1> QED BY <1>2, <1>3, <1>4, <1>5, <1>6, <1>7, <1>8, <1>9, <1>10, <1>11, <1>12, <1>13
        DEF Next, CloseStep

(***************************************************************************)
(* Close loses no line of the generation it found installed, unless a      *)
(* reload replaced that while Close ran: main calls Close only when no     *)
(* request is in flight and none can come in.                              *)
(***************************************************************************)
THEOREM CloseFlushesInstalled == Spec => []InstalledLinesFlushed
<1>1. Init => FlushedInv
  BY DEF Init, FlushedInv
<1>2. FlushedInv => InstalledLinesFlushed
  BY DEF FlushedInv, InstalledLinesFlushed
<1> QED BY <1>1, <1>2, ReloadInit, ReloadNext, FlushedNext, PTL DEF Spec

-----------------------------------------------------------------------------
\* Generations are built from what is on disk, so the one being installed is
\* no older than the one being served.
VersionInv ==
    /\ \A g \in Gens : conf[g].ver <= file.ver
    /\ conf[mux].ver <= conf[gen].ver

\* One step keeps VersionInv.
LEMMA VersionNext ==
    ASSUME ReloadInv, VersionInv, [Next]_vars
    PROVE  VersionInv'
<1>0. /\ gen \in Gens /\ mux \in Gens /\ Gens \subseteq Nat
      /\ conf \in [Gens -> [ver : Nat, kind : AllKinds]] /\ file.ver \in Nat
      /\ \A g \in Gens : conf[g].ver \in Nat
  BY GenTypes DEF ReloadInv
<1>1. CASE UNCHANGED <<file, conf, mux, gen>>
  BY <1>0, <1>1 DEF VersionInv
<1>2. CASE StoreMux
  <2>1. mux' = gen /\ UNCHANGED <<file, conf, gen>>
    BY <1>2 DEF StoreMux
  <2> QED BY <1>0, <2>1 DEF VersionInv
<1>3. CASE LoadAndBuild
  <2>1. UNCHANGED <<file, mux>>
    BY <1>3 DEF LoadAndBuild, pointers
  <2>2. CASE gen' = gen + 1 /\ conf' = [conf EXCEPT ![gen + 1] = [ver |-> file.ver, kind |-> file.kind]]
    <3>1. mux # gen + 1 /\ gen + 1 \in Gens
      <4>1. gen < MaxGens /\ MaxGens \in Nat /\ gen \in 0..MaxGens
        BY <1>3, <1>0, GatewayAssumption DEF LoadAndBuild, Gens
      <4>2. mux = gen \/ mux = gen - 1
        BY DEF ReloadInv, StageInv
      <4> QED BY <4>1, <4>2 DEF Gens
    <3>2. conf'[gen + 1].ver = file.ver /\ \A g \in Gens \ {gen + 1} : conf'[g] = conf[g]
      BY <1>0, <2>2, <3>1
    <3> QED BY <1>0, <2>1, <2>2, <3>1, <3>2 DEF VersionInv
  <2>3. CASE UNCHANGED <<gen, conf>>
    BY <1>1, <2>1, <2>3
  <2> QED BY <1>3, <2>2, <2>3 DEF LoadAndBuild
<1>4. ASSUME NEW k \in Kinds, Edit(k) PROVE VersionInv'
  <2>1. file'.ver = file.ver + 1 /\ UNCHANGED <<conf, mux, gen>>
    BY <1>4 DEF Edit, pointers
  <2> QED BY <1>0, <2>1 DEF VersionInv
<1>5. CASE \/ Poll \/ StoreHosts \/ SpawnProbers \/ SwapProbers \/ CancelOldProbers
           \/ StorePlugins \/ SpawnFlusher \/ SwapFlusher \/ CancelOldFlusher
           \/ NewWatcher \/ Remember \/ WatcherStops
  BY <1>1, <1>5 DEF Poll, StoreHosts, SpawnProbers, SwapProbers, CancelOldProbers, StorePlugins,
                    SpawnFlusher, SwapFlusher, CancelOldFlusher, NewWatcher, Remember, WatcherStops,
                    pointers
<1>6. CASE CloseStep
  BY <1>1, <1>6 DEF CloseStep, CloseWatcher, CloseProbers, CloseFlusher, CloseFlush, CloseTracing,
                    pointers
<1>7. ASSUME NEW g \in Gens, GoroutineStep(g) PROVE VersionInv'
  BY <1>1, <1>7 DEF GoroutineStep, ProberPanics, ProberStops, FlushTick, FlusherStops, pointers
<1>8. ASSUME NEW r \in Requests, Route(r) \/ Log(r)
      PROVE  VersionInv'
  BY <1>1, <1>8 DEF Route, Log, pointers
<1>9. CASE UNCHANGED vars
  BY <1>1, <1>9 DEF vars, pointers
<1>10. CASE MainStep
  BY <1>1, <1>10, MainIsQuiet
<1> QED BY <1>2, <1>3, <1>4, <1>5, <1>6, <1>7, <1>8, <1>9, <1>10 DEF Next, WatcherStep

\* Only generations that could be built are there to be served.
ValidInv == \A g \in Gens : conf[g].kind \in {"ok", "badtick"} /\ (g \in 1..gen => conf[g].ver > 0)

LEMMA ValidNext ==
    ASSUME ReloadInv, VersionInv, file.ver > 0, ValidInv, [Next]_vars
    PROVE  ValidInv' /\ file'.ver > 0
<1>0. gen \in Gens /\ Gens \subseteq Nat /\ conf \in [Gens -> [ver : Nat, kind : AllKinds]]
      /\ file.ver \in Nat
  BY DEF ReloadInv, TypeOK, Gens
<1>1. CASE UNCHANGED <<file, conf, gen>>
  BY <1>1 DEF ValidInv
<1>2. CASE LoadAndBuild
  <2>1. CASE /\ gen' = gen + 1 /\ file.kind \in {"ok", "badtick"}
             /\ conf' = [conf EXCEPT ![gen + 1] = [ver |-> file.ver, kind |-> file.kind]]
    BY <1>0, <1>2, <2>1 DEF LoadAndBuild, ValidInv, Gens
  <2> QED BY <1>1, <1>2, <2>1 DEF LoadAndBuild
<1>3. ASSUME NEW k \in Kinds, Edit(k) PROVE ValidInv' /\ file'.ver > 0
  BY <1>0, <1>3 DEF Edit, ValidInv
<1>4. CASE WatcherStep /\ ~LoadAndBuild
  BY <1>1, <1>4 DEF WatcherStep, Poll, StoreMux, StoreHosts, SpawnProbers, SwapProbers,
                    CancelOldProbers, StorePlugins, SpawnFlusher, SwapFlusher, CancelOldFlusher,
                    NewWatcher, Remember, WatcherStops
<1>5. CASE CloseStep
  BY <1>1, <1>5 DEF CloseStep, CloseWatcher, CloseProbers, CloseFlusher, CloseFlush, CloseTracing
<1>6. ASSUME NEW g \in Gens, GoroutineStep(g) PROVE ValidInv' /\ file'.ver > 0
  BY <1>1, <1>6 DEF GoroutineStep, ProberPanics, ProberStops, FlushTick, FlusherStops
<1>7. ASSUME NEW r \in Requests, Route(r) \/ Log(r) PROVE ValidInv' /\ file'.ver > 0
  BY <1>1, <1>7 DEF Route, Log
<1>8. CASE UNCHANGED vars
  BY <1>1, <1>8 DEF vars
<1>9. CASE MainStep
  BY <1>1, <1>9, MainIsQuiet
<1> QED BY <1>2, <1>3, <1>4, <1>5, <1>6, <1>7, <1>8, <1>9 DEF Next

\* What one step does to what a request sees.
LEMMA ReloadIsLoad ==
    ASSUME ReloadInv, VersionInv, ValidInv, VersionInv', ValidInv', [Next]_vars
    PROVE  [Reload!Publish \/ Reload!Load]_Reload!hotVars
<1>0. /\ mux \in Gens /\ Gens \subseteq Nat /\ gen \in Gens
      /\ conf \in [Gens -> [ver : Nat, kind : AllKinds]] /\ file.ver \in Nat
      /\ \A g \in Gens : conf[g].ver \in Nat
  BY GenTypes DEF ReloadInv
<1> USE DEF Reload!hotVars
<1>1. CASE UNCHANGED <<file, conf, mux>>
  BY <1>1
<1>2. CASE StoreMux
  <2>1. mux' = gen /\ UNCHANGED <<file, conf, gen>> /\ gen > 0
    BY <1>0, <1>2 DEF StoreMux, ReloadInv, StageInv
  <2>2. conf[gen].kind \in {"ok", "badtick"} /\ conf[mux].kind \in {"ok", "badtick"}
        /\ conf[gen].ver > 0 /\ conf[gen].ver <= file.ver /\ conf[mux].ver <= conf[gen].ver
    BY <1>0, <2>1 DEF ValidInv, VersionInv
  <2> QED BY <1>0, <2>1, <2>2 DEF Reload!Load
<1>3. CASE LoadAndBuild
  <2>1. UNCHANGED <<file, mux>> /\ mux # gen + 1
    BY <1>0, <1>3 DEF LoadAndBuild, pointers, ReloadInv, StageInv
  <2>2. conf'[mux] = conf[mux]
    BY <1>0, <1>3, <2>1 DEF LoadAndBuild
  <2> QED BY <2>1, <2>2
<1>4. ASSUME NEW k \in Kinds, Edit(k) PROVE [Reload!Publish \/ Reload!Load]_Reload!hotVars
  BY <1>0, <1>4 DEF Edit, pointers, Reload!Publish
<1>5. CASE \/ Poll \/ StoreHosts \/ SpawnProbers \/ SwapProbers \/ CancelOldProbers
           \/ StorePlugins \/ SpawnFlusher \/ SwapFlusher \/ CancelOldFlusher
           \/ NewWatcher \/ Remember \/ WatcherStops
  BY <1>1, <1>5 DEF Poll, StoreHosts, SpawnProbers, SwapProbers, CancelOldProbers, StorePlugins,
                    SpawnFlusher, SwapFlusher, CancelOldFlusher, NewWatcher, Remember, WatcherStops,
                    pointers
<1>6. CASE CloseStep
  BY <1>1, <1>6 DEF CloseStep, CloseWatcher, CloseProbers, CloseFlusher, CloseFlush, CloseTracing,
                    pointers
<1>7. ASSUME NEW g \in Gens, GoroutineStep(g) PROVE [Reload!Publish \/ Reload!Load]_Reload!hotVars
  BY <1>1, <1>7 DEF GoroutineStep, ProberPanics, ProberStops, FlushTick, FlusherStops, pointers
<1>8. ASSUME NEW r \in Requests, Route(r) \/ Log(r)
      PROVE  [Reload!Publish \/ Reload!Load]_Reload!hotVars
  BY <1>1, <1>8 DEF Route, Log, pointers
<1>9. CASE UNCHANGED vars
  BY <1>1, <1>9 DEF vars, pointers
<1>10. CASE MainStep
  BY <1>1, <1>10, MainIsQuiet
<1> QED BY <1>2, <1>3, <1>4, <1>5, <1>6, <1>7, <1>8, <1>9, <1>10 DEF Next, WatcherStep

(***************************************************************************)
(* A request cannot tell the gateway's reloads from HotReload: it is       *)
(* routed by a valid config that was on disk, never an older one, although *)
(* a poll stats, reads and installs the file in separate steps while it    *)
(* changes.                                                                *)
(***************************************************************************)
THEOREM GatewayImplementsHotReload == Spec => ImplementsHotReload
<1> DEFINE Inv == ReloadInv /\ VersionInv /\ file.ver > 0 /\ ValidInv
<1>1. Init => Inv /\ Reload!Init
  <2> SUFFICES ASSUME Init PROVE Inv /\ Reload!Init
    OBVIOUS
  <2>1. VersionInv /\ file.ver = 1 /\ ValidInv
    BY GatewayAssumption DEF Init, VersionInv, ValidInv, Gens
  <2>2. Reload!Init
    BY GatewayAssumption DEF Init, Gens, Reload!Init
  <2> QED BY <2>1, <2>2, ReloadInit
<1>2. Inv /\ [Next]_vars => Inv'
  BY ReloadNext, VersionNext, ValidNext
<1>3. Inv /\ Inv' /\ [Next]_vars => [Reload!Publish \/ Reload!Load]_Reload!hotVars
  BY ReloadIsLoad
<1> QED BY <1>1, <1>2, <1>3, PTL DEF Spec, ImplementsHotReload, Reload!Spec
=============================================================================
