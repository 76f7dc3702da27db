-------------------------- MODULE RoundRobinProxy --------------------------
(***************************************************************************)
(* One service's proxy: roundRobinProxy.ServeHTTP (loadbalancer.go) with   *)
(* the transport that retries (retry.go), the reverse proxy's callbacks    *)
(* that record each outcome (loadbalancer.go, proxy.go) and the active     *)
(* prober (health.go).  Every request runs in its own goroutine and takes  *)
(* one shared read or write per step; so does the prober.                  *)
(*                                                                         *)
(* The origins are the environment: one that is "up" answers requests and  *)
(* probes, a "sick" one answers requests but its health path is not 2xx,   *)
(* and every exchange with one that is "down" fails.                       *)
(***************************************************************************)
EXTENDS OriginState

CONSTANTS
    N,             \* number of origins of the service
    Good,          \* the origins that never leave "up"
    Requests,      \* slots for requests in flight
    MaxAttempts,   \* RetryOptions.MaxAttempts
    RetryUnsafe,   \* RetryOptions.RetryUnsafeMethods
    HealthCheck,   \* whether the service configures a prober
    ClientFaults,  \* whether clients may cancel or send an unreadable body
    MaxRequests,   \* bound: requests issued, below uint64's 2^64
    MaxTime        \* bound: last instant of the clock

Origins == 0..(N - 1)

ASSUME ProxyAssumption ==
    /\ N \in Nat \ {0}
    /\ Good \subseteq Origins
    /\ MaxAttempts \in Int
    /\ {RetryUnsafe, HealthCheck, ClientFaults} \subseteq BOOLEAN
    /\ MaxRequests \in Nat
    /\ MaxTime \in Nat

VARIABLES
    clock,    \* lb.now()
    next,     \* the atomic round-robin counter
    origins,  \* origin -> originState
    req,      \* request slot -> the locals of its ServeHTTP
    prober,   \* the target being probed, and the answer not applied yet
    health    \* environment: origin -> "up" | "sick" | "down"

vars == <<clock, next, origins, req, prober, health>>

Methods == {"idempotent", "unsafe"}
Healths == {"up", "sick", "down"}
Pcs == {"idle", "now", "scan", "fallback", "send", "wait", "backoff",
        "answered", "failed", "stamped", "fastfail"}

\* A request holds an origin from the moment it is handed to that origin's
\* reverse proxy until the outcome is recorded.
HoldsOrigin(q) == q.pc \in {"send", "wait", "backoff", "answered", "failed", "stamped"}

RequestStates == [pc : Pcs, method : Methods, start : Nat, now : Nat, i : Nat,
                  origin : Origins, attempt : Nat, failAt : Nat]

IdleRequest == [pc |-> "idle", method |-> "idempotent", start |-> 0, now |-> 0, i |-> 0,
                origin |-> 0, attempt |-> 0, failAt |-> 0]

\* The type invariant.
TypeOK ==
    /\ clock \in Nat
    /\ next \in Nat
    /\ origins \in [Origins -> OriginStates]
    /\ req \in [Requests -> RequestStates]
    /\ prober \in [target : Origins, pc : {"probe", "apply"}, down : BOOLEAN]
    /\ health \in [Origins -> Healths]

\* NewOriginProxy: every origin starts with a fresh record.
Init ==
    /\ clock = 0
    /\ next = 0
    /\ origins = [o \in Origins |-> FreshOrigin]
    /\ req = [r \in Requests |-> IdleRequest]
    /\ prober = [target |-> 0, pc |-> "probe", down |-> FALSE]
    /\ health \in {h \in [Origins -> Healths] : \A o \in Good : h[o] = "up"}

-----------------------------------------------------------------------------
\* (start + i) % n
Candidate(q) == (q.start + q.i) % N

\* A plausible fault: the method is not looked at.
AlwaysRetryable(q) == MaxAttempts > 1

\* retryTransport only loops for a method it may repeat.
Retryable(q) == MaxAttempts > 1 /\ (q.method = "idempotent" \/ RetryUnsafe)

\* o.handler.ServeHTTP(w, r): the request belongs to origin o from now on.
Forward(q, o) == [q EXCEPT !.pc = "send", !.origin = o, !.attempt = 1]

-----------------------------------------------------------------------------
(* Plausible faults of the actions below. *)

SkipLastScan(r) ==
    /\ req[r].pc = "scan"
    /\ req' = [req EXCEPT ![r] =
                 IF Available(origins[Candidate(req[r])], req[r].now)
                 THEN Forward(req[r], Candidate(req[r]))
                 ELSE IF req[r].i + 2 < N THEN [req[r] EXCEPT !.i = @ + 1]
                                          ELSE [req[r] EXCEPT !.pc = "fallback"]]
    /\ UNCHANGED <<clock, next, origins, prober, health>>

DialAnyway(r) ==
    /\ req[r].pc = "fallback"
    /\ req' = [req EXCEPT ![r] = Forward(req[r], req[r].start % N)]
    /\ UNCHANGED <<clock, next, origins, prober, health>>

LostAdd(r, m) ==
    /\ req[r].pc = "idle"
    /\ next < MaxRequests
    /\ next' \in {next, next + 1}
    /\ req' = [req EXCEPT ![r] = [IdleRequest EXCEPT !.pc = "now", !.method = m,
                                                     !.start = next + 1]]
    /\ UNCHANGED <<clock, origins, prober, health>>

ForgetTarget ==
    /\ prober.pc = "apply"
    /\ origins' = [origins EXCEPT ![prober.target] = SetForcedDown(@, prober.down)]
    /\ prober' = [prober EXCEPT !.pc = "probe"]
    /\ UNCHANGED <<clock, next, req, health>>

ApplyToNextTarget ==
    /\ prober.pc = "apply"
    /\ LET t == (prober.target + 1) % N
       IN  /\ origins' = [origins EXCEPT ![t] = SetForcedDown(@, prober.down)]
           /\ prober' = [target |-> t, pc |-> "probe", down |-> FALSE]
    /\ UNCHANGED <<clock, next, req, health>>

ApplyPastEnd ==
    /\ prober.pc = "apply"
    /\ origins' = [origins EXCEPT ![prober.target] = SetForcedDown(@, prober.down)]
    /\ prober' = [target |-> prober.target + 1, pc |-> "probe", down |-> FALSE]
    /\ UNCHANGED <<clock, next, req, health>>

RetryForever(r, kind) ==
    /\ req[r].pc = "wait"
    /\ health[req[r].origin] = "down"
    /\ req' = [req EXCEPT ![r].pc = IF kind = "net" /\ Retryable(req[r])
                                    THEN "send" ELSE "failed"]
    /\ UNCHANGED <<clock, next, origins, prober, health>>

-----------------------------------------------------------------------------
(* roundRobinProxy.ServeHTTP *)

\* start := lb.next.Add(1)
Enter(r, m) ==
    /\ req[r].pc = "idle"
    /\ next < MaxRequests
    /\ next' = next + 1
    /\ req' = [req EXCEPT ![r] = [IdleRequest EXCEPT !.pc = "now", !.method = m,
                                                     !.start = next + 1]]
    /\ UNCHANGED <<clock, origins, prober, health>>

\* now := lb.now()
ReadNow(r) ==
    /\ req[r].pc = "now"
    /\ req' = [req EXCEPT ![r].pc = "scan", ![r].now = clock]
    /\ UNCHANGED <<clock, next, origins, prober, health>>

\* One iteration of the scan, under the candidate's mutex.
Scan(r) ==
    /\ req[r].pc = "scan"
    /\ req' = [req EXCEPT ![r] =
                 IF Available(origins[Candidate(req[r])], req[r].now)
                 THEN Forward(req[r], Candidate(req[r]))
                 ELSE IF req[r].i + 1 < N THEN [req[r] EXCEPT !.i = @ + 1]
                                          ELSE [req[r] EXCEPT !.pc = "fallback"]]
    /\ UNCHANGED <<clock, next, origins, prober, health>>

\* Every origin was unavailable: dial the first unless its breaker is open.
Fallback(r) ==
    /\ req[r].pc = "fallback"
    /\ LET o == req[r].start % N
       IN  req' = [req EXCEPT ![r] = IF BreakerOpen(origins[o], req[r].now)
                                     THEN [req[r] EXCEPT !.pc = "fastfail"]
                                     ELSE Forward(req[r], o)]
    /\ UNCHANGED <<clock, next, origins, prober, health>>

\* writeBadGateway without a dial; the handler returns.
FastFail(r) ==
    /\ req[r].pc = "fastfail"
    /\ req' = [req EXCEPT ![r] = IdleRequest]
    /\ UNCHANGED <<clock, next, origins, prober, health>>

-----------------------------------------------------------------------------
(* retryTransport.RoundTrip and the http.Transport below it *)

\* t.next.RoundTrip(req): the request goes out to the origin.
Send(r) ==
    /\ req[r].pc = "send"
    /\ req' = [req EXCEPT ![r].pc = "wait"]
    /\ UNCHANGED <<clock, next, origins, prober, health>>

\* The client cancels, or its body cannot be read (before the first attempt
\* when it is buffered for retries, while it is sent otherwise).  Neither is
\* a net.Error, so RoundTrip returns it at once.
ClientFault(r) ==
    /\ ClientFaults
    /\ req[r].pc \in {"send", "wait"}
    /\ req' = [req EXCEPT ![r].pc = "failed"]
    /\ UNCHANGED <<clock, next, origins, prober, health>>

\* The origin's response headers arrive.
Answer(r) ==
    /\ req[r].pc = "wait"
    /\ health[req[r].origin] # "down"
    /\ req' = [req EXCEPT ![r].pc = "answered"]
    /\ UNCHANGED <<clock, next, origins, prober, health>>

\* The round trip fails: a net.Error (refused, timed out) is retried while
\* attempts remain, any other error is returned.
OriginError(r, kind) ==
    /\ req[r].pc = "wait"
    /\ health[req[r].origin] = "down"
    /\ req' = [req EXCEPT ![r].pc =
                 IF kind = "net" /\ Retryable(req[r]) /\ req[r].attempt < MaxAttempts
                 THEN "backoff" ELSE "failed"]
    /\ UNCHANGED <<clock, next, origins, prober, health>>

\* t.sleep(t.backoff(attempt)) returns; the loop makes its next attempt.
WakeUp(r) ==
    /\ req[r].pc = "backoff"
    /\ req' = [req EXCEPT ![r].pc = "send", ![r].attempt = @ + 1]
    /\ UNCHANGED <<clock, next, origins, prober, health>>

-----------------------------------------------------------------------------
(* The reverse proxy's callbacks *)

\* ModifyResponse: state.recordSuccess(), then the response is copied.  An
\* upgrade that cannot be completed reaches ErrorHandler after that.
ModifyResponse(r, upgradeFails) ==
    /\ req[r].pc = "answered"
    /\ upgradeFails => req[r].origin \notin Good
    /\ origins' = [origins EXCEPT ![req[r].origin] = RecordSuccess(@)]
    /\ req' = [req EXCEPT ![r] = IF upgradeFails THEN [@ EXCEPT !.pc = "failed"]
                                                 ELSE IdleRequest]
    /\ UNCHANGED <<clock, next, prober, health>>

\* ErrorHandler evaluates lb.now() before recordFailure takes the mutex.
StampFailure(r) ==
    /\ req[r].pc = "failed"
    /\ req' = [req EXCEPT ![r].pc = "stamped", ![r].failAt = clock]
    /\ UNCHANGED <<clock, next, origins, prober, health>>

\* state.recordFailure(...), then the 502; the handler returns.
ErrorHandler(r) ==
    /\ req[r].pc = "stamped"
    /\ origins' = [origins EXCEPT ![req[r].origin] = RecordFailure(@, req[r].failAt)]
    /\ req' = [req EXCEPT ![r] = IdleRequest]
    /\ UNCHANGED <<clock, next, prober, health>>

-----------------------------------------------------------------------------
(* Prober *)

\* probe(t.URL): only a 2xx answer means up.
Probe ==
    /\ HealthCheck
    /\ prober.pc = "probe"
    /\ prober' = [prober EXCEPT !.pc = "apply", !.down = (health[prober.target] # "up")]
    /\ UNCHANGED <<clock, next, origins, req, health>>

\* t.state.setForcedDown(...), then the next target (or the next tick).
ApplyProbe ==
    /\ prober.pc = "apply"
    /\ origins' = [origins EXCEPT ![prober.target] = SetForcedDown(@, prober.down)]
    /\ prober' = [target |-> (prober.target + 1) % N, pc |-> "probe", down |-> FALSE]
    /\ UNCHANGED <<clock, next, req, health>>

-----------------------------------------------------------------------------
(* Environment *)

Tick ==
    /\ clock < MaxTime
    /\ clock' = clock + 1
    /\ UNCHANGED <<next, origins, req, prober, health>>

ChangeHealth(o) ==
    /\ o \notin Good
    /\ \E h \in Healths \ {health[o]} : health' = [health EXCEPT ![o] = h]
    /\ UNCHANGED <<clock, next, origins, req, prober>>

\* What a request's goroutine does once it has entered the proxy.
RequestStep(r) ==
    \/ ReadNow(r) \/ Scan(r) \/ Fallback(r) \/ FastFail(r)
    \/ Send(r) \/ ClientFault(r) \/ Answer(r) \/ WakeUp(r)
    \/ \E kind \in {"net", "other"} : OriginError(r, kind)
    \/ \E upgradeFails \in BOOLEAN : ModifyResponse(r, upgradeFails)
    \/ StampFailure(r) \/ ErrorHandler(r)

ProberStep == Probe \/ ApplyProbe

Next ==
    \/ \E r \in Requests : (\E m \in Methods : Enter(r, m)) \/ RequestStep(r)
    \/ ProberStep
    \/ Tick
    \/ \E o \in Origins : ChangeHealth(o)

Spec == Init /\ [][Next]_vars

\* Goroutines are scheduled fairly; dialing and waiting for headers are
\* bounded by the service's timeout, so a pending round trip ends.
FairSpec ==
    /\ Spec
    /\ \A r \in Requests : WF_vars(RequestStep(r))
    /\ WF_vars(ProberStep)

-----------------------------------------------------------------------------
(* Properties *)

(***************************************************************************)
(* breakerOpen's comment: it turns false exactly when available turns      *)
(* true, "deliberately matching available's own transition".  Whatever     *)
(* outcomes have been recorded, a tripped origin that no probe holds down  *)
(* is open or admissible, never both and never neither, at every instant.  *)
(***************************************************************************)
HalfOpenConsistent ==
    \A o \in Origins : Tripped(origins[o]) /\ ~origins[o].forcedDown =>
        \A t \in clock..MaxTime : BreakerOpen(origins[o], t) <=> ~Available(origins[o], t)

(***************************************************************************)
(* The zero lastFailureAt means "no failure since the last success": the   *)
(* two fields the breaker reads never disagree, and no failure is dated in *)
(* the future, although the date is read before the lock is taken.         *)
(***************************************************************************)
FailureDateConsistent ==
    \A o \in Origins :
        /\ (origins[o].lastFailureAt = ZeroTime) <=> (origins[o].consecutiveFailures = 0)
        /\ origins[o].lastFailureAt <= clock

(***************************************************************************)
(* "an origin that just failed is skipped" (README): one that never failed *)
(* is not.  A healthy origin is available to every request at every        *)
(* instant.                                                                *)
(***************************************************************************)
HealthyOriginAvailable ==
    \A o \in Good : Available(origins[o], clock)

(***************************************************************************)
(* ServeHTTP answers 502 without dialing only when no origin could have    *)
(* served the request: as long as one origin of the service is healthy, no *)
(* request fast-fails, whatever the other origins, the other requests and  *)
(* the prober do meanwhile.                                                *)
(***************************************************************************)
NoFastFailWithGoodOrigin ==
    Good # {} => \A r \in Requests : req[r].pc # "fastfail"

(***************************************************************************)
(* lb.next hands every request its own position, and a request whose       *)
(* position names a healthy origin goes to that origin, never past it: the *)
(* requests are spread over the healthy origins in turn.                   *)
(***************************************************************************)
RoundRobin ==
    \A r, s \in Requests :
        /\ r # s /\ req[r].pc # "idle" /\ req[s].pc # "idle" => req[r].start # req[s].start
        /\ HoldsOrigin(req[r]) /\ req[r].start % N \in Good => req[r].origin = req[r].start % N

(***************************************************************************)
(* RoundTrip makes at most MaxAttempts attempts, and never sends a request *)
(* that is not idempotent twice unless RetryUnsafeMethods allows it.       *)
(***************************************************************************)
RetryBound ==
    \A r \in Requests :
        /\ req[r].attempt <= (IF MaxAttempts > 1 THEN MaxAttempts ELSE 1)
        /\ req[r].method = "unsafe" /\ ~RetryUnsafe => req[r].attempt <= 1

(***************************************************************************)
(* A failure recorded at the instant it is dated takes its origin out of   *)
(* rotation at once, and trips the breaker at the threshold, however many  *)
(* failures precede it: the escalated cooldown never wraps to a negative   *)
(* Duration.                                                               *)
(***************************************************************************)
FreshFailureBlocks ==
    [][\A r \in Requests : ErrorHandler(r) /\ req[r].failAt = clock =>
          LET s == origins'[req[r].origin]
          IN  /\ ~Available(s, clock)
              /\ Tripped(s) => BreakerOpen(s, clock)]_vars

(***************************************************************************)
(* Options.BreakerThreshold: a tripped origin is "fast-failing without     *)
(* dialing it until BreakerCooldown elapses".  No request is handed to an  *)
(* origin whose breaker is open at that moment, although the scan and the  *)
(* fallback decide by a time read earlier and origins change in between.   *)
(***************************************************************************)
NoAdmissionWhileOpen ==
    [][\A r \in Requests :
          ~HoldsOrigin(req[r]) /\ HoldsOrigin(req'[r]) =>
              ~BreakerOpen(origins[req'[r].origin], clock)]_vars

(***************************************************************************)
(* Every request that enters the proxy is answered: the scan ends, retries *)
(* run out and no outcome is lost between the callbacks.                   *)
(***************************************************************************)
EveryRequestAnswered ==
    \A r \in Requests : req[r].pc # "idle" ~> req[r].pc = "idle"

(***************************************************************************)
(* The prober converges on every target: an origin that stays up is        *)
(* eventually let back into rotation for good, and one that stops being up *)
(* is eventually held down for good.                                       *)
(***************************************************************************)
ProbeConverges ==
    HealthCheck =>
        \A o \in Origins :
            /\ <>[](health[o] = "up") => <>[](~origins[o].forcedDown)
            /\ <>[](health[o] # "up") => <>[](origins[o].forcedDown)
=============================================================================
