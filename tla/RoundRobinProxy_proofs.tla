----------------------- MODULE RoundRobinProxy_proofs -----------------------
(***************************************************************************)
(* Proofs about RoundRobinProxy for any number of origins, of requests in  *)
(* flight, of attempts and of failures, and for every setting of the       *)
(* cooldowns and of the breaker.                                           *)
(***************************************************************************)
EXTENDS RoundRobinProxy, TLAPS

-----------------------------------------------------------------------------
(* Arithmetic *)

\* The remainder modulo n is the only o below n that differs from x by a
\* multiple of n.
LEMMA RemainderUnique ==
    ASSUME NEW n \in Nat \ {0}, NEW o \in 0..(n - 1), NEW q \in Int, NEW x \in Int,
           x = n * q + o
    PROVE  x % n = o
<1> DEFINE p == x \div n
           m == x % n
<1>1. p \in Int /\ m \in 0..(n - 1) /\ x = n * p + m
  OBVIOUS
<1>2. n * (q - p) = m - o
  BY <1>1
<1>3. CASE q = p
  BY <1>1, <1>3
<1>4. CASE q > p
  <2>1. n * (q - p) >= n
    BY <1>1, <1>4
  <2> QED BY <2>1, <1>1, <1>2
<1>5. CASE q < p
  <2>1. n * (q - p) <= -n
    BY <1>1, <1>5
  <2> QED BY <2>1, <1>1, <1>2
<1> QED BY <1>1, <1>3, <1>4, <1>5

\* N consecutive positions modulo N cover every origin: the scan of
\* ServeHTTP skips none, wherever it starts.
LEMMA ScanCoversEveryOrigin ==
    ASSUME NEW n \in Nat \ {0}, NEW s \in Nat, NEW o \in 0..(n - 1)
    PROVE  \E j \in 0..(n - 1) : (s + j) % n = o
<1> DEFINE i == (o - s) % n
           q == (o - s) \div n
<1>1. i \in 0..(n - 1) /\ q \in Int /\ o - s = n * q + i
  OBVIOUS
<1>2. s + i = n * (-q) + o
  BY <1>1
<1>3. (s + i) % n = o
  <2>1. s + i \in Int /\ -q \in Int
    BY <1>1
  <2> HIDE DEF i, q
  <2> QED BY <1>1, <1>2, <2>1, RemainderUnique
<1> QED BY <1>1, <1>3

\* A remainder modulo the number of origins is an origin.
LEMMA RemainderIsOrigin == \A x \in Nat : x % N \in Origins
  BY ProxyAssumption DEF Origins

-----------------------------------------------------------------------------
(* Type correctness *)

\* The record operations of originState keep its type.
LEMMA OriginOpsType ==
    ASSUME NEW s \in OriginStates, NEW t \in Nat, NEW d \in BOOLEAN
    PROVE  /\ RecordFailure(s, t) \in OriginStates
           /\ RecordSuccess(s) \in OriginStates
           /\ SetForcedDown(s, d) \in OriginStates
<1>1. s.consecutiveFailures + 1 \in Nat /\ 0 \in Nat /\ ZeroTime \in {ZeroTime} \cup Nat
  BY DEF OriginStates
<1>2. t \in {ZeroTime} \cup Nat
  OBVIOUS
<1>3. RecordFailure(s, t) \in OriginStates
  BY <1>1, <1>2, Zenon DEF RecordFailure, OriginStates
<1>4. RecordSuccess(s) \in OriginStates
  BY <1>1, Zenon DEF RecordSuccess, OriginStates
<1>5. SetForcedDown(s, d) \in OriginStates
  BY Zenon DEF SetForcedDown, OriginStates
<1> QED BY <1>3, <1>4, <1>5

\* Handing a request to an origin keeps the request's type.
LEMMA ForwardType ==
    ASSUME TypeOK, NEW q \in RequestStates, NEW o \in Origins
    PROVE  Forward(q, o) \in RequestStates
  BY DEF TypeOK, Forward, RequestStates, Pcs, Tripped

LEMMA IdleRequestType == IdleRequest \in RequestStates
  BY ProxyAssumption DEF IdleRequest, RequestStates, Pcs, Methods, Origins

LEMMA TypeInit == Init => TypeOK
  BY ProxyAssumption, IdleRequestType
  DEF Init, TypeOK, FreshOrigin, OriginStates, ZeroTime, Origins

LEMMA TypeNext == TypeOK /\ [Next]_vars => TypeOK'
<1> SUFFICES ASSUME TypeOK, [Next]_vars PROVE TypeOK'
  OBVIOUS
<1> USE DEF TypeOK
<1>1. ASSUME NEW r \in Requests, NEW m \in Methods, Enter(r, m) PROVE TypeOK'
  <2>1. next + 1 \in Nat /\ "now" \in Pcs
    BY DEF Pcs
  <2>2. [IdleRequest EXCEPT !.pc = "now", !.method = m, !.start = next + 1] \in RequestStates
    BY <2>1, IdleRequestType, Zenon DEF RequestStates
  <2> QED BY <1>1, <2>1, <2>2 DEF Enter
<1>2. ASSUME NEW r \in Requests, RequestStep(r) PROVE TypeOK'
  <2>1. req[r] \in RequestStates
    OBVIOUS
  <2>2. CASE ReadNow(r)
    BY <2>1, <2>2 DEF ReadNow, RequestStates, Pcs
  <2>3. CASE Scan(r)
    <3>1. Candidate(req[r]) \in Origins
      BY <2>1, RemainderIsOrigin DEF Candidate, RequestStates
    <3>2. Forward(req[r], Candidate(req[r])) \in RequestStates
      BY <2>1, <3>1, ForwardType
    <3>3. [req[r] EXCEPT !.i = @ + 1] \in RequestStates
      BY <2>1 DEF RequestStates
    <3>4. [req[r] EXCEPT !.pc = "fallback"] \in RequestStates
      BY <2>1 DEF RequestStates, Pcs
    <3> QED BY <2>3, <3>2, <3>3, <3>4 DEF Scan
  <2>4. CASE Fallback(r)
    <3>1. req[r].start % N \in Origins
      BY <2>1, RemainderIsOrigin DEF RequestStates
    <3>2. Forward(req[r], req[r].start % N) \in RequestStates
      BY <2>1, <3>1, ForwardType
    <3>3. [req[r] EXCEPT !.pc = "fastfail"] \in RequestStates
      BY <2>1 DEF RequestStates, Pcs
    <3> QED BY <2>4, <3>2, <3>3 DEF Fallback
  <2>5. CASE FastFail(r)
    BY <2>5, IdleRequestType DEF FastFail
  <2>6. CASE Send(r)
    BY <2>1, <2>6 DEF Send, RequestStates, Pcs
  <2>7. CASE ClientFault(r)
    BY <2>1, <2>7 DEF ClientFault, RequestStates, Pcs
  <2>8. CASE Answer(r)
    BY <2>1, <2>8 DEF Answer, RequestStates, Pcs
  <2>9. CASE WakeUp(r)
    BY <2>1, <2>9 DEF WakeUp, RequestStates, Pcs
  <2>10. ASSUME NEW k \in {"net", "other"}, OriginError(r, k) PROVE TypeOK'
    <3>1. [req[r] EXCEPT !.pc = "backoff"] \in RequestStates
      BY <2>1 DEF RequestStates, Pcs
    <3>2. [req[r] EXCEPT !.pc = "failed"] \in RequestStates
      BY <2>1 DEF RequestStates, Pcs
    <3> QED BY <2>10, <3>1, <3>2 DEF OriginError
  <2>11. ASSUME NEW u \in BOOLEAN, ModifyResponse(r, u) PROVE TypeOK'
    <3>1. req[r].origin \in Origins
      BY <2>1 DEF RequestStates
    <3>2. RecordSuccess(origins[req[r].origin]) \in OriginStates
      BY <3>1, OriginOpsType
    <3>3. [req[r] EXCEPT !.pc = "failed"] \in RequestStates
      BY <2>1 DEF RequestStates, Pcs
    <3> QED BY <2>11, <3>1, <3>2, <3>3, IdleRequestType DEF ModifyResponse
  <2>12. CASE StampFailure(r)
    BY <2>1, <2>12 DEF StampFailure, RequestStates, Pcs
  <2>13. CASE ErrorHandler(r)
    <3>1. req[r].origin \in Origins /\ req[r].failAt \in Nat
      BY <2>1 DEF RequestStates
    <3>2. RecordFailure(origins[req[r].origin], req[r].failAt) \in OriginStates
      BY <3>1, OriginOpsType
    <3> QED BY <2>13, <3>1, <3>2, IdleRequestType DEF ErrorHandler
  <2> QED BY <1>2, <2>2, <2>3, <2>4, <2>5, <2>6, <2>7, <2>8, <2>9, <2>10, <2>11, <2>12, <2>13
          DEF RequestStep
<1>3. CASE Probe
  <2>1. (health[prober.target] # "up") \in BOOLEAN
    OBVIOUS
  <2> QED BY <1>3, <2>1 DEF Probe
<1>4. CASE ApplyProbe
  <2>1. (prober.target + 1) % N \in Origins
    BY RemainderIsOrigin DEF Origins
  <2>2. SetForcedDown(origins[prober.target], prober.down) \in OriginStates
    BY OriginOpsType
  <2> QED BY <1>4, <2>1, <2>2 DEF ApplyProbe
<1>5. CASE Tick
  BY <1>5 DEF Tick
<1>6. ASSUME NEW o \in Origins, ChangeHealth(o) PROVE TypeOK'
  BY <1>6 DEF ChangeHealth
<1>7. CASE UNCHANGED vars
  BY <1>7 DEF vars
<1> QED BY <1>1, <1>2, <1>3, <1>4, <1>5, <1>6, <1>7 DEF Next, ProberStep

(***************************************************************************)
(* Type correctness of the proxy's state: every index the code takes       *)
(* modulo the number of origins stays an origin, and every record keeps    *)
(* its shape, for any number of origins, requests and failures.            *)
(***************************************************************************)
THEOREM TypeCorrect == Spec => []TypeOK
<1>1. Init => TypeOK
  BY TypeInit
<1>2. TypeOK /\ [Next]_vars => TypeOK'
  BY TypeNext
<1> QED BY <1>1, <1>2, PTL DEF Spec

-----------------------------------------------------------------------------
(* The failure dates and the breaker *)

\* The strengthening of FailureDateConsistent: a date that ErrorHandler has
\* read and not recorded yet is not in the future either.
DatesInv ==
    /\ FailureDateConsistent
    /\ \A r \in Requests : req[r].pc = "stamped" => req[r].failAt <= clock

LEMMA DatesInit == Init => DatesInv
  BY DEF Init, DatesInv, FailureDateConsistent, FreshOrigin, IdleRequest, ZeroTime

LEMMA DatesNext == TypeOK /\ DatesInv /\ [Next]_vars => DatesInv'
<1> SUFFICES ASSUME TypeOK, DatesInv, [Next]_vars PROVE DatesInv'
  OBVIOUS
<1>0. TypeOK'
  BY TypeNext
<1>1. ASSUME NEW r \in Requests, NEW m \in Methods, Enter(r, m) PROVE DatesInv'
  BY <1>1 DEF Enter, TypeOK, DatesInv, FailureDateConsistent, IdleRequest
<1>2. ASSUME NEW r \in Requests, RequestStep(r) PROVE DatesInv'
  <2>1. req[r] \in RequestStates
    BY DEF TypeOK
  <2>3. CASE ReadNow(r)
    BY <2>3 DEF ReadNow, TypeOK, DatesInv, FailureDateConsistent, RequestStates
  <2>4. CASE Scan(r)
    BY <2>4 DEF Scan, Forward, TypeOK, DatesInv, FailureDateConsistent, RequestStates
  <2>5. CASE Fallback(r)
    BY <2>5 DEF Fallback, Forward, TypeOK, DatesInv, FailureDateConsistent, RequestStates
  <2>6. CASE FastFail(r)
    BY <2>6 DEF FastFail, IdleRequest, TypeOK, DatesInv, FailureDateConsistent, RequestStates
  <2>7. CASE Send(r) \/ ClientFault(r) \/ Answer(r) \/ WakeUp(r)
    BY <2>7 DEF Send, ClientFault, Answer, WakeUp, TypeOK, DatesInv, FailureDateConsistent,
                RequestStates
  <2>8. ASSUME NEW k \in {"net", "other"}, OriginError(r, k) PROVE DatesInv'
    BY <2>8 DEF OriginError, TypeOK, DatesInv, FailureDateConsistent, RequestStates
  <2>9. ASSUME NEW u \in BOOLEAN, ModifyResponse(r, u) PROVE DatesInv'
    <3>1. \A s \in Requests : req'[s].pc = "stamped" => req'[s].failAt <= clock'
      BY <2>9 DEF ModifyResponse, TypeOK, DatesInv, IdleRequest, RequestStates
    <3>2. FailureDateConsistent'
      BY <2>9, <2>1 DEF ModifyResponse, RecordSuccess, TypeOK, DatesInv, FailureDateConsistent,
                   OriginStates, RequestStates, ZeroTime
    <3> QED BY <3>1, <3>2 DEF DatesInv
  <2>10. CASE StampFailure(r)
    BY <2>10 DEF StampFailure, TypeOK, DatesInv, FailureDateConsistent, RequestStates
  <2>11. CASE ErrorHandler(r)
    <3>1. \A s \in Requests : req'[s].pc = "stamped" => req'[s].failAt <= clock'
      BY <2>11 DEF ErrorHandler, TypeOK, DatesInv, IdleRequest, RequestStates
    <3>2. req[r].failAt \in Nat /\ req[r].failAt <= clock /\ req[r].origin \in Origins
      BY <2>11, <2>1 DEF ErrorHandler, DatesInv, RequestStates
    <3>3. FailureDateConsistent'
      BY <2>11, <3>2 DEF ErrorHandler, RecordFailure, TypeOK, DatesInv, FailureDateConsistent,
                   OriginStates, ZeroTime
    <3> QED BY <3>1, <3>3 DEF DatesInv
  <2> QED BY <1>2, <2>3, <2>4, <2>5, <2>6, <2>7, <2>8, <2>9, <2>10, <2>11 DEF RequestStep
<1>3. CASE Probe
  BY <1>3 DEF Probe, DatesInv, FailureDateConsistent
<1>4. CASE ApplyProbe
  BY <1>4 DEF ApplyProbe, SetForcedDown, TypeOK, DatesInv, FailureDateConsistent, OriginStates
<1>5. CASE Tick
  <2>1. clock \in Nat /\ clock' = clock + 1 /\ UNCHANGED <<origins, req>>
    BY <1>5 DEF Tick, TypeOK
  <2> QED BY <2>1 DEF TypeOK, DatesInv, FailureDateConsistent, OriginStates, RequestStates, ZeroTime
<1>6. ASSUME NEW o \in Origins, ChangeHealth(o) PROVE DatesInv'
  BY <1>6 DEF ChangeHealth, DatesInv, FailureDateConsistent
<1>7. CASE UNCHANGED vars
  BY <1>7 DEF vars, DatesInv, FailureDateConsistent
<1> QED BY <1>1, <1>2, <1>3, <1>4, <1>5, <1>6, <1>7 DEF Next, ProberStep

\* An escalated cooldown is a Duration that never wraps, whatever the run of
\* failures: this is what maxBreakerCooldownShift is for.
LEMMA EscalationDoesNotWrap ==
    ASSUME NEW shift \in Nat
    PROVE  /\ EscalatedCooldown(BreakerCooldown, shift) \in Nat
           /\ EscalatedCooldown(BreakerCooldown, shift) < MaxDuration
<1> DEFINE capped == IF shift > maxBreakerCooldownShift THEN maxBreakerCooldownShift ELSE shift
           d == BreakerCooldown * 2^capped
<1>1. capped \in 0..maxBreakerCooldownShift
  BY DurationAssumption
<1>2. d \in Nat /\ d < MaxDuration
  BY <1>1, NoOverflowAssumption
<1>3. EscalatedCooldown(BreakerCooldown, shift) = WrapDuration(d)
  BY DEF EscalatedCooldown
<1>4. WrapDuration(d) = d
  <2> HIDE DEF d
  <2> QED BY <1>2, DurationAssumption DEF WrapDuration
<1> QED BY <1>2, <1>3, <1>4

\* The window of a tripped origin is such a Duration.
LEMMA WindowType ==
    ASSUME NEW s \in OriginStates, Tripped(s)
    PROVE  BreakerWindow(s) \in Nat /\ BreakerWindow(s) < MaxDuration
<1>1. s.consecutiveFailures - BreakerThreshold \in Nat
  BY DurationAssumption DEF Tripped, OriginStates
<1> QED BY <1>1, EscalationDoesNotWrap DEF BreakerWindow

\* On any record with a failure in it, breakerOpen and available agree on
\* the instant at which a tripped origin becomes half-open.
LEMMA OpenXorAvailable ==
    ASSUME NEW s \in OriginStates, NEW t \in Nat, Tripped(s), ~s.forcedDown,
           (s.lastFailureAt = ZeroTime) <=> (s.consecutiveFailures = 0)
    PROVE  BreakerOpen(s, t) <=> ~Available(s, t)
<1>1. s.lastFailureAt # ZeroTime
  BY DurationAssumption DEF Tripped, OriginStates
<1>2. BreakerWindow(s) \in Nat /\ s.lastFailureAt \in Nat
  BY <1>1, WindowType DEF OriginStates
<1>3. BreakerOpen(s, t) <=> t - s.lastFailureAt <= BreakerWindow(s)
  BY <1>1 DEF BreakerOpen, Sub
<1>4. Available(s, t) <=> t - s.lastFailureAt > BreakerWindow(s)
  BY <1>1 DEF Available, Sub
<1> QED BY <1>2, <1>3, <1>4

(***************************************************************************)
(* No outcome, in whatever order concurrent requests record it, leaves an  *)
(* origin whose failure date and failure count disagree, or whose failure  *)
(* is dated in the future.                                                 *)
(***************************************************************************)
THEOREM FailureDatesConsistent == Spec => []FailureDateConsistent
<1>1. Init => TypeOK /\ DatesInv
  BY TypeInit, DatesInit
<1>2. (TypeOK /\ DatesInv) /\ [Next]_vars => (TypeOK /\ DatesInv)'
  BY TypeNext, DatesNext
<1>3. TypeOK /\ DatesInv => FailureDateConsistent
  BY DEF DatesInv
<1> QED BY <1>1, <1>2, <1>3, PTL DEF Spec

(***************************************************************************)
(* breakerOpen matches available's transition back to true in every        *)
(* reachable state: a tripped origin is open exactly while it is           *)
(* unavailable, for every threshold, cooldown and run of failures.         *)
(***************************************************************************)
THEOREM BreakerMatchesAvailability == Spec => []HalfOpenConsistent
<1>1. Init => TypeOK /\ DatesInv
  BY TypeInit, DatesInit
<1>2. (TypeOK /\ DatesInv) /\ [Next]_vars => (TypeOK /\ DatesInv)'
  BY TypeNext, DatesNext
<1>3. TypeOK /\ DatesInv => HalfOpenConsistent
  <2> SUFFICES ASSUME TypeOK, DatesInv, NEW o \in Origins, Tripped(origins[o]),
                      ~origins[o].forcedDown, NEW t \in clock..MaxTime
               PROVE  BreakerOpen(origins[o], t) <=> ~Available(origins[o], t)
    BY DEF HalfOpenConsistent
  <2>1. origins[o] \in OriginStates /\ t \in Nat
    BY ProxyAssumption DEF TypeOK
  <2>2. (origins[o].lastFailureAt = ZeroTime) <=> (origins[o].consecutiveFailures = 0)
    BY DEF DatesInv, FailureDateConsistent
  <2> QED BY <2>1, <2>2, OpenXorAvailable
<1> QED BY <1>1, <1>2, <1>3, PTL DEF Spec

(***************************************************************************)
(* A failure recorded at the instant it is dated always takes its origin   *)
(* out of rotation: no cooldown is ever negative.                          *)
(***************************************************************************)
THEOREM FreshFailuresBlock == Spec => FreshFailureBlocks
<1> DEFINE Blocks == \A r \in Requests : ErrorHandler(r) /\ req[r].failAt = clock =>
                        LET s == origins'[req[r].origin]
                        IN  /\ ~Available(s, clock)
                            /\ Tripped(s) => BreakerOpen(s, clock)
<1>1. TypeOK /\ [Next]_vars => [Blocks]_vars
  <2> SUFFICES ASSUME TypeOK, NEW r \in Requests, ErrorHandler(r), req[r].failAt = clock
               PROVE  LET s == origins'[req[r].origin]
                      IN  /\ ~Available(s, clock)
                          /\ Tripped(s) => BreakerOpen(s, clock)
    OBVIOUS
  <2> DEFINE old == origins[req[r].origin]
             s == origins'[req[r].origin]
  <2>1. old \in OriginStates /\ clock \in Nat /\ s = RecordFailure(old, clock)
    BY DEF TypeOK, RequestStates, ErrorHandler
  <2>2. s \in OriginStates /\ s.lastFailureAt = clock
    <3>1. s \in OriginStates
      BY <2>1, OriginOpsType
    <3> QED BY <2>1, <3>1 DEF RecordFailure, OriginStates
  <2>3. clock # ZeroTime /\ Sub(clock, clock) = 0
    BY <2>1 DEF ZeroTime, Sub
  <2>4. Tripped(s) => BreakerWindow(s) \in Nat
    BY <2>2, WindowType
  <2>5. ~Available(s, clock)
    BY <2>2, <2>3, <2>4, DurationAssumption DEF Available
  <2>6. Tripped(s) => BreakerOpen(s, clock)
    BY <2>2, <2>3, <2>4 DEF BreakerOpen
  <2> QED BY <2>5, <2>6
<1> QED BY <1>1, TypeCorrect, PTL DEF Spec, FreshFailureBlocks

-----------------------------------------------------------------------------
(* Healthy origins keep serving *)

\* Nothing in the record speaks against the origin.
Unmarked(s) == s.lastFailureAt = ZeroTime /\ s.forcedDown = FALSE

\* A healthy origin's record is unmarked, no probe result is about to hold it
\* down, and no request handed to it is on its way to a failure.
HealthyInv ==
    /\ \A o \in Good : health[o] = "up" /\ Unmarked(origins[o])
    /\ prober.pc = "apply" /\ prober.target \in Good => prober.down = FALSE
    /\ \A r \in Requests : req[r].pc \in {"failed", "stamped"} => req[r].origin \notin Good

\* What a scan knows: the candidates it passed over were not healthy, so it
\* reaches its end only when there is no healthy origin at all.
ScanInv ==
    \A r \in Requests :
        /\ req[r].pc \in {"now", "scan"} => req[r].i < N
        /\ req[r].pc = "now" => req[r].i = 0
        /\ req[r].pc = "scan" =>
             \A j \in 0..(req[r].i - 1) : (req[r].start + j) % N \notin Good
        /\ req[r].pc \in {"fallback", "fastfail"} => Good = {}

LEMMA HealthyInit == Init => HealthyInv /\ ScanInv
  BY ProxyAssumption DEF Init, HealthyInv, ScanInv, IdleRequest, Unmarked, FreshOrigin

\* The record of a healthy origin makes it available.
LEMMA UnmarkedIsAvailable == \A s, t : Unmarked(s) => Available(s, t)
  BY DEF Available, Unmarked

\* recordSuccess and an up probe leave such a record so.
LEMMA StaysUnmarked ==
    ASSUME NEW s \in OriginStates, Unmarked(s)
    PROVE  Unmarked(RecordSuccess(s)) /\ Unmarked(SetForcedDown(s, FALSE))
<1>1. Unmarked(RecordSuccess(s))
  BY DEF RecordSuccess, Unmarked, OriginStates
<1>2. Unmarked(SetForcedDown(s, FALSE))
  BY DEF SetForcedDown, Unmarked, OriginStates
<1> QED BY <1>1, <1>2

LEMMA HealthyNext ==
    ASSUME ~ClientFaults, TypeOK, HealthyInv, [Next]_vars
    PROVE  HealthyInv'
<1> USE DEF HealthyInv
<1>0. Good \subseteq Origins
  BY ProxyAssumption
<1>1. ASSUME NEW r \in Requests, NEW m \in Methods, Enter(r, m) PROVE HealthyInv'
  BY <1>1 DEF Enter, TypeOK, IdleRequest
<1>2. ASSUME NEW r \in Requests, RequestStep(r) PROVE HealthyInv'
  <2>1. req[r] \in RequestStates /\ req[r].origin \in Origins
    BY DEF TypeOK, RequestStates
  <2>2. CASE ReadNow(r) \/ Send(r) \/ Answer(r) \/ WakeUp(r)
    BY <2>2 DEF ReadNow, Send, Answer, WakeUp, TypeOK, RequestStates
  <2>3. CASE Scan(r)
    BY <2>3 DEF Scan, Forward, TypeOK, RequestStates
  <2>4. CASE Fallback(r)
    BY <2>4 DEF Fallback, Forward, TypeOK, RequestStates
  <2>5. CASE FastFail(r)
    BY <2>5 DEF FastFail, IdleRequest, TypeOK
  <2>6. CASE ClientFault(r)
    BY <2>6 DEF ClientFault
  <2>7. ASSUME NEW k \in {"net", "other"}, OriginError(r, k) PROVE HealthyInv'
    BY <2>7 DEF OriginError, TypeOK, RequestStates
  <2>8. ASSUME NEW u \in BOOLEAN, ModifyResponse(r, u) PROVE HealthyInv'
    <3>1. \A o \in Good : health'[o] = "up" /\ Unmarked(origins'[o])
      BY <1>0, <2>1, <2>8, StaysUnmarked DEF ModifyResponse, TypeOK
    <3>2. \A s \in Requests : req'[s].pc \in {"failed", "stamped"} => req'[s].origin \notin Good
      BY <2>1, <2>8 DEF ModifyResponse, TypeOK, IdleRequest, RequestStates
    <3>3. UNCHANGED prober
      BY <2>8 DEF ModifyResponse
    <3> QED BY <3>1, <3>2, <3>3
  <2>9. CASE StampFailure(r)
    BY <2>9 DEF StampFailure, TypeOK, RequestStates
  <2>10. CASE ErrorHandler(r)
    <3>1. req[r].origin \notin Good
      BY <2>10 DEF ErrorHandler
    <3> QED BY <1>0, <2>10, <3>1 DEF ErrorHandler, TypeOK, IdleRequest
  <2> QED BY <1>2, <2>2, <2>3, <2>4, <2>5, <2>6, <2>7, <2>8, <2>9, <2>10 DEF RequestStep
<1>3. CASE Probe
  <2>1. prober'.target = prober.target /\ prober'.down = (health[prober.target] # "up")
    BY <1>3 DEF Probe, TypeOK
  <2> QED BY <1>3, <2>1 DEF Probe
<1>4. CASE ApplyProbe
  <2>1. \A o \in Good : Unmarked(origins'[o])
    BY <1>0, <1>4, StaysUnmarked DEF ApplyProbe, TypeOK
  <2>2. prober'.pc = "probe" /\ UNCHANGED <<req, health>>
    BY <1>4 DEF ApplyProbe
  <2> QED BY <2>1, <2>2
<1>5. CASE Tick
  BY <1>5 DEF Tick
<1>6. ASSUME NEW o \in Origins, ChangeHealth(o) PROVE HealthyInv'
  BY <1>0, <1>6 DEF ChangeHealth, TypeOK
<1>7. CASE UNCHANGED vars
  BY <1>7 DEF vars
<1> QED BY <1>1, <1>2, <1>3, <1>4, <1>5, <1>6, <1>7 DEF Next, ProberStep

LEMMA ScanNext ==
    ASSUME TypeOK, HealthyInv, ScanInv, [Next]_vars
    PROVE  ScanInv'
<1> USE DEF ScanInv
<1>1. ASSUME NEW r \in Requests, NEW m \in Methods, Enter(r, m) PROVE ScanInv'
  BY <1>1, ProxyAssumption DEF Enter, TypeOK, IdleRequest
<1>2. ASSUME NEW r \in Requests, RequestStep(r) PROVE ScanInv'
  <2>1. req[r] \in RequestStates
    BY DEF TypeOK
  <2>2. CASE ReadNow(r)
    BY <2>2 DEF ReadNow, TypeOK, RequestStates
  <2>3. CASE Scan(r)
    <3> DEFINE q == req[r]
    <3>1. q.i \in Nat /\ q.i < N /\ q.start \in Nat /\ N \in Nat \ {0}
      BY <2>1, <2>3, ProxyAssumption DEF Scan, RequestStates
    <3>2. CASE Available(origins[Candidate(q)], q.now)
      BY <2>1, <2>3, <3>2 DEF Scan, Forward, TypeOK, RequestStates
    <3>3. CASE ~Available(origins[Candidate(q)], q.now)
      <4>1. (q.start + q.i) % N \notin Good
        BY <3>3, UnmarkedIsAvailable DEF HealthyInv, Candidate
      <4>2. \A j \in 0..q.i : (q.start + j) % N \notin Good
        BY <2>3, <3>1, <4>1 DEF Scan
      <4>3. CASE q.i + 1 < N
        <5>1. req' = [req EXCEPT ![r] = [req[r] EXCEPT !.i = @ + 1]]
          BY <2>3, <3>3, <4>3 DEF Scan
        <5>2. q.pc = "scan"
          BY <2>3 DEF Scan
        <5>3. req'[r].pc = "scan" /\ req'[r].i = q.i + 1 /\ req'[r].start = q.start
          BY <2>1, <5>1, <5>2 DEF TypeOK, RequestStates
        <5>4. \A j \in 0..(req'[r].i - 1) : (req'[r].start + j) % N \notin Good
          BY <3>1, <4>2, <5>3
        <5>5. \A s \in Requests \ {r} : req'[s] = req[s]
          BY <5>1 DEF TypeOK
        <5> QED BY <4>3, <5>3, <5>4, <5>5
      <4>4. CASE ~(q.i + 1 < N)
        <5>1. Good = {}
          <6>1. q.i = N - 1
            BY <3>1, <4>4
          <6>2. ASSUME NEW o \in Good PROVE FALSE
            <7>1. o \in 0..(N - 1)
              BY ProxyAssumption DEF Origins
            <7>2. PICK j \in 0..(N - 1) : (q.start + j) % N = o
              BY <3>1, <7>1, ScanCoversEveryOrigin
            <7> QED BY <4>2, <6>1, <7>2
          <6> QED BY <6>2
        <5>2. req' = [req EXCEPT ![r] = [req[r] EXCEPT !.pc = "fallback"]]
          BY <2>3, <3>3, <4>4 DEF Scan
        <5> QED BY <2>1, <5>1, <5>2 DEF TypeOK, RequestStates
      <4> QED BY <4>3, <4>4
    <3> QED BY <3>2, <3>3
  <2>4. CASE Fallback(r)
    BY <2>1, <2>4 DEF Fallback, Forward, TypeOK, RequestStates
  <2>5. CASE FastFail(r)
    BY <2>5 DEF FastFail, IdleRequest, TypeOK
  <2>6. CASE Send(r) \/ ClientFault(r) \/ Answer(r) \/ WakeUp(r)
    <3>1. req'[r].pc \in {"wait", "failed", "answered", "send"}
      BY <2>1, <2>6 DEF Send, ClientFault, Answer, WakeUp, TypeOK, RequestStates
    <3>2. \A s \in Requests \ {r} : req'[s] = req[s]
      BY <2>6 DEF Send, ClientFault, Answer, WakeUp, TypeOK
    <3> QED BY <3>1, <3>2
  <2>7. ASSUME NEW k \in {"net", "other"}, OriginError(r, k) PROVE ScanInv'
    BY <2>7 DEF OriginError, TypeOK, RequestStates
  <2>8. ASSUME NEW u \in BOOLEAN, ModifyResponse(r, u) PROVE ScanInv'
    BY <2>8 DEF ModifyResponse, IdleRequest, TypeOK, RequestStates
  <2>9. CASE StampFailure(r)
    BY <2>9 DEF StampFailure, TypeOK, RequestStates
  <2>10. CASE ErrorHandler(r)
    BY <2>10 DEF ErrorHandler, IdleRequest, TypeOK
  <2> QED BY <1>2, <2>2, <2>3, <2>4, <2>5, <2>6, <2>7, <2>8, <2>9, <2>10 DEF RequestStep
<1>3. CASE UNCHANGED req
  BY <1>3
<1>4. CASE ProberStep \/ Tick \/ UNCHANGED vars
  BY <1>3, <1>4 DEF ProberStep, Probe, ApplyProbe, Tick, vars
<1>5. ASSUME NEW o \in Origins, ChangeHealth(o) PROVE ScanInv'
  BY <1>3, <1>5 DEF ChangeHealth
<1> QED BY <1>1, <1>2, <1>4, <1>5 DEF Next

(***************************************************************************)
(* With clients that neither cancel nor send unreadable bodies, an origin  *)
(* that never fails is available to every request at every instant: no     *)
(* interleaving of the other origins' failures, retries and probes marks   *)
(* it.                                                                     *)
(***************************************************************************)
THEOREM HealthyOriginsServe ==
    ASSUME ~ClientFaults
    PROVE  Spec => []HealthyOriginAvailable
<1>1. Init => TypeOK /\ HealthyInv
  BY TypeInit, HealthyInit
<1>2. (TypeOK /\ HealthyInv) /\ [Next]_vars => (TypeOK /\ HealthyInv)'
  BY TypeNext, HealthyNext
<1>3. TypeOK /\ HealthyInv => HealthyOriginAvailable
  BY UnmarkedIsAvailable DEF HealthyInv, HealthyOriginAvailable
<1> QED BY <1>1, <1>2, <1>3, PTL DEF Spec

(***************************************************************************)
(* And then ServeHTTP never answers 502 without dialing while the service  *)
(* has a healthy origin, however many origins it has and wherever the      *)
(* round-robin counter stands: the scan cannot pass the healthy one.       *)
(***************************************************************************)
THEOREM NoSpuriousFastFail ==
    ASSUME ~ClientFaults
    PROVE  Spec => []NoFastFailWithGoodOrigin
<1> DEFINE IInv == TypeOK /\ HealthyInv /\ ScanInv
<1>1. Init => IInv
  BY TypeInit, HealthyInit
<1>2. IInv /\ [Next]_vars => IInv'
  BY TypeNext, HealthyNext, ScanNext
<1>3. IInv => NoFastFailWithGoodOrigin
  BY DEF ScanInv, NoFastFailWithGoodOrigin
<1> QED BY <1>1, <1>2, <1>3, PTL DEF Spec

-----------------------------------------------------------------------------
(* Admission *)

\* The time a scan or a fallback decides by is never ahead of the clock.
NowInv == \A r \in Requests : req[r].pc \in {"scan", "fallback"} => req[r].now <= clock

LEMMA NowInit == Init => NowInv
  BY DEF Init, NowInv, IdleRequest

LEMMA NowNext == TypeOK /\ NowInv /\ [Next]_vars => NowInv'
<1> SUFFICES ASSUME TypeOK, NowInv, [Next]_vars PROVE NowInv'
  OBVIOUS
<1> USE DEF NowInv
<1>1. ASSUME NEW r \in Requests, NEW m \in Methods, Enter(r, m) PROVE NowInv'
  BY <1>1 DEF Enter, TypeOK, IdleRequest
<1>2. ASSUME NEW r \in Requests, RequestStep(r) PROVE NowInv'
  <2>1. req[r] \in RequestStates /\ clock \in Nat
    BY DEF TypeOK
  <2>2. CASE ReadNow(r)
    BY <2>1, <2>2 DEF ReadNow, TypeOK, RequestStates
  <2>3. CASE Scan(r)
    BY <2>1, <2>3 DEF Scan, Forward, TypeOK, RequestStates
  <2>4. CASE Fallback(r)
    BY <2>1, <2>4 DEF Fallback, Forward, TypeOK, RequestStates
  <2>5. CASE FastFail(r) \/ ErrorHandler(r)
    BY <2>5 DEF FastFail, ErrorHandler, IdleRequest, TypeOK
  <2>6. CASE Send(r) \/ ClientFault(r) \/ Answer(r) \/ WakeUp(r) \/ StampFailure(r)
    BY <2>1, <2>6 DEF Send, ClientFault, Answer, WakeUp, StampFailure, TypeOK, RequestStates
  <2>7. ASSUME NEW k \in {"net", "other"}, OriginError(r, k) PROVE NowInv'
    BY <2>7 DEF OriginError, TypeOK, RequestStates
  <2>8. ASSUME NEW u \in BOOLEAN, ModifyResponse(r, u) PROVE NowInv'
    BY <2>8 DEF ModifyResponse, IdleRequest, TypeOK, RequestStates
  <2> QED BY <1>2, <2>2, <2>3, <2>4, <2>5, <2>6, <2>7, <2>8 DEF RequestStep
<1>3. CASE Tick
  <2>1. clock \in Nat /\ clock' = clock + 1 /\ UNCHANGED req
    BY <1>3 DEF Tick, TypeOK
  <2> QED BY <2>1 DEF TypeOK, RequestStates
<1>4. CASE ProberStep \/ UNCHANGED vars
  BY <1>4 DEF ProberStep, Probe, ApplyProbe, vars
<1>5. ASSUME NEW o \in Origins, ChangeHealth(o) PROVE NowInv'
  BY <1>5 DEF ChangeHealth
<1> QED BY <1>1, <1>2, <1>3, <1>4, <1>5 DEF Next

\* An old time errs on the safe side: a breaker open now was open then.
LEMMA OpenNowWasOpen ==
    ASSUME NEW s \in OriginStates, NEW now \in Nat, NEW t \in Nat, now <= t,
           (s.lastFailureAt = ZeroTime) <=> (s.consecutiveFailures = 0),
           BreakerOpen(s, t)
    PROVE  BreakerOpen(s, now) /\ ~Available(s, now)
<1>1. Tripped(s)
  BY DEF BreakerOpen
<1>2. s.lastFailureAt # ZeroTime
  BY <1>1, DurationAssumption DEF Tripped, OriginStates
<1>3. BreakerWindow(s) \in Nat /\ s.lastFailureAt \in Nat
  BY <1>1, <1>2, WindowType DEF OriginStates
<1>4. now - s.lastFailureAt <= BreakerWindow(s)
  BY <1>2, <1>3 DEF BreakerOpen, Sub
<1> QED BY <1>1, <1>2, <1>3, <1>4 DEF BreakerOpen, Available, Sub

(***************************************************************************)
(* No request is handed to an origin whose breaker is open at that moment: *)
(* neither the scan nor the fallback is misled by the time it read on      *)
(* entry, for every threshold, cooldown and interleaving of outcomes.      *)
(***************************************************************************)
THEOREM OpenBreakersAdmitNothing == Spec => NoAdmissionWhileOpen
<1> DEFINE Closed == \A r \in Requests :
                        ~HoldsOrigin(req[r]) /\ HoldsOrigin(req'[r]) =>
                            ~BreakerOpen(origins[req'[r].origin], clock)
           IInv == TypeOK /\ DatesInv /\ NowInv
<1>1. Init => IInv
  BY TypeInit, DatesInit, NowInit
<1>2. IInv /\ [Next]_vars => IInv'
  BY TypeNext, DatesNext, NowNext
<1>3. IInv /\ [Next]_vars => [Closed]_vars
  <2> SUFFICES ASSUME IInv, Next, NEW r \in Requests,
                      ~HoldsOrigin(req[r]), HoldsOrigin(req'[r])
               PROVE  ~BreakerOpen(origins[req'[r].origin], clock)
    BY DEF vars
  <2> DEFINE q == req[r]
  <2>1. q \in RequestStates /\ clock \in Nat
    BY DEF TypeOK
  <2>2. \A o \in Origins : BreakerOpen(origins[o], clock) /\ q.now <= clock =>
           BreakerOpen(origins[o], q.now) /\ ~Available(origins[o], q.now)
    BY <2>1, OpenNowWasOpen DEF TypeOK, DatesInv, FailureDateConsistent, RequestStates
  <2>3. CASE Scan(r)
    <3>1. q.now <= clock /\ Candidate(q) \in Origins
      BY <2>1, <2>3, RemainderIsOrigin DEF Scan, NowInv, Candidate, RequestStates
    <3>2. Available(origins[Candidate(q)], q.now) /\ req'[r].origin = Candidate(q)
      BY <2>1, <2>3 DEF Scan, Forward, HoldsOrigin, TypeOK, RequestStates
    <3> QED BY <2>2, <3>1, <3>2
  <2>4. CASE Fallback(r)
    <3>1. q.now <= clock /\ q.start % N \in Origins
      BY <2>1, <2>4, RemainderIsOrigin DEF Fallback, NowInv, RequestStates
    <3>2. ~BreakerOpen(origins[q.start % N], q.now) /\ req'[r].origin = q.start % N
      BY <2>1, <2>4 DEF Fallback, Forward, HoldsOrigin, TypeOK, RequestStates
    <3> QED BY <2>2, <3>1, <3>2
  <2>5. ASSUME NEW s \in Requests, NEW m \in Methods, Enter(s, m) PROVE FALSE
    BY <2>5 DEF Enter, TypeOK, IdleRequest, HoldsOrigin
  <2>6. ASSUME NEW s \in Requests, RequestStep(s), ~Scan(r), ~Fallback(r) PROVE FALSE
    <3>1. CASE s = r
      <4>1. ReadNow(r) \/ FastFail(r)
        BY <2>6, <3>1 DEF RequestStep, Send, ClientFault, Answer, WakeUp, OriginError,
                          ModifyResponse, StampFailure, ErrorHandler, HoldsOrigin
      <4> QED BY <4>1 DEF ReadNow, FastFail, IdleRequest, HoldsOrigin, TypeOK, RequestStates
    <3>2. CASE s # r
      BY <2>6, <3>2 DEF RequestStep, ReadNow, Scan, Fallback, FastFail, Send, ClientFault,
                        Answer, WakeUp, OriginError, ModifyResponse, StampFailure,
                        ErrorHandler, TypeOK
    <3> QED BY <3>1, <3>2
  <2>7. CASE ProberStep \/ Tick \/ \E o \in Origins : ChangeHealth(o)
    BY <2>7 DEF ProberStep, Probe, ApplyProbe, Tick, ChangeHealth
  <2> QED BY <2>3, <2>4, <2>5, <2>6, <2>7 DEF Next
<1> QED BY <1>1, <1>2, <1>3, PTL DEF Spec, NoAdmissionWhileOpen

-----------------------------------------------------------------------------
(* Round robin *)

\* Positions in use were taken from the counter, each by one request, and a
\* request whose position names a healthy origin is handed to that origin.
PositionInv ==
    /\ \A r \in Requests : req[r].start <= next
    /\ RoundRobin

LEMMA PositionInit == Init => PositionInv
  BY DEF Init, PositionInv, RoundRobin, IdleRequest, HoldsOrigin

LEMMA PositionNext ==
    ASSUME TypeOK, HealthyInv, ScanInv, PositionInv, [Next]_vars
    PROVE  PositionInv'
<1> USE DEF PositionInv, RoundRobin
<1>1. ASSUME NEW r \in Requests, NEW m \in Methods, Enter(r, m) PROVE PositionInv'
  BY <1>1 DEF Enter, TypeOK, RequestStates, IdleRequest, HoldsOrigin
<1>2. ASSUME NEW r \in Requests, RequestStep(r) PROVE PositionInv'
  <2>1. req[r] \in RequestStates /\ next \in Nat
    BY DEF TypeOK
  <2>2. CASE ReadNow(r)
    BY <2>1, <2>2 DEF ReadNow, TypeOK, RequestStates, HoldsOrigin
  <2>3. CASE Scan(r)
    <3>1. req[r].start % N \in Good => Candidate(req[r]) = req[r].start % N
      <4>1. req[r].start % N \in Good => req[r].i = 0
        <5>1. req[r].start \in Nat /\ req[r].i \in Nat
          BY <2>1 DEF RequestStates
        <5>2. \A j \in 0..(req[r].i - 1) : (req[r].start + j) % N \notin Good
          BY <2>3 DEF Scan, ScanInv
        <5>3. ASSUME req[r].i # 0 PROVE (req[r].start + 0) % N \notin Good
          <6> HIDE DEF PositionInv, RoundRobin
          <6>1. 0 \in 0..(req[r].i - 1)
            BY <5>1, <5>3
          <6> QED BY <5>2, <6>1, Zenon
        <5>4. req[r].start + 0 = req[r].start
          BY <5>1
        <5> QED BY <5>3, <5>4
      <4> QED BY <2>1, <4>1, ProxyAssumption DEF Candidate, RequestStates
    <3> QED BY <2>1, <2>3, <3>1 DEF Scan, Forward, TypeOK, RequestStates, HoldsOrigin
  <2>4. CASE Fallback(r)
    BY <2>1, <2>4 DEF Fallback, Forward, TypeOK, RequestStates, HoldsOrigin
  <2>5. CASE FastFail(r) \/ ErrorHandler(r)
    BY <2>1, <2>5 DEF FastFail, ErrorHandler, IdleRequest, TypeOK, HoldsOrigin
  <2>6. CASE Send(r) \/ ClientFault(r) \/ Answer(r) \/ WakeUp(r) \/ StampFailure(r)
    BY <2>1, <2>6 DEF Send, ClientFault, Answer, WakeUp, StampFailure, TypeOK, RequestStates,
                      HoldsOrigin
  <2>7. ASSUME NEW k \in {"net", "other"}, OriginError(r, k) PROVE PositionInv'
    BY <2>1, <2>7 DEF OriginError, TypeOK, RequestStates, HoldsOrigin
  <2>8. ASSUME NEW u \in BOOLEAN, ModifyResponse(r, u) PROVE PositionInv'
    BY <2>1, <2>8 DEF ModifyResponse, IdleRequest, TypeOK, RequestStates, HoldsOrigin
  <2> QED BY <1>2, <2>2, <2>3, <2>4, <2>5, <2>6, <2>7, <2>8 DEF RequestStep
<1>3. CASE UNCHANGED <<next, req>>
  BY <1>3 DEF HoldsOrigin
<1>4. CASE ProberStep \/ Tick \/ UNCHANGED vars
  BY <1>3, <1>4 DEF ProberStep, Probe, ApplyProbe, Tick, vars
<1>5. ASSUME NEW o \in Origins, ChangeHealth(o) PROVE PositionInv'
  BY <1>3, <1>5 DEF ChangeHealth
<1> QED BY <1>1, <1>2, <1>4, <1>5 DEF Next

(***************************************************************************)
(* Concurrent requests never share a round-robin position, and each one    *)
(* whose position names a healthy origin goes there, for any number of     *)
(* origins and requests.                                                   *)
(***************************************************************************)
THEOREM RequestsAreSpread ==
    ASSUME ~ClientFaults
    PROVE  Spec => []RoundRobin
<1> DEFINE IInv == TypeOK /\ HealthyInv /\ ScanInv /\ PositionInv
<1>1. Init => IInv
  BY TypeInit, HealthyInit, PositionInit
<1>2. IInv /\ [Next]_vars => IInv'
  BY TypeNext, HealthyNext, ScanNext, PositionNext
<1>3. IInv => RoundRobin
  BY DEF PositionInv
<1> QED BY <1>1, <1>2, <1>3, PTL DEF Spec
-----------------------------------------------------------------------------
(* Retries *)

\* A request is only put to sleep when it may be repeated and has attempts
\* left, and nothing is repeated but a request that may be.
AttemptInv ==
    \A r \in Requests :
        /\ req[r].pc = "backoff" => Retryable(req[r]) /\ req[r].attempt < MaxAttempts
        /\ req[r].attempt > 1 => Retryable(req[r]) /\ req[r].attempt <= MaxAttempts

LEMMA AttemptInit == Init => AttemptInv
  BY DEF Init, AttemptInv, IdleRequest

LEMMA AttemptNext == TypeOK /\ AttemptInv /\ [Next]_vars => AttemptInv'
<1> SUFFICES ASSUME TypeOK, AttemptInv, [Next]_vars PROVE AttemptInv'
  OBVIOUS
<1> USE DEF AttemptInv, Retryable
<1>1. ASSUME NEW r \in Requests, NEW m \in Methods, Enter(r, m) PROVE AttemptInv'
  BY <1>1 DEF Enter, TypeOK, IdleRequest
<1>2. ASSUME NEW r \in Requests, RequestStep(r) PROVE AttemptInv'
  <2>1. req[r] \in RequestStates /\ req[r].attempt \in Nat /\ MaxAttempts \in Int
    BY ProxyAssumption DEF TypeOK, RequestStates
  <2>2. CASE ReadNow(r) \/ Send(r) \/ ClientFault(r) \/ Answer(r) \/ StampFailure(r)
    BY <2>1, <2>2 DEF ReadNow, Send, ClientFault, Answer, StampFailure, TypeOK, RequestStates
  <2>3. CASE Scan(r)
    BY <2>1, <2>3 DEF Scan, Forward, TypeOK, RequestStates
  <2>4. CASE Fallback(r)
    BY <2>1, <2>4 DEF Fallback, Forward, TypeOK, RequestStates
  <2>5. CASE FastFail(r) \/ ErrorHandler(r)
    BY <2>5 DEF FastFail, ErrorHandler, IdleRequest, TypeOK
  <2>6. CASE WakeUp(r)
    BY <2>1, <2>6 DEF WakeUp, TypeOK, RequestStates
  <2>7. ASSUME NEW k \in {"net", "other"}, OriginError(r, k) PROVE AttemptInv'
    BY <2>1, <2>7 DEF OriginError, TypeOK, RequestStates
  <2>8. ASSUME NEW u \in BOOLEAN, ModifyResponse(r, u) PROVE AttemptInv'
    BY <2>1, <2>8 DEF ModifyResponse, IdleRequest, TypeOK, RequestStates
  <2> QED BY <1>2, <2>2, <2>3, <2>4, <2>5, <2>6, <2>7, <2>8 DEF RequestStep
<1>3. CASE UNCHANGED req
  BY <1>3
<1>4. CASE ProberStep \/ Tick \/ UNCHANGED vars
  BY <1>3, <1>4 DEF ProberStep, Probe, ApplyProbe, Tick, vars
<1>5. ASSUME NEW o \in Origins, ChangeHealth(o) PROVE AttemptInv'
  BY <1>3, <1>5 DEF ChangeHealth
<1> QED BY <1>1, <1>2, <1>4, <1>5 DEF Next

(***************************************************************************)
(* retryTransport makes at most MaxAttempts round trips for a request, and *)
(* one for a request it may not repeat, whatever the setting, zero and     *)
(* negative ones included, and however the origins fail.                   *)
(***************************************************************************)
THEOREM RetriesBounded == Spec => []RetryBound
<1>1. Init => TypeOK /\ AttemptInv
  BY TypeInit, AttemptInit
<1>2. (TypeOK /\ AttemptInv) /\ [Next]_vars => (TypeOK /\ AttemptInv)'
  BY TypeNext, AttemptNext
<1>3. TypeOK /\ AttemptInv => RetryBound
  <2> SUFFICES ASSUME TypeOK, AttemptInv, NEW r \in Requests
               PROVE  /\ req[r].attempt <= (IF MaxAttempts > 1 THEN MaxAttempts ELSE 1)
                      /\ req[r].method = "unsafe" /\ ~RetryUnsafe => req[r].attempt <= 1
    BY DEF RetryBound
  <2>1. req[r].attempt \in Nat /\ MaxAttempts \in Int
    BY ProxyAssumption DEF TypeOK, RequestStates
  <2> QED BY <2>1 DEF AttemptInv, Retryable
<1> QED BY <1>1, <1>2, <1>3, PTL DEF Spec
=============================================================================
