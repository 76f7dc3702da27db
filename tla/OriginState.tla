---------------------------- MODULE OriginState ----------------------------
(***************************************************************************)
(* One origin's health record and the decisions taken from it, from        *)
(* gateway/internal/proxy/origin.go.  Every method of originState runs     *)
(* under the record's own mutex, so each is one operator applied in one    *)
(* step by RoundRobinProxy.  Times and durations are integers in an        *)
(* arbitrary unit; time.Duration's width is MaxDuration.                   *)
(***************************************************************************)
EXTENDS Integers

CONSTANTS
    Cooldown,                 \* passive cooldown after a failure
    BreakerThreshold,         \* BreakerOptions.Threshold; <= 0 disables the breaker
    BreakerCooldown,          \* BreakerOptions.Cooldown
    maxBreakerCooldownShift,  \* 10 in the code
    MaxDuration               \* largest time.Duration (2^63 - 1 in the code)

ASSUME DurationAssumption ==
    /\ Cooldown \in Nat
    /\ BreakerThreshold \in Int
    /\ BreakerCooldown \in Nat
    /\ maxBreakerCooldownShift \in Nat
    /\ MaxDuration \in Nat
    /\ Cooldown < MaxDuration

\* The cap is there so that the longest cooldown is a time.Duration: with the
\* code's 10 this is any BreakerCooldown below 2^53 ns, some 104 days.
ASSUME NoOverflowAssumption ==
    \A s \in 0..maxBreakerCooldownShift :
        /\ 2^s \in Nat
        /\ BreakerCooldown * 2^s \in Nat
        /\ BreakerCooldown * 2^s < MaxDuration

\* time.Time{}: before every instant the clock can show.
ZeroTime == -1

\* now.Sub(t): saturates at the largest Duration for the zero time.
Sub(now, t) == IF t = ZeroTime THEN MaxDuration ELSE now - t

\* A Duration keeps its width: values wrap into -(MaxDuration+1)..MaxDuration.
WrapDuration(d) == ((d + MaxDuration + 1) % (2 * (MaxDuration + 1))) - (MaxDuration + 1)

OriginStates == [lastFailureAt : {ZeroTime} \cup Nat,
                 forcedDown : BOOLEAN,
                 consecutiveFailures : Nat]

\* &originState{}
FreshOrigin == [lastFailureAt |-> ZeroTime, forcedDown |-> FALSE, consecutiveFailures |-> 0]

-----------------------------------------------------------------------------
(***************************************************************************)
(* Plausible faults of the operators below, used to show that the          *)
(* properties notice them.                                                 *)
(***************************************************************************)
UncappedCooldown(base, shift) == WrapDuration(base * 2^shift)
StrictBreakerOpen(s, now) ==
    /\ BreakerThreshold > 0
    /\ s.consecutiveFailures >= BreakerThreshold
    /\ Sub(now, s.lastFailureAt) < BreakerCooldown
CountOnlyFailure(s, now) == [s EXCEPT !.consecutiveFailures = @ + 1]

-----------------------------------------------------------------------------
EscalatedCooldown(base, shift) ==
    LET capped == IF shift > maxBreakerCooldownShift THEN maxBreakerCooldownShift ELSE shift
    IN  WrapDuration(base * 2^capped)

Tripped(s) == BreakerThreshold > 0 /\ s.consecutiveFailures >= BreakerThreshold

BreakerWindow(s) == EscalatedCooldown(BreakerCooldown, s.consecutiveFailures - BreakerThreshold)

Available(s, now) ==
    /\ ~s.forcedDown
    /\ \/ s.lastFailureAt = ZeroTime
       \/ Sub(now, s.lastFailureAt) > (IF Tripped(s) THEN BreakerWindow(s) ELSE Cooldown)

BreakerOpen(s, now) == Tripped(s) /\ Sub(now, s.lastFailureAt) <= BreakerWindow(s)

RecordFailure(s, now) ==
    [s EXCEPT !.lastFailureAt = now, !.consecutiveFailures = @ + 1]

RecordSuccess(s) ==
    [s EXCEPT !.consecutiveFailures = 0, !.lastFailureAt = ZeroTime]

SetForcedDown(s, down) == [s EXCEPT !.forcedDown = down]
=============================================================================
