---------------------------- MODULE RateLimiter ----------------------------
(***************************************************************************)
(* The rate_limiting plugin over its in-memory store (rate_limiting.go).   *)
(* Wrap reads the time before allow takes the store's mutex, so requests   *)
(* may reach the store out of the order of their times; allow itself runs  *)
(* under the mutex and is one step.  Every sweepEvery-th call drops the    *)
(* visitors that have been idle for longer than staleAfter.                *)
(*                                                                         *)
(* bucket, newest and ledger are history: the buckets of a store that      *)
(* never sweeps (TokenBucket) and the requests the code really admitted.   *)
(***************************************************************************)
EXTENDS TokenBucket

CONSTANTS
    Requests,     \* slots for requests in flight
    staleAfter,   \* 10 minutes in the code
    sweepEvery,   \* 1000 in the code
    MaxLag,       \* bound: how long a request waits for the mutex
    MaxCalls      \* bound: calls of allow, below uint64's 2^64

ASSUME StoreAssumption ==
    /\ staleAfter \in Nat
    /\ sweepEvery \in Nat \ {0}
    /\ MaxLag \in Nat
    /\ MaxCalls \in Nat

VARIABLES
    clock,     \* p.now()
    calls,     \* memoryStore.calls
    visitors,  \* memoryStore.visitors: client -> [tokens, lastSeen], partial
    waiting    \* requests in Wrap that have read the time

vars == <<bucketVars, clock, calls, visitors, waiting>>

Waiting == [slot : Requests, key : Keys, now : 0..MaxTime]

\* The type invariant.  No client ever holds more than a burst.
TypeOK ==
    /\ bucket \in [Keys -> Buckets]
    /\ newest \in [Keys -> Nat]
    /\ ledger \in [Keys -> Seq(Nat)]
    /\ clock \in 0..MaxTime
    /\ calls \in Nat
    /\ DOMAIN visitors \subseteq Keys
    /\ \A k \in DOMAIN visitors : visitors[k] \in Buckets /\ visitors[k].tokens <= Burst
    /\ waiting \subseteq Waiting

\* newMemoryStore
Init ==
    /\ BucketInit
    /\ clock = 0
    /\ calls = 0
    /\ visitors = << >>
    /\ waiting = {}

-----------------------------------------------------------------------------
\* A plausible fault: every idle visitor is dropped.
SweepIdle(vs, now) == [k \in {x \in DOMAIN vs : vs[x].lastSeen >= now} |-> vs[k]]

\* Drops every visitor idle for longer than staleAfter.
sweepLocked(vs, now) ==
    [k \in {x \in DOMAIN vs : ~(now - vs[x].lastSeen > staleAfter)} |-> vs[k]]

\* A plausible fault: only the first sweepEvery calls are followed by a sweep.
SweptOnce(now) ==
    IF calls + 1 = sweepEvery THEN sweepLocked(visitors, now) ELSE visitors

\* The visitors an allow works on.
Swept(now) ==
    IF (calls + 1) % sweepEvery = 0 THEN sweepLocked(visitors, now) ELSE visitors

\* p.now() in Wrap, before the store is called.
ReadNow(r, k) ==
    /\ \A w \in waiting : w.slot # r
    /\ calls < MaxCalls
    /\ waiting' = waiting \cup {[slot |-> r, key |-> k, now |-> clock]}
    /\ UNCHANGED <<bucketVars, clock, calls, visitors>>

\* memoryStore.allow: a client without a visitor is let through on a full
\* bucket, any other as its refilled bucket says.
Allow(w) ==
    LET k == w.key
        now == w.now
        vs == Swept(now)
        b == Refill(vs[k], now)
        new == [tokens |-> Burst - Scale, lastSeen |-> now]
    IN  /\ calls' = calls + 1
        /\ \/ /\ k \notin DOMAIN vs
              /\ visitors' = [x \in DOMAIN vs \cup {k} |-> IF x = k THEN new ELSE vs[x]]
              /\ Record(k, now, TRUE)
           \/ /\ k \in DOMAIN vs
              /\ visitors' = [vs EXCEPT ![k] = Spend(b)]
              /\ Record(k, now, HasToken(b))
        /\ bucket' = [bucket EXCEPT ![k] = Spend(Refill(@, now))]
        /\ waiting' = waiting \ {w}
        /\ UNCHANGED clock

\* Time passes, but no request waits for the mutex longer than MaxLag.
Tick ==
    /\ clock < MaxTime
    /\ \A w \in waiting : clock < w.now + MaxLag
    /\ clock' = clock + 1
    /\ UNCHANGED <<bucketVars, calls, visitors, waiting>>

Next ==
    \/ \E r \in Requests, k \in Keys : ReadNow(r, k)
    \/ \E w \in waiting : Allow(w)
    \/ Tick

Spec == Init /\ [][Next]_vars

-----------------------------------------------------------------------------
(***************************************************************************)
(* The sweep is invisible: every request gets the answer of a store that   *)
(* never forgets a client, that is, RateLimiter implements TokenBucket,    *)
(* provided a bucket refills in the time that a visitor is kept.           *)
(***************************************************************************)
ImplementsTokenBucket == BucketSpec
=============================================================================
