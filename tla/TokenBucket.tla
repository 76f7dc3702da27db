---------------------------- MODULE TokenBucket ----------------------------
(***************************************************************************)
(* What the rate_limiting plugin promises in its memory mode: one          *)
(* continuously refilled token bucket per client, which is never           *)
(* forgotten.  RateLimiter models the store that implements it.            *)
(*                                                                         *)
(* The code computes in float64 seconds and tokens; here a token is Scale  *)
(* units and the unit of time is the second, so that fractional rates are  *)
(* integers.  The rounding of float64 is left out.                         *)
(***************************************************************************)
EXTENDS Integers, Sequences

CONSTANTS
    Keys,         \* client addresses
    Scale,        \* units in one token
    Rate,         \* units per second: requests_per_second
    BurstOption,  \* config.burst in units, 0 when it is absent
    MaxTime       \* bound: last instant of the clock

\* newRateLimiting's checks: the rate is positive, a burst is at least 1.
ASSUME OptionsAssumption ==
    /\ Scale \in Nat \ {0}
    /\ Rate \in Nat \ {0}
    /\ BurstOption \in Nat
    /\ BurstOption # 0 => BurstOption >= Scale
    /\ MaxTime \in Nat

\* An absent burst defaults to requests_per_second.
Burst == IF BurstOption = 0 THEN Rate ELSE BurstOption

VARIABLES
    bucket,   \* client -> [tokens, lastSeen]
    newest,   \* client -> the latest time among its requests
    ledger    \* client -> for each admitted request, newest at that point

bucketVars == <<bucket, newest, ledger>>

Buckets == [tokens : Int, lastSeen : Nat]

\* elapsed * requestsPerSecond
Earned(elapsed) == Rate * elapsed

\* What a bucket would hold at a given time if it had no limit.
Level(b, now) == b.tokens + Earned(now - b.lastSeen)

(* Plausible faults of the operators below. *)
UncappedRefill(b, now) == [tokens |-> Level(b, now), lastSeen |-> now]
AnyToken(b) == b.tokens >= 0
ChargedSpend(b) == [b EXCEPT !.tokens = @ - Scale]

\* Tokens for the time since the last request, at most a burst of them.  A
\* time that lies before lastSeen takes tokens away again.
Refill(b, now) ==
    [tokens |-> IF Level(b, now) > Burst THEN Burst ELSE Level(b, now), lastSeen |-> now]

HasToken(b) == b.tokens >= Scale

\* A request takes a token if there is one and nothing otherwise.
Spend(b) == IF HasToken(b) THEN [b EXCEPT !.tokens = @ - Scale] ELSE b

\* A request of client k with the time now is decided, admitted or not.
Record(k, now, admitted) ==
    /\ newest' = [newest EXCEPT ![k] = IF now > @ THEN now ELSE @]
    /\ ledger' = [ledger EXCEPT ![k] = IF admitted THEN Append(@, newest'[k]) ELSE @]

Take(k, now) ==
    LET b == Refill(bucket[k], now)
    IN  /\ bucket' = [bucket EXCEPT ![k] = Spend(b)]
        /\ Record(k, now, HasToken(b))

BucketInit ==
    /\ bucket = [k \in Keys |-> [tokens |-> Burst, lastSeen |-> 0]]
    /\ newest = [k \in Keys |-> 0]
    /\ ledger = [k \in Keys |-> << >>]

BucketNext == \E k \in Keys : \E now \in 0..MaxTime : Take(k, now)

BucketSpec == BucketInit /\ [][BucketNext]_bucketVars

-----------------------------------------------------------------------------
(***************************************************************************)
(* README: rate_limiting "blocks requests once a client IP exceeds a       *)
(* configured requests-per-second rate, allowing short bursts".  Between   *)
(* any two admitted requests of a client, both included, there are at most *)
(* a burst plus what the rate earns in the time between them, also when    *)
(* requests reach the store out of the order of the times they read.       *)
(***************************************************************************)
RateBound ==
    \A k \in Keys : \A i, j \in DOMAIN ledger[k] :
        i <= j => Scale * (j - i + 1) <= Burst + Earned(ledger[k][j] - ledger[k][i])

(***************************************************************************)
(* The same promise from the client's side: one that stays under the rate  *)
(* is not blocked.  A request that comes at least one token's time after   *)
(* every earlier request of its client is admitted, whatever was rejected  *)
(* or reordered before.                                                    *)
(***************************************************************************)
SlowClientAdmitted ==
    [][\A k \in Keys :
          newest'[k] > newest[k] /\ Earned(newest'[k] - newest[k]) >= Scale
              => ledger'[k] # ledger[k]]_bucketVars
=============================================================================
