------------------------- MODULE RateLimiter_proofs -------------------------
(***************************************************************************)
(* Proofs about the token bucket and about the store that implements it,   *)
(* for any number of clients and requests in flight and for every rate,    *)
(* burst, sweep period and idle time.                                      *)
(***************************************************************************)
EXTENDS RateLimiter, TLAPS

-----------------------------------------------------------------------------
(* Arithmetic *)

\* Tokens are earned linearly, and never lost as time passes.
LEMMA EarnedType == \A d \in Int : Earned(d) \in Int
  BY OptionsAssumption DEF Earned

LEMMA EarnedBetween == \A d, e \in Int : Earned(d - e) = Earned(d) - Earned(e)
  BY OptionsAssumption DEF Earned

LEMMA EarnedGrows == \A d, e \in Int : d <= e => Earned(d) <= Earned(e)
<1> SUFFICES ASSUME NEW d \in Int, NEW e \in Int, d <= e PROVE Rate * d <= Rate * e
  BY DEF Earned
<1>1. Rate * (e - d) >= 0
  BY OptionsAssumption
<1> QED BY <1>1, OptionsAssumption

LEMMA EarnedSplit ==
    ASSUME NEW m \in Int, NEW n \in Int, NEW e \in Int
    PROVE  /\ Earned(m - e) = Earned(n - e) + Earned(m - n)
           /\ Earned(n - e) \in Int /\ Earned(m - n) \in Int
<1>1. /\ Earned(m - e) = Earned(m) - Earned(e) /\ Earned(n - e) = Earned(n) - Earned(e)
      /\ Earned(m - n) = Earned(m) - Earned(n)
  BY EarnedBetween
<1>2. Earned(m) \in Int /\ Earned(n) \in Int /\ Earned(e) \in Int
  BY EarnedType
<1> QED BY <1>1, <1>2

\* One more request costs one more token.
LEMMA OneMoreToken == \A d \in Int : Scale * d \in Int /\ Scale * (d + 1) = Scale * d + Scale
  BY OptionsAssumption

\* A ledger and the ledger with one more entry.
LEMMA OneMoreEntry ==
    ASSUME NEW s \in Seq(Nat), NEW x \in Nat
    PROVE  /\ Len(s) \in Nat /\ DOMAIN s = 1..Len(s) /\ \A i \in DOMAIN s : s[i] \in Nat
           /\ Len(Append(s, x)) = Len(s) + 1 /\ DOMAIN Append(s, x) = 1..(Len(s) + 1)
           /\ \A i \in DOMAIN s : Append(s, x)[i] = s[i]
           /\ Append(s, x)[Len(s) + 1] = x
  OBVIOUS

LEMMA BurstType == Burst \in Nat \ {0} /\ Scale \in Nat \ {0}
  BY OptionsAssumption DEF Burst

\* A bucket's level in terms of what is earned from time zero on.
LEMMA LevelIs ==
    ASSUME NEW b \in Buckets, NEW t \in Int
    PROVE  /\ Level(b, t) = b.tokens + Earned(t) - Earned(b.lastSeen)
           /\ Level(b, t) \in Int
           /\ b.tokens \in Int /\ Earned(t) \in Int /\ Earned(b.lastSeen) \in Int
<1>1. b.tokens \in Int /\ b.lastSeen \in Int
  BY DEF Buckets
<1>2. Earned(t - b.lastSeen) = Earned(t) - Earned(b.lastSeen)
  BY <1>1, EarnedBetween
<1>3. Earned(t) \in Int /\ Earned(b.lastSeen) \in Int
  BY <1>1, EarnedType
<1> QED BY <1>1, <1>2, <1>3 DEF Level

\* The later of two times.
Later(n, now) == IF now > n THEN now ELSE n

\* A refill, seen from the latest time known before and after it: the level
\* rises by no more than was earned and stays within a burst, a token in the
\* bucket counts in full even when the request's time is an old one, and a
\* client that waited for a token has it.
LEMMA RefillLevel ==
    ASSUME Scale <= Burst, NEW b \in Buckets, NEW n \in Nat, NEW now \in Nat,
           Level(b, n) \in 0..Burst
    PROVE  /\ Refill(b, now) \in Buckets
           /\ Level(Refill(b, now), Later(n, now)) \in 0..Burst
           /\ Level(Refill(b, now), Later(n, now)) <= Level(b, n) + Earned(Later(n, now) - n)
           /\ HasToken(Refill(b, now)) => Level(Refill(b, now), Later(n, now)) >= Scale
           /\ now > n /\ Earned(now - n) >= Scale => HasToken(Refill(b, now))
<1> DEFINE c == Refill(b, now)
           m == Later(n, now)
<1>1. /\ Level(b, now) = b.tokens + Earned(now) - Earned(b.lastSeen)
      /\ Level(b, n) = b.tokens + Earned(n) - Earned(b.lastSeen)
      /\ {b.tokens, Earned(now), Earned(n), Earned(b.lastSeen)} \subseteq Int
  BY LevelIs
<1>2. c.tokens = (IF Level(b, now) > Burst THEN Burst ELSE Level(b, now)) /\ c.lastSeen = now
  BY DEF Refill
<1>3. c \in Buckets
  BY <1>1, BurstType DEF Refill, Buckets
<1>4. m \in Nat /\ (m = now \/ m = n) /\ m >= now /\ m >= n
  BY DEF Later
<1>5. Level(c, m) = c.tokens + Earned(m) - Earned(now) /\ Earned(m) \in Int
  BY <1>2, <1>3, <1>4, LevelIs
<1>6. Earned(m - n) = Earned(m) - Earned(n) /\ Earned(now - n) = Earned(now) - Earned(n)
  BY <1>4, EarnedBetween
<1>7. Earned(m) >= Earned(n) /\ Earned(m) >= Earned(now)
  BY <1>4, EarnedGrows
<1> HIDE DEF c, m
<1>8. CASE m = now
  BY <1>1, <1>2, <1>3, <1>5, <1>6, <1>7, <1>8, BurstType DEF HasToken, c, m
<1>9. CASE m = n /\ ~(now > n)
  BY <1>1, <1>2, <1>3, <1>5, <1>6, <1>7, <1>9, BurstType DEF HasToken, c, m
<1> QED BY <1>8, <1>9 DEF m, Later

\* Taking a token lowers the level by one token, at any time.
LEMMA SpendLevel ==
    ASSUME NEW b \in Buckets, NEW t \in Int
    PROVE  /\ Spend(b) \in Buckets
           /\ Level(Spend(b), t) = IF HasToken(b) THEN Level(b, t) - Scale ELSE Level(b, t)
<1>1. CASE HasToken(b)
  <2>1. Spend(b).tokens = b.tokens - Scale /\ Spend(b).lastSeen = b.lastSeen /\ Spend(b) \in Buckets
    BY <1>1, BurstType DEF Spend, Buckets
  <2>2. Earned(t - b.lastSeen) \in Int /\ b.tokens \in Int
    BY EarnedType DEF Buckets
  <2> QED BY <1>1, <2>1, <2>2, BurstType DEF Level
<1>2. CASE ~HasToken(b)
  BY <1>2 DEF Spend
<1> QED BY <1>1, <1>2

-----------------------------------------------------------------------------
(* The token bucket *)

BucketType ==
    /\ bucket \in [Keys -> Buckets]
    /\ newest \in [Keys -> Nat]
    /\ ledger \in [Keys -> Seq(Nat)]

\* Looked at from the latest time its client's requests carried, a bucket
\* holds neither less than nothing nor more than a burst.  Its tokens alone
\* may be negative, when the last request carried an old time.
LevelInv == \A k \in Keys : Level(bucket[k], newest[k]) \in 0..Burst

\* The requests admitted from the i-th on, and what is left in the bucket,
\* were paid for by a burst and by what was earned since the i-th.
PaidFor(k, i) ==
    Scale * (Len(ledger[k]) - i + 1) + Level(bucket[k], newest[k])
        <= Burst + Earned(newest[k] - ledger[k][i])

LedgerInv ==
    /\ \A k \in Keys : \A i \in DOMAIN ledger[k] : PaidFor(k, i)
    /\ RateBound

BucketInv == BucketType /\ LevelInv /\ LedgerInv

\* What one request does to the state of its client.
LEMMA TakeEffect ==
    ASSUME Scale <= Burst, BucketType, LevelInv,
           NEW k \in Keys, NEW now \in Nat, Take(k, now)
    PROVE  LET m == Later(newest[k], now)
               c == Refill(bucket[k], now)
           IN  /\ c \in Buckets /\ m \in Nat /\ m >= newest[k]
               /\ bucket' = [bucket EXCEPT ![k] = Spend(c)] /\ Spend(c) \in Buckets
               /\ newest' = [newest EXCEPT ![k] = m]
               /\ ledger' = [ledger EXCEPT ![k] = IF HasToken(c) THEN Append(@, m) ELSE @]
               /\ Level(Spend(c), m) \in 0..Burst
               /\ HasToken(c) => Level(Spend(c), m) + Scale <= Burst
               /\ Level(Spend(c), m) + (IF HasToken(c) THEN Scale ELSE 0)
                     <= Level(bucket[k], newest[k]) + Earned(m - newest[k])
               /\ now > newest[k] /\ Earned(now - newest[k]) >= Scale => HasToken(c)
<1> DEFINE m == Later(newest[k], now)
           c == Refill(bucket[k], now)
<1>1. bucket[k] \in Buckets /\ newest[k] \in Nat /\ Level(bucket[k], newest[k]) \in 0..Burst
  BY DEF BucketType, LevelInv
<1>2. m \in Nat /\ m >= newest[k]
  BY <1>1 DEF Later
<1>3. bucket' = [bucket EXCEPT ![k] = Spend(c)] /\ newest' = [newest EXCEPT ![k] = m]
  BY DEF Take, Record, Later
<1>4. newest'[k] = m
  BY <1>3 DEF BucketType
<1>5. ledger' = [ledger EXCEPT ![k] = IF HasToken(c) THEN Append(@, m) ELSE @]
  <2>1. ledger' = [ledger EXCEPT ![k] = IF HasToken(c) THEN Append(@, newest'[k]) ELSE @]
    BY DEF Take, Record
  <2> HIDE DEF m, c
  <2> QED BY <1>4, <2>1
<1>6. /\ c \in Buckets
      /\ Level(c, m) \in 0..Burst
      /\ Level(c, m) <= Level(bucket[k], newest[k]) + Earned(m - newest[k])
      /\ HasToken(c) => Level(c, m) >= Scale
      /\ now > newest[k] /\ Earned(now - newest[k]) >= Scale => HasToken(c)
  BY <1>1, RefillLevel
<1>7. /\ Spend(c) \in Buckets
      /\ Level(Spend(c), m) = IF HasToken(c) THEN Level(c, m) - Scale ELSE Level(c, m)
  BY <1>2, <1>6, SpendLevel
<1>8. Earned(m - newest[k]) \in Int
  BY <1>1, <1>2, EarnedType
<1> HIDE DEF m, c
<1>9. /\ Level(Spend(c), m) \in 0..Burst
      /\ HasToken(c) => Level(Spend(c), m) + Scale <= Burst
      /\ Level(Spend(c), m) + (IF HasToken(c) THEN Scale ELSE 0)
            <= Level(bucket[k], newest[k]) + Earned(m - newest[k])
  BY <1>1, <1>6, <1>7, <1>8, BurstType
<1> QED BY <1>2, <1>3, <1>5, <1>6, <1>7, <1>9 DEF m, c

LEMMA BucketInitially == ASSUME BucketInit PROVE BucketInv
<1>1. Burst \in Nat /\ Earned(0) = 0
  BY BurstType, OptionsAssumption DEF Earned
<1>2. BucketType
  BY <1>1 DEF BucketInit, BucketType, Buckets
<1>3. LevelInv
  <2> SUFFICES ASSUME NEW k \in Keys PROVE Level(bucket[k], newest[k]) \in 0..Burst
    BY DEF LevelInv
  <2>1. bucket[k].tokens = Burst /\ bucket[k].lastSeen = 0 /\ newest[k] = 0
    BY DEF BucketInit
  <2> QED BY <1>1, <2>1 DEF Level
<1>4. LedgerInv
  BY DEF BucketInit, LedgerInv, RateBound
<1> QED BY <1>2, <1>3, <1>4 DEF BucketInv

LEMMA TakeKeepsInv ==
    ASSUME Scale <= Burst, BucketInv, NEW k \in Keys, NEW now \in Nat, Take(k, now)
    PROVE  BucketInv'
<1> DEFINE m == Later(newest[k], now)
           c == Refill(bucket[k], now)
           n == newest[k]
           L == ledger[k]
<1>1. /\ c \in Buckets /\ m \in Nat /\ m >= n
      /\ bucket' = [bucket EXCEPT ![k] = Spend(c)] /\ Spend(c) \in Buckets
      /\ newest' = [newest EXCEPT ![k] = m]
      /\ ledger' = [ledger EXCEPT ![k] = IF HasToken(c) THEN Append(@, m) ELSE @]
      /\ Level(Spend(c), m) \in 0..Burst
      /\ HasToken(c) => Level(Spend(c), m) + Scale <= Burst
      /\ Level(Spend(c), m) + (IF HasToken(c) THEN Scale ELSE 0) <= Level(bucket[k], n) + Earned(m - n)
  BY TakeEffect DEF BucketInv
<1>2. bucket[k] \in Buckets /\ n \in Nat /\ L \in Seq(Nat) /\ Level(bucket[k], n) \in 0..Burst
  BY DEF BucketInv, BucketType, LevelInv
<1> HIDE DEF m, c
<1>3. BucketType'
  BY <1>1 DEF BucketInv, BucketType
<1>4. LevelInv'
  BY <1>1 DEF BucketInv, BucketType, LevelInv, Level
<1>5. /\ bucket'[k] = Spend(c) /\ newest'[k] = m
      /\ ledger'[k] = IF HasToken(c) THEN Append(L, m) ELSE L
      /\ \A j \in Keys \ {k} : bucket'[j] = bucket[j] /\ newest'[j] = newest[j] /\ ledger'[j] = ledger[j]
  BY <1>1 DEF BucketInv, BucketType
<1>9. m \in Nat
  BY <1>1
<1>6. \A i \in DOMAIN ledger'[k] : PaidFor(k, i)'
  <2> SUFFICES ASSUME NEW i \in DOMAIN ledger'[k] PROVE PaidFor(k, i)'
    OBVIOUS
  <2> DEFINE lv == Level(Spend(c), m)
             old == Level(bucket[k], n)
  <2>0. lv \in Int /\ old \in Int /\ Level(bucket[k], newest[k])' = lv
    BY <1>1, <1>2, <1>5 DEF Level
  <2> HIDE DEF lv, old
  <2>1. CASE i \in DOMAIN L
    <3> DEFINE e == L[i]
               d == Len(L) - i + 1
    <3>1. i \in Int /\ e \in Nat /\ Len(L) \in Nat /\ d \in Int
      BY <1>2, <2>1, OneMoreEntry
    <3>2. Scale * d + old <= Burst + Earned(n - e)
      <4>1. PaidFor(k, i)
        BY <2>1 DEF BucketInv, LedgerInv
      <4> QED BY <4>1 DEF PaidFor, old
    <3>3. /\ Earned(m - e) = Earned(n - e) + Earned(m - n)
          /\ Earned(n - e) \in Int /\ Earned(m - n) \in Int
      <4>1. m \in Int /\ n \in Int /\ e \in Int
        BY <1>2, <1>9, <3>1
      <4> HIDE DEF n, e
      <4> QED BY <4>1, EarnedSplit, Zenon
    <3>4. lv + (IF HasToken(c) THEN Scale ELSE 0) <= old + Earned(m - n)
      BY <1>1 DEF lv, old
    <3>5. Scale * d \in Int /\ Scale * (d + 1) = Scale * d + Scale
      BY <3>1, OneMoreToken
    <3>6. CASE HasToken(c)
      <4>1. ledger'[k][i] = e /\ Len(ledger'[k]) = Len(L) + 1
        BY <1>2, <1>5, <1>9, <2>1, <3>6, OneMoreEntry
      <4>2. Len(ledger'[k]) - i + 1 = d + 1
        BY <3>1, <4>1
      <4> HIDE DEF d, e
      <4>3. Scale * (d + 1) + lv <= Burst + Earned(m - e)
        BY <2>0, <3>2, <3>3, <3>4, <3>5, <3>6, BurstType
      <4> QED BY <1>5, <2>0, <4>1, <4>2, <4>3 DEF PaidFor
    <3>7. CASE ~HasToken(c)
      <4>1. ledger'[k] = L /\ Len(ledger'[k]) - i + 1 = d
        BY <1>5, <3>7
      <4> HIDE DEF d
      <4>2. Scale * d + lv <= Burst + Earned(m - e)
        <5> HIDE DEF e
        <5> QED BY <2>0, <3>2, <3>3, <3>4, <3>5, <3>7, BurstType
      <4> QED BY <1>5, <2>0, <4>1, <4>2 DEF PaidFor
    <3> QED BY <3>6, <3>7
  <2>2. CASE i \notin DOMAIN L
    <3>1. HasToken(c) /\ i = Len(L) + 1 /\ Len(ledger'[k]) = i /\ ledger'[k][i] = m
      BY <1>1, <1>2, <1>5, <2>2
    <3>2. Len(ledger'[k]) - i + 1 = 1 /\ m - m = 0 /\ Earned(0) = 0
      BY <1>1, <1>2, <3>1, OptionsAssumption DEF Earned
    <3>3. Scale + lv <= Burst
      BY <1>1, <2>0, <3>1, BurstType DEF lv
    <3>4. Scale * (Len(ledger'[k]) - i + 1) = Scale
      BY <3>2, BurstType
    <3> QED BY <1>5, <2>0, <3>1, <3>2, <3>3, <3>4, BurstType DEF PaidFor
  <2> QED BY <2>1, <2>2
<1>7. \A i, j \in DOMAIN ledger'[k] : i <= j =>
         Scale * (j - i + 1) <= Burst + Earned(ledger'[k][j] - ledger'[k][i])
  <2> SUFFICES ASSUME NEW i \in DOMAIN ledger'[k], NEW j \in DOMAIN ledger'[k], i <= j
               PROVE  Scale * (j - i + 1) <= Burst + Earned(ledger'[k][j] - ledger'[k][i])
    OBVIOUS
  <2>1. CASE j \in DOMAIN L
    <3>1. i \in DOMAIN L /\ ledger'[k][i] = L[i] /\ ledger'[k][j] = L[j]
      BY <1>1, <1>2, <1>5, <2>1
    <3> QED BY <2>1, <3>1 DEF BucketInv, LedgerInv, RateBound
  <2>2. CASE j \notin DOMAIN L
    <3>1. j = Len(ledger'[k]) /\ ledger'[k][j] = m
      BY <1>1, <1>2, <1>5, <2>2
    <3>2. Scale * (j - i + 1) + Level(bucket'[k], m) <= Burst + Earned(m - ledger'[k][i])
      BY <1>5, <1>6, <3>1 DEF PaidFor, Level
    <3>3. ledger'[k] \in Seq(Nat) /\ Level(bucket'[k], m) \in 0..Burst
      BY <1>1, <1>3, <1>5 DEF BucketType
    <3>4. i \in Int /\ j \in Int /\ ledger'[k][i] \in Nat
      BY <3>3
    <3>5. Earned(m - ledger'[k][i]) \in Int
      BY <1>9, <3>4, EarnedType
    <3>6. j - i + 1 \in Int /\ Scale * (j - i + 1) \in Int
      BY <3>4, OneMoreToken
    <3> QED BY <3>1, <3>2, <3>3, <3>5, <3>6, BurstType
  <2> QED BY <2>1, <2>2
<1>8. LedgerInv'
  <2>1. \A j \in Keys : \A i \in DOMAIN ledger'[j] : PaidFor(j, i)'
    BY <1>5, <1>6 DEF BucketInv, LedgerInv, PaidFor, Level
  <2>2. RateBound'
    BY <1>5, <1>7 DEF BucketInv, LedgerInv, RateBound
  <2> QED BY <2>1, <2>2 DEF LedgerInv
<1> QED BY <1>3, <1>4, <1>8 DEF BucketInv

LEMMA BucketStep ==
    ASSUME Scale <= Burst
    PROVE  BucketInv /\ [BucketNext]_bucketVars => BucketInv'
<1> SUFFICES ASSUME BucketInv, [BucketNext]_bucketVars PROVE BucketInv'
  OBVIOUS
<1>1. ASSUME NEW k \in Keys, NEW now \in 0..MaxTime, Take(k, now) PROVE BucketInv'
  <2>1. now \in Nat
    BY OptionsAssumption
  <2> QED BY <1>1, <2>1, TakeKeepsInv
<1>2. CASE UNCHANGED bucketVars
  BY <1>2 DEF bucketVars, BucketInv, BucketType, LevelInv, LedgerInv, PaidFor, RateBound, Level
<1> QED BY <1>1, <1>2 DEF BucketNext

(***************************************************************************)
(* A token bucket enforces its rate: between any two admitted requests of  *)
(* a client there are at most a burst plus what the rate earned between    *)
(* them, in whatever order the requests' times arrive.                     *)
(***************************************************************************)
THEOREM BucketBoundsRate ==
    ASSUME Scale <= Burst
    PROVE  BucketSpec => []RateBound
<1>1. BucketInit => BucketInv
  BY BucketInitially
<1>2. BucketInv /\ [BucketNext]_bucketVars => BucketInv'
  BY BucketStep
<1>3. BucketInv => RateBound
  BY DEF BucketInv, LedgerInv
<1> QED BY <1>1, <1>2, <1>3, PTL DEF BucketSpec

(***************************************************************************)
(* A token bucket of at least one token admits every request that comes    *)
(* one token's time after all earlier requests of its client.              *)
(***************************************************************************)
THEOREM BucketAdmitsSlowClients ==
    ASSUME Scale <= Burst
    PROVE  BucketSpec => SlowClientAdmitted
<1> DEFINE Admits == \A k \in Keys :
               newest'[k] > newest[k] /\ Earned(newest'[k] - newest[k]) >= Scale
                   => ledger'[k] # ledger[k]
<1>1. BucketInit => BucketInv
  BY BucketInitially
<1>2. BucketInv /\ [BucketNext]_bucketVars => BucketInv'
  BY BucketStep
<1>3. BucketInv /\ [BucketNext]_bucketVars => [Admits]_bucketVars
  <2> SUFFICES ASSUME BucketInv, NEW x \in Keys, NEW now \in 0..MaxTime, Take(x, now),
                      NEW k \in Keys, newest'[k] > newest[k],
                      Earned(newest'[k] - newest[k]) >= Scale
               PROVE  ledger'[k] # ledger[k]
    BY DEF BucketNext
  <2>1. now \in Nat /\ newest \in [Keys -> Nat] /\ ledger \in [Keys -> Seq(Nat)]
    BY OptionsAssumption DEF BucketInv, BucketType
  <2> DEFINE c == Refill(bucket[x], now)
             m == Later(newest[x], now)
  <2>2. /\ newest' = [newest EXCEPT ![x] = m] /\ m \in Nat
        /\ ledger' = [ledger EXCEPT ![x] = IF HasToken(c) THEN Append(@, m) ELSE @]
        /\ now > newest[x] /\ Earned(now - newest[x]) >= Scale => HasToken(c)
    BY <2>1, TakeEffect DEF BucketInv
  <2>3. k = x
    BY <2>1, <2>2
  <2>4. newest'[k] = now /\ now > newest[k]
    BY <2>1, <2>2, <2>3 DEF Later
  <2>5. ledger'[k] = Append(ledger[k], m)
    BY <2>1, <2>2, <2>3, <2>4
  <2>6. Len(ledger'[k]) = Len(ledger[k]) + 1 /\ Len(ledger[k]) \in Nat
    BY <2>1, <2>2, <2>5
  <2> QED BY <2>6
<1> QED BY <1>1, <1>2, <1>3, PTL DEF BucketSpec, SlowClientAdmitted

-----------------------------------------------------------------------------
(* The store implements the token bucket *)

\* No request waits for the mutex longer than MaxLag, so the time of a
\* bucket's last request is at most that far behind the latest one.
LagInv ==
    /\ \A w \in waiting : w.now <= clock /\ clock <= w.now + MaxLag
    /\ \A k \in Keys : newest[k] <= clock /\ newest[k] <= bucket[k].lastSeen + MaxLag

\* A visitor is its client's bucket.
AgreeInv == \A k \in DOMAIN visitors : visitors[k] = bucket[k]

\* A bucket is full for whatever time the client's next request can carry.
FullBucket(k) == \A t \in Nat : clock - MaxLag <= t => Level(bucket[k], t) >= Burst

\* A client without a visitor has such a bucket.
ForgottenInv == \A k \in Keys : k \in DOMAIN visitors \/ FullBucket(k)

StoreInv == TypeOK /\ BucketInv /\ LagInv /\ AgreeInv /\ ForgottenInv

\* A bucket refills in the time a visitor is kept, less the mutex's delays.
RefillsWhileKept == Burst <= Earned(staleAfter - 2 * MaxLag)

LEMMA StoreInitially == ASSUME Init PROVE StoreInv
<1>1. BucketInv
  BY BucketInitially DEF Init
<1>2. TypeOK
  BY <1>1, OptionsAssumption DEF Init, TypeOK, BucketInv, BucketType
<1>3. LagInv
  BY StoreAssumption DEF Init, BucketInit, LagInv
<1>4. AgreeInv
  BY DEF Init, AgreeInv
<1>5. ForgottenInv
  <2> SUFFICES ASSUME NEW k \in Keys, NEW t \in Nat PROVE Level(bucket[k], t) >= Burst
    BY DEF ForgottenInv, FullBucket
  <2>1. bucket[k].tokens = Burst /\ bucket[k].lastSeen = 0 /\ t - 0 = t
    BY DEF Init, BucketInit
  <2>2. Earned(0) <= Earned(t) /\ Earned(0) = 0 /\ Earned(t) \in Int
    BY EarnedGrows, EarnedType, OptionsAssumption DEF Earned
  <2>3. Level(bucket[k], t) = Burst + Earned(t)
    BY <2>1 DEF Level
  <2> QED BY <2>2, <2>3, BurstType
<1> QED BY <1>1, <1>2, <1>3, <1>4, <1>5 DEF StoreInv

\* What a sweep drops had refilled: after it, as before, a client either has
\* its bucket in the store or has a full one.
LEMMA SweepDropsFullBuckets ==
    ASSUME RefillsWhileKept, StoreInv, NEW w \in waiting, NEW k \in Keys
    PROVE  \/ k \in DOMAIN Swept(w.now) /\ Swept(w.now)[k] = bucket[k]
           \/ k \notin DOMAIN Swept(w.now) /\ FullBucket(k)
<1>1. w.now \in Nat /\ w.now <= clock /\ clock \in Nat
  BY OptionsAssumption DEF StoreInv, TypeOK, Waiting, LagInv
<1>2. CASE k \notin DOMAIN visitors
  BY <1>2 DEF StoreInv, ForgottenInv, Swept, sweepLocked
<1>3. CASE k \in DOMAIN Swept(w.now)
  BY <1>3 DEF StoreInv, AgreeInv, Swept, sweepLocked
<1>4. CASE k \in DOMAIN visitors /\ k \notin DOMAIN Swept(w.now)
  <2> DEFINE b == bucket[k]
             seen == b.lastSeen
             n == newest[k]
  <2>1. w.now - seen > staleAfter
    BY <1>4 DEF StoreInv, AgreeInv, Swept, sweepLocked
  <2>2. /\ b \in Buckets /\ seen \in Nat /\ n \in Nat /\ MaxLag \in Nat /\ staleAfter \in Nat
        /\ n <= seen + MaxLag /\ Level(b, n) \in 0..Burst
    BY StoreAssumption DEF StoreInv, BucketInv, BucketType, LevelInv, LagInv, Buckets
  <2> SUFFICES ASSUME NEW t \in Nat, clock - MaxLag <= t PROVE Level(b, t) >= Burst
    BY <1>4 DEF FullBucket
  <2> HIDE DEF b, seen, n
  <2>3. t - n \in Int /\ staleAfter - 2 * MaxLag \in Int /\ staleAfter - 2 * MaxLag <= t - n
    BY <1>1, <2>1, <2>2
  <2>4. Earned(staleAfter - 2 * MaxLag) <= Earned(t - n)
    BY <2>3, EarnedGrows
  <2>5. Level(b, t) = Level(b, n) + Earned(t - n)
    <3>1. /\ Level(b, t) = b.tokens + Earned(t) - Earned(b.lastSeen)
          /\ Level(b, n) = b.tokens + Earned(n) - Earned(b.lastSeen)
          /\ b.tokens \in Int /\ Earned(t) \in Int /\ Earned(n) \in Int /\ Earned(b.lastSeen) \in Int
      BY <2>2, LevelIs
    <3>2. Earned(t - n) = Earned(t) - Earned(n)
      BY <2>2, EarnedBetween
    <3> QED BY <3>1, <3>2
  <2>6. Earned(t - n) \in Int /\ Earned(staleAfter - 2 * MaxLag) \in Int
    BY <2>3, EarnedType
  <2> QED BY <2>2, <2>4, <2>5, <2>6, BurstType DEF RefillsWhileKept
<1> QED BY <1>2, <1>3, <1>4

\* A request of a client with a full bucket leaves what allow stores for a
\* client it does not know.
LEMMA FullBucketIsNew ==
    ASSUME Scale <= Burst, NEW b \in Buckets, NEW now \in Nat, Level(b, now) >= Burst
    PROVE  /\ HasToken(Refill(b, now))
           /\ Spend(Refill(b, now)) = [tokens |-> Burst - Scale, lastSeen |-> now]
<1>1. Level(b, now) \in Int
  BY LevelIs
<1>2. Refill(b, now) = [tokens |-> Burst, lastSeen |-> now]
  BY <1>1, BurstType DEF Refill
<1> QED BY <1>2, BurstType DEF HasToken, Spend

\* allow answers and stores what the bucket does.
LEMMA AllowIsTake ==
    ASSUME Scale <= Burst, RefillsWhileKept, StoreInv, NEW w \in waiting, Allow(w)
    PROVE  /\ w.key \in Keys /\ w.now \in 0..MaxTime
           /\ Take(w.key, w.now)
           /\ DOMAIN visitors' = DOMAIN Swept(w.now) \cup {w.key}
           /\ \A k \in DOMAIN visitors' : visitors'[k] = bucket'[k]
<1> DEFINE k == w.key
           now == w.now
           vs == Swept(now)
           c == Refill(bucket[k], now)
<1>1. /\ k \in Keys /\ now \in 0..MaxTime /\ now \in Nat
      /\ now <= clock /\ clock <= now + MaxLag /\ clock \in Nat /\ MaxLag \in Nat
  BY OptionsAssumption, StoreAssumption DEF StoreInv, TypeOK, Waiting, LagInv
<1>2. bucket \in [Keys -> Buckets] /\ bucket' = [bucket EXCEPT ![k] = Spend(c)]
  BY DEF StoreInv, BucketInv, BucketType, Allow
<1>3. \A x \in DOMAIN vs : x \in Keys /\ vs[x] = bucket[x]
  BY DEF StoreInv, TypeOK, AgreeInv, Swept, sweepLocked
<1>4. CASE k \notin DOMAIN vs
  <2>1. Level(bucket[k], now) >= Burst
    BY <1>1, <1>4, SweepDropsFullBuckets DEF FullBucket
  <2>2. HasToken(c) /\ Spend(c) = [tokens |-> Burst - Scale, lastSeen |-> now]
    BY <1>1, <1>2, <2>1, FullBucketIsNew
  <2>3. /\ visitors' = [x \in DOMAIN vs \cup {k} |->
                          IF x = k THEN [tokens |-> Burst - Scale, lastSeen |-> now] ELSE vs[x]]
        /\ Record(k, now, TRUE)
    BY <1>4 DEF Allow
  <2> HIDE DEF k, now, vs, c
  <2>4. Record(k, now, HasToken(c))
    BY <2>2, <2>3
  <2>5. DOMAIN visitors' = DOMAIN vs \cup {k} /\ \A x \in DOMAIN visitors' : visitors'[x] = bucket'[x]
    BY <1>1, <1>2, <1>3, <2>2, <2>3
  <2> QED BY <1>1, <1>2, <2>4, <2>5 DEF Take, k, now, vs, c
<1>5. CASE k \in DOMAIN vs
  <2>1. Refill(vs[k], now) = c
    BY <1>3, <1>5
  <2>2. visitors' = [vs EXCEPT ![k] = Spend(c)] /\ Record(k, now, HasToken(c))
    BY <1>5, <2>1 DEF Allow
  <2> HIDE DEF k, now, vs, c
  <2>3. DOMAIN visitors' = DOMAIN vs \cup {k} /\ \A x \in DOMAIN visitors' : visitors'[x] = bucket'[x]
    BY <1>1, <1>2, <1>3, <1>5, <2>2
  <2> QED BY <1>1, <1>2, <2>2, <2>3 DEF Take, k, now, vs, c
<1> QED BY <1>4, <1>5

LEMMA StoreStep ==
    ASSUME Scale <= Burst, RefillsWhileKept, StoreInv, [Next]_vars
    PROVE  StoreInv' /\ [BucketNext]_bucketVars
<1> USE DEF StoreInv
<1>0. MaxLag \in Nat /\ MaxTime \in Nat /\ clock \in 0..MaxTime
  BY StoreAssumption, OptionsAssumption DEF TypeOK
<1>1. ASSUME UNCHANGED bucketVars PROVE BucketInv' /\ [BucketNext]_bucketVars
  BY <1>1 DEF bucketVars, BucketInv, BucketType, LevelInv, LedgerInv, PaidFor, RateBound, Level
<1>2. ASSUME NEW r \in Requests, NEW k \in Keys, ReadNow(r, k)
      PROVE  StoreInv' /\ [BucketNext]_bucketVars
  <2>1. BucketInv' /\ [BucketNext]_bucketVars
    BY <1>1, <1>2 DEF ReadNow
  <2>2. TypeOK'
    BY <1>2 DEF ReadNow, TypeOK, Waiting, bucketVars
  <2>3. LagInv'
    BY <1>0, <1>2 DEF ReadNow, LagInv, bucketVars
  <2>4. AgreeInv' /\ ForgottenInv'
    BY <1>2 DEF ReadNow, AgreeInv, ForgottenInv, FullBucket, Level, bucketVars
  <2> QED BY <2>1, <2>2, <2>3, <2>4
<1>3. ASSUME NEW w \in waiting, Allow(w) PROVE StoreInv' /\ [BucketNext]_bucketVars
  <2> DEFINE k == w.key
             now == w.now
  <2>1. /\ k \in Keys /\ now \in 0..MaxTime /\ Take(k, now)
        /\ DOMAIN visitors' = DOMAIN Swept(now) \cup {k}
        /\ \A x \in DOMAIN visitors' : visitors'[x] = bucket'[x]
    BY <1>3, AllowIsTake
  <2>2. now \in Nat /\ now <= clock /\ clock <= now + MaxLag
    BY <1>0, <2>1 DEF LagInv
  <2>3. BucketInv' /\ [BucketNext]_bucketVars
    BY <2>1, <2>2, TakeKeepsInv DEF BucketNext
  <2>4. /\ bucket' = [bucket EXCEPT ![k] = Spend(Refill(bucket[k], now))]
        /\ newest' = [newest EXCEPT ![k] = Later(newest[k], now)]
        /\ bucket'[k].lastSeen = now
    <3>1. Spend(Refill(bucket[k], now)).lastSeen = now
      BY DEF Spend, Refill
    <3>2. /\ bucket' = [bucket EXCEPT ![k] = Spend(Refill(bucket[k], now))]
          /\ newest' = [newest EXCEPT ![k] = Later(newest[k], now)]
      BY <2>1 DEF Take, Record, Later
    <3> QED BY <2>1, <3>1, <3>2 DEF BucketInv, BucketType
  <2>5. \A x \in Keys \ {k} : bucket'[x] = bucket[x] /\ newest'[x] = newest[x]
    BY <2>4 DEF BucketInv, BucketType
  <2>6. clock' = clock /\ calls' = calls + 1 /\ waiting' = waiting \ {w}
    BY <1>3 DEF Allow
  <2>7. LagInv'
    <3>1. newest'[k] = Later(newest[k], now) /\ newest[k] \in Nat /\ newest[k] <= clock
      BY <2>1, <2>4 DEF BucketInv, BucketType, LagInv
    <3>2. newest'[k] <= clock
      BY <2>2, <3>1 DEF Later
    <3>3. \A x \in Keys : newest'[x] <= clock' /\ newest'[x] <= bucket'[x].lastSeen + MaxLag
      <4> SUFFICES ASSUME NEW x \in Keys
                   PROVE  newest'[x] <= clock' /\ newest'[x] <= bucket'[x].lastSeen + MaxLag
        OBVIOUS
      <4>1. CASE x = k
        <5> HIDE DEF k, now
        <5>1. newest'[k] \in Nat
          BY <2>1, <2>3 DEF BucketInv, BucketType
        <5> QED BY <1>0, <2>2, <2>4, <2>6, <3>2, <4>1, <5>1
      <4>2. CASE x # k
        BY <2>5, <2>6, <4>2 DEF LagInv
      <4> QED BY <4>1, <4>2
    <3> QED BY <2>6, <3>3 DEF LagInv
  <2>8. AgreeInv'
    BY <2>1 DEF AgreeInv
  <2>9. ForgottenInv'
    <3> SUFFICES ASSUME NEW x \in Keys, x \notin DOMAIN visitors' PROVE FullBucket(x)'
      BY DEF ForgottenInv
    <3>1. x # k /\ x \notin DOMAIN Swept(now)
      BY <2>1
    <3>2. FullBucket(x)
      BY <3>1, SweepDropsFullBuckets
    <3> QED BY <2>5, <2>6, <3>1, <3>2 DEF FullBucket, Level
  <2>10. TypeOK'
    <3>1. DOMAIN visitors' \subseteq Keys
      BY <2>1 DEF TypeOK, Swept, sweepLocked
    <3>2. \A x \in Keys : bucket'[x] \in Buckets
      BY <2>3 DEF BucketInv, BucketType
    <3>3. bucket'[k].tokens <= Burst
      <4>1. bucket[k] \in Buckets
        BY <2>1 DEF BucketInv, BucketType
      <4>2. Level(bucket[k], now) \in Int
        BY <2>2, <4>1, LevelIs
      <4>3. Refill(bucket[k], now) \in Buckets /\ Refill(bucket[k], now).tokens <= Burst
        BY <2>2, <4>2, BurstType DEF Refill, Buckets
      <4>4. Spend(Refill(bucket[k], now)).tokens <= Burst
        BY <4>3, BurstType DEF Spend, Buckets
      <4>5. bucket'[k] = Spend(Refill(bucket[k], now))
        BY <2>1, <2>4 DEF BucketInv, BucketType
      <4> QED BY <4>4, <4>5
    <3>4. \A x \in DOMAIN visitors' : visitors'[x] \in Buckets /\ visitors'[x].tokens <= Burst
      <4> SUFFICES ASSUME NEW x \in DOMAIN visitors' PROVE visitors'[x].tokens <= Burst
        BY <2>1, <3>1, <3>2
      <4>1. CASE x = k
        BY <2>1, <3>3, <4>1
      <4>2. CASE x # k
        <5>1. x \in Keys /\ visitors'[x] = bucket[x] /\ x \in DOMAIN visitors
          BY <2>1, <2>5, <3>1, <4>2 DEF Swept, sweepLocked
        <5> QED BY <5>1 DEF TypeOK, AgreeInv
      <4> QED BY <4>1, <4>2
    <3> QED BY <2>3, <2>6, <3>1, <3>4 DEF TypeOK, BucketInv, BucketType
  <2> QED BY <2>3, <2>7, <2>8, <2>9, <2>10
<1>4. CASE Tick
  <2>1. BucketInv' /\ [BucketNext]_bucketVars
    BY <1>1, <1>4 DEF Tick
  <2>2. UNCHANGED <<bucket, newest, ledger, calls, visitors, waiting>> /\ clock' = clock + 1
    BY <1>4 DEF Tick, bucketVars
  <2>3. TypeOK'
    BY <1>0, <1>4, <2>2 DEF Tick, TypeOK
  <2>4. LagInv'
    <3>1. \A w \in waiting : w.now \in Nat /\ clock < w.now + MaxLag
      BY <1>0, <1>4 DEF Tick, TypeOK, Waiting
    <3>2. \A k \in Keys : newest[k] \in Nat
      BY DEF BucketInv, BucketType
    <3> QED BY <1>0, <2>2, <3>1, <3>2 DEF LagInv
  <2>5. AgreeInv'
    BY <2>2 DEF AgreeInv
  <2>6. ForgottenInv'
    <3>1. ASSUME NEW k \in Keys, FullBucket(k) PROVE FullBucket(k)'
      <4>1. \A t \in Nat : clock' - MaxLag <= t => Level(bucket[k], t) >= Burst
        <5> SUFFICES ASSUME NEW t \in Nat, clock' - MaxLag <= t
                     PROVE  Level(bucket[k], t) >= Burst
          OBVIOUS
        <5>1. clock - MaxLag <= t
          BY <1>0, <2>2
        <5> QED BY <3>1, <5>1 DEF FullBucket
      <4>2. bucket'[k] = bucket[k]
        BY <2>2
      <4> QED BY <4>1, <4>2 DEF FullBucket, Level
    <3> QED BY <2>2, <3>1 DEF ForgottenInv
  <2> QED BY <2>1, <2>3, <2>4, <2>5, <2>6
<1>5. CASE UNCHANGED vars
  <2>1. UNCHANGED <<bucketVars, clock, calls, visitors, waiting>>
    BY <1>5 DEF vars
  <2>2. BucketInv' /\ [BucketNext]_bucketVars
    BY <1>1, <2>1
  <2> QED BY <2>1, <2>2 DEF TypeOK, LagInv, AgreeInv, ForgottenInv, FullBucket, Level, bucketVars
<1> QED BY <1>2, <1>3, <1>4, <1>5 DEF Next

(***************************************************************************)
(* The sweep is invisible: the store gives every request the answer of a   *)
(* token bucket that never forgets a client, for every number of clients   *)
(* and requests, if the burst is at least one token and a bucket refills   *)
(* in the time a visitor is kept.                                          *)
(***************************************************************************)
THEOREM StoreImplementsTokenBucket ==
    ASSUME Scale <= Burst, RefillsWhileKept
    PROVE  Spec => ImplementsTokenBucket
<1>1. Init => StoreInv /\ BucketInit
  BY StoreInitially DEF Init
<1>2. StoreInv /\ [Next]_vars => StoreInv' /\ [BucketNext]_bucketVars
  BY StoreStep
<1> QED BY <1>1, <1>2, PTL DEF Spec, BucketSpec, ImplementsTokenBucket

(***************************************************************************)
(* The type invariant: no client holds more than a burst; under the same   *)
(* premises, since it is a part of the same inductive invariant.           *)
(***************************************************************************)
THEOREM TypeCorrect ==
    ASSUME Scale <= Burst, RefillsWhileKept
    PROVE  Spec => []TypeOK
<1>1. Init => StoreInv
  BY StoreInitially
<1>2. StoreInv /\ [Next]_vars => StoreInv'
  BY StoreStep
<1>3. StoreInv => TypeOK
  BY DEF StoreInv
<1> QED BY <1>1, <1>2, <1>3, PTL DEF Spec

(***************************************************************************)
(* So the limiter enforces the configured rate on the requests allow       *)
(* really lets through, whatever it swept in between, if the burst is at   *)
(* least one token (a configured one is, the default of a rate below 1 is  *)
(* not) and a bucket refills in the time a visitor is kept (which          *)
(* newRateLimiting does not check).                                        *)
(***************************************************************************)
THEOREM LimiterBoundsRate ==
    ASSUME Scale <= Burst, RefillsWhileKept
    PROVE  Spec => []RateBound
  BY StoreImplementsTokenBucket, BucketBoundsRate, PTL DEF ImplementsTokenBucket

(***************************************************************************)
(* And, under the same premises, allow never blocks a client that stays    *)
(* under the configured rate.                                              *)
(***************************************************************************)
THEOREM LimiterAdmitsSlowClients ==
    ASSUME Scale <= Burst, RefillsWhileKept
    PROVE  Spec => SlowClientAdmitted
  BY StoreImplementsTokenBucket, BucketAdmitsSlowClients, PTL DEF ImplementsTokenBucket
=============================================================================
