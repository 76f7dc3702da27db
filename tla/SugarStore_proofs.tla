------------------------- MODULE SugarStore_proofs -------------------------
(***************************************************************************)
(* Proofs about SugarStore, for any number of gateways, requests, clients  *)
(* and any limit.                                                          *)
(***************************************************************************)
EXTENDS SugarStore, FiniteSetTheorems, TLAPS

\* The types of the store and the database, without the history.
StoreInv ==
    /\ store \in [Gateways -> {"none", "up", "failed"}]
    /\ db \in [Keys -> [count : 0..MaxCount, ttl : 1..Forever]]
    /\ req \in [Requests -> {Idle} \cup Expiring]

LEMMA LimitPositive == Limit \in Nat \ {0} /\ Forever \in Nat /\ Second < Forever
  BY SugarAssumption DEF Limit, Forever

LEMMA StoreInvInit == Init => StoreInv
  BY SugarAssumption DEF Init, StoreInv, NoCounter, Forever

LEMMA StoreInvStep == StoreInv /\ [Next]_vars => StoreInv'
<1> SUFFICES ASSUME StoreInv, [Next]_vars PROVE StoreInv'
  OBVIOUS
<1> USE SugarAssumption, LimitPositive DEF StoreInv
<1>1. ASSUME NEW g \in Gateways, NEW ok \in BOOLEAN, Setup(g, ok) PROVE StoreInv'
  BY <1>1 DEF Setup
<1>2. ASSUME NEW r \in Requests, NEW g \in Gateways, NEW k \in Keys, Incr(r, g, k)
      PROVE  StoreInv'
  BY <1>2 DEF Incr, Incremented, BeginsCounter, Expiring
<1>3. ASSUME NEW g \in Gateways, NEW k \in Keys, IncrFails(g, k) PROVE StoreInv'
  BY <1>3 DEF IncrFails, Incremented
<1>4. ASSUME NEW r \in Requests, Expire(r) PROVE StoreInv'
  BY <1>4 DEF Expire, Expired, Expiring, Forever
<1>5. ASSUME NEW r \in Requests, ExpireFails(r) PROVE StoreInv'
  BY <1>5 DEF ExpireFails
<1>6. ASSUME NEW g \in Gateways, Crash(g) PROVE StoreInv'
  BY <1>6 DEF Crash
<1>7. CASE Tick
  BY <1>7 DEF Tick, Aged, NoCounter
<1>8. CASE UNCHANGED vars
  BY <1>8 DEF vars
<1> QED
  BY <1>1, <1>2, <1>3, <1>4, <1>5, <1>6, <1>7, <1>8 DEF Next

(***************************************************************************)
(* INCR and EXPIRE leave no counter without an expiry unless one of them   *)
(* fails or its gateway dies in between, in every interleaving of the      *)
(* gateways' requests, and such a request is not admitted.                 *)
(***************************************************************************)
THEOREM CommandsDoNotOrphan == Spec => OnlyFailuresOrphan
<1> DEFINE A == \A k \in Keys : ~Orphaned(k) /\ Orphaned(k)' =>
                  /\ \/ \E r \in Requests : ExpireFails(r)
                     \/ \E g \in Gateways : IncrFails(g, k) \/ Crash(g)
                  /\ recent'[k] = recent[k]
<1>1. StoreInv /\ [Next]_vars => [A]_vars
  <2> SUFFICES ASSUME StoreInv, Next, NEW k \in Keys, ~Orphaned(k), Orphaned(k)'
               PROVE  /\ \/ \E r \in Requests : ExpireFails(r)
                         \/ \E g \in Gateways : IncrFails(g, k) \/ Crash(g)
                      /\ recent'[k] = recent[k]
    OBVIOUS
  <2> USE SugarAssumption, LimitPositive DEF StoreInv, Orphaned
  <2>1. ASSUME NEW g \in Gateways, NEW ok \in BOOLEAN, Setup(g, ok) PROVE FALSE
    BY <2>1 DEF Setup
  <2>2. ASSUME NEW r \in Requests, NEW g \in Gateways, NEW x \in Keys, Incr(r, g, x)
        PROVE  FALSE
    <3>1. CASE x # k
      BY <2>2, <3>1 DEF Incr, Idle
    <3>2. CASE x = k /\ db[k].count > 0
      BY <2>2, <3>2 DEF Incr, Incremented, BeginsCounter
    <3>3. CASE x = k /\ db[k].count = 0
      BY <2>2, <3>3 DEF Incr, Incremented, BeginsCounter, Idle
    <3> QED
      BY <3>1, <3>2, <3>3
  <2>3. ASSUME NEW g \in Gateways, NEW x \in Keys, IncrFails(g, x)
        PROVE  IncrFails(g, k) /\ recent'[k] = recent[k]
    BY <2>3 DEF IncrFails
  <2>4. ASSUME NEW r \in Requests, Expire(r) PROVE FALSE
    <3>1. CASE req[r].key = k
      BY <2>4, <3>1 DEF Expire, Expired, Forever
    <3>2. CASE req[r].key # k
      BY <2>4, <3>2 DEF Expire
    <3> QED
      BY <3>1, <3>2
  <2>5. ASSUME NEW r \in Requests, ExpireFails(r) PROVE recent'[k] = recent[k]
    BY <2>5 DEF ExpireFails
  <2>6. ASSUME NEW g \in Gateways, Crash(g) PROVE recent'[k] = recent[k]
    BY <2>6 DEF Crash
  <2>7. CASE Tick
    BY <2>7 DEF Tick, Aged, NoCounter
  <2> QED
    BY <2>1, <2>2, <2>3, <2>4, <2>5, <2>6, <2>7 DEF Next
<1> QED
  BY <1>1, StoreInvInit, StoreInvStep, PTL DEF Spec, OnlyFailuresOrphan

-----------------------------------------------------------------------------
(* The ages of the admitted requests *)

Ages == Seq(0..(Second - 1))

\* The newest request comes first.
Sorted(ages) == \A i, j \in DOMAIN ages : i <= j => ages[i] <= ages[j]

LEMMA AgesAre ==
    ASSUME NEW s \in Ages
    PROVE  /\ Len(s) \in Nat /\ DOMAIN s = 1..Len(s)
           /\ \A i \in 1..Len(s) : s[i] \in 0..(Second - 1)
<1> DEFINE T == 0..(Second - 1)
<1>1. s \in Seq(T)
  BY DEF Ages
<1> HIDE DEF T
<1>2. Len(s) \in Nat /\ DOMAIN s = 1..Len(s) /\ \A i \in 1..Len(s) : s[i] \in T
  BY <1>1
<1> QED BY <1>2 DEF T

\* One more request is admitted.
LEMMA OneMoreAge ==
    ASSUME NEW s \in Ages, Sorted(s)
    PROVE  /\ <<0>> \o s \in Ages /\ Sorted(<<0>> \o s)
           /\ Len(<<0>> \o s) = Len(s) + 1
           /\ \A i \in 1..Len(s) : (<<0>> \o s)[i + 1] = s[i]
<1> DEFINE t == <<0>> \o s
<1>1. Len(s) \in Nat /\ \A i \in 1..Len(s) : s[i] \in 0..(Second - 1)
  BY AgesAre
<1>2. <<0>> \in Ages /\ Len(<<0>>) = 1 /\ <<0>>[1] = 0
  BY SugarAssumption DEF Ages
<1>3. t \in Ages /\ Len(t) = Len(s) + 1 /\ DOMAIN t = 1..(Len(s) + 1)
  BY <1>2 DEF Ages
<1>4. t[1] = 0 /\ \A i \in 2..(Len(s) + 1) : t[i] = s[i - 1]
  BY <1>1, <1>2 DEF Ages
<1> HIDE DEF t
<1>5. Sorted(t)
  <2> SUFFICES ASSUME NEW i \in 1..(Len(s) + 1), NEW j \in 1..(Len(s) + 1), i <= j
               PROVE  t[i] <= t[j]
    BY <1>3 DEF Sorted
  <2>1. CASE i = 1
    <3>1. t[j] \in Nat
      BY <1>3, AgesAre
    <3> QED BY <1>4, <2>1, <3>1
  <2>2. CASE i # 1
    <3>1. /\ i - 1 \in 1..Len(s) /\ j - 1 \in 1..Len(s) /\ i - 1 <= j - 1
          /\ i \in 2..(Len(s) + 1) /\ j \in 2..(Len(s) + 1)
      BY <1>1, <2>2
    <3>2. s[i - 1] <= s[j - 1]
      BY <3>1, AgesAre DEF Sorted
    <3> QED BY <1>4, <3>1, <3>2
  <2> QED BY <2>1, <2>2
<1>6. \A i \in 1..Len(s) : t[i + 1] = s[i]
  <2> TAKE i \in 1..Len(s)
  <2>1. i + 1 \in 2..(Len(s) + 1) /\ (i + 1) - 1 = i
    BY <1>1
  <2> QED BY <1>4, <2>1
<1> QED BY <1>3, <1>5, <1>6 DEF t

\* If no request after the first n is young, at most n of them stay.
LEMMA YoungAtMost ==
    ASSUME NEW s \in Ages, NEW n \in Nat,
           \A i \in DOMAIN s : i > n => ~(s[i] + 1 < Second)
    PROVE  Cardinality(Young(s)) \in Nat /\ Cardinality(Young(s)) <= n
<1>1. Young(s) \subseteq 1..n
  BY AgesAre DEF Young
<1>2. IsFiniteSet(1..n) /\ Cardinality(1..n) = n
  BY FS_Interval
<1>3. /\ IsFiniteSet(Young(s)) /\ Cardinality(Young(s)) <= Cardinality(1..n)
  BY <1>1, <1>2, FS_Subset
<1> QED BY <1>2, <1>3, FS_CardinalityType

\* An instant passes: the requests that stay are the youngest ones.
LEMMA OlderAges ==
    ASSUME NEW s \in Ages, Sorted(s)
    PROVE  /\ Older(s) \in Ages /\ Sorted(Older(s))
           /\ Len(Older(s)) = Cardinality(Young(s)) /\ Len(Older(s)) <= Len(s)
           /\ \A i \in 1..Len(Older(s)) : Older(s)[i] = s[i] + 1
<1> DEFINE n == Cardinality(Young(s))
<1>1. Len(s) \in Nat /\ DOMAIN s = 1..Len(s) /\ \A i \in 1..Len(s) : s[i] \in 0..(Second - 1)
  BY AgesAre
<1>2. n \in Nat /\ n <= Len(s)
  BY <1>1, YoungAtMost
<1>3. ASSUME NEW i \in 1..n PROVE s[i] + 1 < Second
  <2> SUFFICES ASSUME ~(s[i] + 1 < Second) PROVE FALSE
    OBVIOUS
  <2>1. i \in 1..Len(s) /\ i - 1 \in Nat
    BY <1>2
  <2>2. \A j \in DOMAIN s : j > i - 1 => ~(s[j] + 1 < Second)
    <3> SUFFICES ASSUME NEW j \in 1..Len(s), j > i - 1 PROVE ~(s[j] + 1 < Second)
      BY <1>1
    <3>1. s[i] <= s[j]
      BY <1>1, <2>1 DEF Sorted
    <3> QED BY <1>1, <2>1, <3>1, SugarAssumption
  <2>3. n <= i - 1
    BY <2>1, <2>2, YoungAtMost
  <2> QED BY <1>2, <2>3
<1> HIDE DEF n
<1>4. Older(s) = [i \in 1..n |-> s[i] + 1]
  BY DEF Older, n
<1>5. \A i \in 1..n : s[i] + 1 \in 0..(Second - 1)
  BY <1>1, <1>2, <1>3, SugarAssumption
<1>6. Older(s) \in Ages /\ Len(Older(s)) = n /\ DOMAIN Older(s) = 1..n
  BY <1>2, <1>4, <1>5 DEF Ages
<1>7. Sorted(Older(s))
  <2> SUFFICES ASSUME NEW i \in 1..n, NEW j \in 1..n, i <= j PROVE s[i] + 1 <= s[j] + 1
    BY <1>4, <1>6 DEF Sorted
  <2>1. i \in 1..Len(s) /\ j \in 1..Len(s)
    BY <1>1, <1>2
  <2>2. s[i] <= s[j]
    BY <1>1, <2>1 DEF Sorted
  <2> QED BY <1>1, <2>1, <2>2
<1> QED BY <1>2, <1>4, <1>6, <1>7 DEF n

-----------------------------------------------------------------------------
(* The fixed window *)

\* How many requests of the current window a counter has let through at most.
LetThrough(count) == IF count < Limit THEN count ELSE Limit

\* A request between INCR and EXPIRE began its counter, which has no expiry
\* as long as the request is there, and it is the only one.
BeginnersInv ==
    \A r \in Requests : req[r] # Idle =>
        /\ req[r].count = 1
        /\ db[req[r].key].count > 0 /\ db[req[r].key].ttl = Forever
        /\ \A s \in Requests : req[s] # Idle /\ req[s].key = req[r].key => s = r

\* The window a counter stands for.  When it ends, all but Limit - 1 of the
\* requests it admitted since its EXPIRE have left the last second; the one
\* that began it is not admitted before the EXPIRE.
WindowInv(c, ages) ==
    /\ ages \in Ages /\ Sorted(ages)
    /\ c.count = 0 => c.ttl = Forever /\ Len(ages) <= Limit - 1
    /\ c.count > 0 /\ c.ttl = Forever => Len(ages) <= Limit - 1 + LetThrough(c.count) - 1
    /\ c.ttl <= Second =>
          /\ Len(ages) <= Limit - 1 + LetThrough(c.count)
          /\ \A i \in 1..Len(ages) : i >= LetThrough(c.count) => ages[i] + c.ttl >= Second

WindowsInv ==
    /\ recent \in [Keys -> Ages]
    /\ \A k \in Keys : WindowInv(db[k], recent[k])

CounterInv == StoreInv /\ BeginnersInv /\ WindowsInv

Counters == [count : 0..MaxCount, ttl : 1..Forever]

\* Arithmetic of the counters.
LEMMA LetThroughIs ==
    ASSUME NEW n \in 0..MaxCount
    PROVE  /\ LetThrough(n) \in 0..Limit
           /\ n > 0 => LetThrough(n) > 0
           /\ n < Limit => LetThrough(n + 1) = LetThrough(n) + 1
           /\ n >= Limit => LetThrough(n) = Limit
           /\ n > Limit <=> n >= Limit + 1
  BY LimitPositive, SugarAssumption DEF LetThrough

\* A request is counted and answered at once: it is not the first one.
LEMMA CountedNext ==
    ASSUME NEW c \in Counters, NEW ages, WindowInv(c, ages), c.count > 0
    PROVE  LET n == Incremented(c)
           IN  WindowInv(n, IF Admits(n.count) THEN <<0>> \o ages ELSE ages)
<1> DEFINE n == Incremented(c)
           m == LetThrough(c.count)
           new == <<0>> \o ages
<1>1. /\ c.count \in 1..MaxCount /\ c.ttl \in 1..Forever /\ Limit \in Nat \ {0}
      /\ MaxCount \in Nat /\ MaxCount > Limit + 1
      /\ Second \in Nat \ {0} /\ Forever = Second + 1
  BY LimitPositive, SugarAssumption DEF Counters, Forever
<1>2. /\ n.ttl = c.ttl /\ n.count \in 1..MaxCount
      /\ n.count = IF c.count < MaxCount THEN c.count + 1 ELSE c.count
  BY <1>1 DEF Counters, Incremented
<1>3. ages \in Ages /\ Sorted(ages) /\ Len(ages) \in Nat
  BY AgesAre DEF WindowInv
<1>4. CASE Admits(n.count)
  <2>1. c.count < Limit /\ n.count = c.count + 1
    BY <1>1, <1>2, <1>4 DEF Admits
  <2>2. m \in 1..Limit /\ LetThrough(n.count) = m + 1
    BY <1>1, <2>1, LetThroughIs
  <2>3. /\ new \in Ages /\ Sorted(new) /\ Len(new) = Len(ages) + 1
        /\ \A i \in 1..Len(ages) : new[i + 1] = ages[i]
    BY <1>3, OneMoreAge
  <2> HIDE DEF n, m, new
  <2>4. ASSUME c.ttl <= Second, NEW i \in 1..Len(new), i >= LetThrough(n.count)
        PROVE  new[i] + c.ttl >= Second
    <3>1. i - 1 \in 1..Len(ages) /\ i - 1 >= m /\ (i - 1) + 1 = i
      BY <1>3, <2>2, <2>3, <2>4
    <3>2. ages[i - 1] + c.ttl >= Second
      BY <2>4, <3>1 DEF WindowInv, m
    <3>3. new[i] = ages[i - 1]
      BY <2>3, <3>1
    <3> QED BY <3>2, <3>3
  <2>5. c.ttl <= Second => Len(new) <= Limit - 1 + LetThrough(n.count)
    BY <1>1, <1>3, <2>2, <2>3 DEF WindowInv, m
  <2>6. c.ttl = Forever => Len(new) <= Limit - 1 + LetThrough(n.count) - 1
    BY <1>1, <1>3, <2>2, <2>3 DEF WindowInv, m
  <2> QED BY <1>1, <1>2, <1>4, <2>3, <2>4, <2>5, <2>6 DEF WindowInv, n, new
<1>5. CASE ~Admits(n.count)
  <2>1. c.count >= Limit /\ n.count >= Limit
    BY <1>1, <1>2, <1>5 DEF Admits
  <2>2. LetThrough(n.count) = Limit /\ m = Limit
    BY <1>1, <1>2, <2>1, LetThroughIs
  <2> HIDE DEF n, m
  <2> QED BY <1>1, <1>2, <1>5, <2>2 DEF WindowInv, m, n
<1> QED BY <1>4, <1>5

\* A counter is begun, or a failing INCR counts a request nobody answers.
LEMMA CountedUnanswered ==
    ASSUME NEW c \in Counters, NEW ages, WindowInv(c, ages)
    PROVE  WindowInv(Incremented(c), ages)
<1> DEFINE n == Incremented(c)
<1>1. /\ c.count \in 0..MaxCount /\ c.ttl \in 1..Forever /\ Limit \in Nat \ {0}
      /\ MaxCount \in Nat /\ MaxCount > Limit + 1
      /\ Second \in Nat \ {0} /\ Forever = Second + 1
  BY LimitPositive, SugarAssumption DEF Counters, Forever
<1>2. /\ n.ttl = c.ttl /\ n.count \in 1..MaxCount
      /\ n.count = IF c.count < MaxCount THEN c.count + 1 ELSE c.count
  BY <1>1 DEF Counters, Incremented
<1>3. ages \in Ages /\ Sorted(ages) /\ Len(ages) \in Nat
  BY AgesAre DEF WindowInv
<1>4. /\ LetThrough(n.count) \in 1..Limit /\ LetThrough(c.count) \in 0..Limit /\ LetThrough(n.count) >= LetThrough(c.count)
      /\ c.count = 0 => LetThrough(n.count) = 1
  BY <1>1, <1>2, LetThroughIs DEF LetThrough
<1> HIDE DEF n
<1>5. CASE c.count = 0
  BY <1>1, <1>2, <1>3, <1>4, <1>5 DEF WindowInv, n
<1>6. CASE c.count > 0
  <2>1. n.ttl = Forever => Len(ages) <= Limit - 1 + LetThrough(n.count) - 1
    BY <1>1, <1>2, <1>3, <1>4, <1>6 DEF WindowInv
  <2>2. n.ttl <= Second => Len(ages) <= Limit - 1 + LetThrough(n.count)
    BY <1>1, <1>2, <1>3, <1>4, <1>6 DEF WindowInv
  <2>3. ASSUME n.ttl <= Second, NEW i \in 1..Len(ages), i >= LetThrough(n.count)
        PROVE  ages[i] + n.ttl >= Second
    <3>1. i >= LetThrough(c.count)
      BY <1>3, <1>4, <2>3
    <3> QED BY <1>2, <2>3, <3>1 DEF WindowInv
  <2> QED BY <1>2, <1>3, <2>1, <2>2, <2>3 DEF WindowInv, n
<1> QED BY <1>1, <1>5, <1>6

\* The EXPIRE of the request that began the counter, which is admitted now.
LEMMA WindowOpens ==
    ASSUME NEW c \in Counters, NEW ages, WindowInv(c, ages), c.count > 0, c.ttl = Forever
    PROVE  WindowInv(Expired(c), <<0>> \o ages)
<1> DEFINE n == Expired(c)
           new == <<0>> \o ages
<1>1. c.count \in 1..MaxCount /\ Limit \in Nat \ {0} /\ Second \in Nat \ {0} /\ Forever = Second + 1
  BY LimitPositive, SugarAssumption DEF Counters, Forever
<1>2. n.count = c.count /\ n.ttl = Second
  BY <1>1 DEF Expired, Counters
<1>3. /\ new \in Ages /\ Sorted(new) /\ Len(new) = Len(ages) + 1 /\ Len(ages) \in Nat
      /\ DOMAIN new = 1..Len(new) /\ \A i \in 1..Len(new) : new[i] \in 0..(Second - 1)
  BY OneMoreAge, AgesAre DEF WindowInv
<1>4. LetThrough(c.count) \in 1..Limit
  BY <1>1, LetThroughIs
<1> HIDE DEF n, new
<1>5. Len(new) <= Limit - 1 + LetThrough(c.count)
  BY <1>1, <1>3, <1>4 DEF WindowInv
<1>6. \A i \in 1..Len(new) : new[i] + Second >= Second
  BY <1>1, <1>3
<1> QED BY <1>1, <1>2, <1>3, <1>5, <1>6 DEF WindowInv, n, new

\* An instant passes.
LEMMA WindowAges ==
    ASSUME NEW c \in Counters, NEW ages, WindowInv(c, ages)
    PROVE  WindowInv(Aged(c), Older(ages))
<1> DEFINE n == Aged(c)
           old == Older(ages)
           m == LetThrough(c.count)
<1>1. /\ c.count \in 0..MaxCount /\ c.ttl \in 1..Forever /\ Limit \in Nat \ {0}
      /\ Second \in Nat \ {0} /\ Forever = Second + 1
  BY LimitPositive, SugarAssumption DEF Counters, Forever
<1>2. ages \in Ages /\ Sorted(ages) /\ Len(ages) \in Nat /\ DOMAIN ages = 1..Len(ages)
      /\ \A i \in 1..Len(ages) : ages[i] \in 0..(Second - 1)
  BY AgesAre DEF WindowInv
<1>3. /\ old \in Ages /\ Sorted(old) /\ Len(old) \in Nat
      /\ Len(old) = Cardinality(Young(ages)) /\ Len(old) <= Len(ages)
      /\ \A i \in 1..Len(old) : old[i] = ages[i] + 1
  BY <1>2, OlderAges, AgesAre
<1>4. m \in 0..Limit /\ (c.count > 0 => m > 0)
  BY <1>1, LetThroughIs
<1> HIDE DEF old, m
<1>5. CASE c.ttl = Forever
  <2>1. n = c
    BY <1>1, <1>5 DEF Aged
  <2>2. c.count > 0 => Len(old) <= Limit - 1 + m - 1
    BY <1>1, <1>2, <1>3, <1>4, <1>5 DEF WindowInv, m
  <2>3. c.count = 0 => Len(old) <= Limit - 1
    BY <1>1, <1>2, <1>3 DEF WindowInv
  <2>4. ~(c.ttl <= Second)
    BY <1>1, <1>5
  <2> HIDE DEF n
  <2> QED BY <1>3, <1>5, <2>1, <2>2, <2>3, <2>4 DEF WindowInv, m, n, old
<1>6. CASE c.ttl # Forever
  <2>1. c.ttl \in 1..Second /\ c.count > 0 /\ m \in 1..Limit
    BY <1>1, <1>4, <1>6 DEF WindowInv
  <2>2. /\ Len(ages) <= Limit - 1 + m
        /\ \A i \in 1..Len(ages) : i >= m => ages[i] + c.ttl >= Second
    BY <2>1 DEF WindowInv, m
  <2>3. CASE c.ttl = 1
    <3>1. n = NoCounter /\ n.count = 0 /\ n.ttl = Forever
      BY <1>6, <2>3 DEF Aged, NoCounter
    <3>2. m - 1 \in Nat /\ \A i \in DOMAIN ages : i > m - 1 => ~(ages[i] + 1 < Second)
      BY <1>1, <1>2, <2>1, <2>2, <2>3
    <3>3. Len(old) <= m - 1
      BY <1>2, <1>3, <3>2, YoungAtMost
    <3>4. Len(old) <= Limit - 1
      BY <1>1, <1>3, <2>1, <3>3
    <3>5. ~(Forever <= Second)
      BY <1>1
    <3> HIDE DEF n
    <3> QED BY <1>3, <3>1, <3>4, <3>5 DEF WindowInv, n, old
  <2>4. CASE c.ttl # 1
    <3>1. n.count = c.count /\ n.ttl = c.ttl - 1 /\ n.ttl \in 1..(Second - 1)
      BY <1>1, <1>6, <2>1, <2>4 DEF Aged, Counters
    <3>2. Len(old) <= Limit - 1 + m
      BY <1>1, <1>2, <1>3, <2>1, <2>2
    <3> HIDE DEF n
    <3>3. \A i \in 1..Len(old) : i >= m => old[i] + n.ttl >= Second
      <4> SUFFICES ASSUME NEW i \in 1..Len(old), i >= m PROVE old[i] + n.ttl >= Second
        OBVIOUS
      <4>1. i \in 1..Len(ages) /\ old[i] = ages[i] + 1
        BY <1>2, <1>3
      <4>2. ages[i] + c.ttl >= Second /\ ages[i] \in Int
        BY <1>2, <2>2, <4>1
      <4> QED BY <1>1, <2>1, <3>1, <4>1, <4>2
    <3>4. n.count > 0 /\ n.ttl # Forever
      BY <1>1, <2>1, <3>1
    <3> QED BY <1>1, <1>3, <3>1, <3>2, <3>3, <3>4 DEF WindowInv, m, n, old
  <2> QED BY <2>3, <2>4
<1> QED BY <1>5, <1>6

LEMMA CounterInit == Init => CounterInv
<1> SUFFICES ASSUME Init PROVE CounterInv
  OBVIOUS
<1>1. StoreInv
  BY StoreInvInit
<1>2. BeginnersInv
  BY DEF Init, BeginnersInv
<1>3. ASSUME NEW k \in Keys PROVE WindowInv(db[k], recent[k])
  <2>1. db[k] = NoCounter /\ recent[k] = << >>
    BY <1>3 DEF Init
  <2>2. << >> \in Ages /\ Len(<< >>) = 0 /\ Sorted(<< >>)
    BY DEF Ages, Sorted
  <2>3. db[k].count = 0 /\ db[k].ttl = Forever /\ ~(Forever <= Second)
    BY <2>1, LimitPositive, SugarAssumption DEF NoCounter
  <2> QED BY <2>1, <2>2, <2>3, LimitPositive DEF WindowInv
<1>4. recent \in [Keys -> Ages]
  BY DEF Init, Ages
<1> QED BY <1>1, <1>2, <1>3, <1>4 DEF CounterInv, WindowsInv

LEMMA BeginnersStep ==
    ASSUME StoreInv, BeginnersInv, [Next]_vars,
           \A k \in Keys : db[k].count = 0 => db[k].ttl = Forever
    PROVE  BeginnersInv'
<1> USE SugarAssumption, LimitPositive DEF BeginnersInv, StoreInv
<1>1. ASSUME NEW g \in Gateways, NEW ok \in BOOLEAN, Setup(g, ok) PROVE BeginnersInv'
  BY <1>1 DEF Setup
<1>2. ASSUME NEW r \in Requests, NEW g \in Gateways, NEW k \in Keys, Incr(r, g, k)
      PROVE  BeginnersInv'
  <2>1. db' = [db EXCEPT ![k] = Incremented(db[k])]
    BY <1>2 DEF Incr
  <2>2. /\ db'[k].count > 0 /\ db'[k].ttl = db[k].ttl
    BY <2>1 DEF Incremented
  <2>3. CASE BeginsCounter(Incremented(db[k]).count)
    <3>1. db[k].count = 0 /\ Incremented(db[k]).count = 1
      BY <2>3 DEF BeginsCounter, Incremented
    <3>2. \A s \in Requests : req[s] = Idle \/ req[s].key # k
      BY <3>1
    <3>3. req' = [req EXCEPT ![r] = [pc |-> "expire", gateway |-> g, key |-> k, count |-> 1]]
      BY <1>2, <2>3, <3>1 DEF Incr
    <3>4. db'[k].ttl = Forever /\ \A x \in Keys \ {k} : db'[x] = db[x]
      BY <2>1, <2>2, <3>1
    <3>5. /\ req'[r] # Idle /\ req'[r].count = 1 /\ req'[r].key = k
          /\ \A s \in Requests \ {r} : req'[s] = req[s]
      BY <3>3 DEF Idle
    <3>6. \A s \in Requests : req[s] # Idle => req[s].key \in Keys \ {k}
      BY <3>2 DEF Expiring
    <3> HIDE DEF StoreInv
    <3> QED BY <2>2, <3>4, <3>5, <3>6
  <2>4. CASE ~BeginsCounter(Incremented(db[k]).count)
    BY <1>2, <2>1, <2>2, <2>4 DEF Incr
  <2> QED BY <2>3, <2>4
<1>3. ASSUME NEW g \in Gateways, NEW k \in Keys, IncrFails(g, k) PROVE BeginnersInv'
  BY <1>3 DEF IncrFails, Incremented
<1>4. ASSUME NEW r \in Requests, Expire(r) PROVE BeginnersInv'
  BY <1>4 DEF Expire, Expired, Expiring
<1>5. ASSUME NEW r \in Requests, ExpireFails(r) PROVE BeginnersInv'
  BY <1>5 DEF ExpireFails
<1>6. ASSUME NEW g \in Gateways, Crash(g) PROVE BeginnersInv'
  BY <1>6 DEF Crash
<1>7. CASE Tick
  BY <1>7 DEF Tick, Aged, Expiring
<1>8. CASE UNCHANGED vars
  BY <1>8 DEF vars
<1> QED BY <1>1, <1>2, <1>3, <1>4, <1>5, <1>6, <1>7, <1>8 DEF Next

LEMMA CounterStep == CounterInv /\ [Next]_vars => CounterInv'
<1> SUFFICES ASSUME CounterInv, [Next]_vars PROVE CounterInv'
  OBVIOUS
<1>1. StoreInv' /\ BeginnersInv'
  BY StoreInvStep, BeginnersStep DEF CounterInv, WindowsInv, WindowInv
<1>2. /\ db \in [Keys -> Counters] /\ req \in [Requests -> {Idle} \cup Expiring]
      /\ recent \in [Keys -> Ages] /\ \A k \in Keys : WindowInv(db[k], recent[k])
  BY DEF CounterInv, StoreInv, WindowsInv, Counters
<1> SUFFICES WindowsInv'
  BY <1>1 DEF CounterInv
<1>3. ASSUME UNCHANGED <<db, recent>> PROVE WindowsInv'
  BY <1>2, <1>3 DEF WindowsInv
<1>4. ASSUME NEW k \in Keys, NEW c \in Counters, NEW ages, WindowInv(c, ages),
             db' = [db EXCEPT ![k] = c], recent' = [recent EXCEPT ![k] = ages]
      PROVE  WindowsInv'
  <2>1. ages \in Ages
    BY <1>4 DEF WindowInv
  <2>2. recent' \in [Keys -> Ages] /\ db'[k] = c /\ recent'[k] = ages
    BY <1>2, <1>4, <2>1
  <2>3. \A x \in Keys \ {k} : db'[x] = db[x] /\ recent'[x] = recent[x]
    BY <1>2, <1>4
  <2> QED BY <1>2, <1>4, <2>2, <2>3 DEF WindowsInv
<1>5. \A k \in Keys : recent = [recent EXCEPT ![k] = recent[k]]
  BY <1>2
<1>6. \A k \in Keys : Incremented(db[k]) \in Counters /\ Expired(db[k]) \in Counters
  BY <1>2, LimitPositive, SugarAssumption DEF Incremented, Expired, Counters, Forever
<1>7. ASSUME NEW r \in Requests, NEW g \in Gateways, NEW k \in Keys, Incr(r, g, k)
      PROVE  WindowsInv'
  <2> DEFINE c == Incremented(db[k])
  <2>1. db' = [db EXCEPT ![k] = c]
    BY <1>7 DEF Incr
  <2>2. CASE BeginsCounter(c.count)
    <3>1. recent' = [recent EXCEPT ![k] = recent[k]]
      BY <1>5, <1>7, <2>2 DEF Incr
    <3>2. WindowInv(c, recent[k])
      BY <1>2, CountedUnanswered
    <3> QED BY <1>4, <1>6, <2>1, <3>1, <3>2
  <2>3. CASE ~BeginsCounter(c.count)
    <3>1. db[k].count > 0
      BY <1>2, <2>3, LimitPositive, SugarAssumption DEF BeginsCounter, Incremented, Counters
    <3> DEFINE ages == IF Admits(c.count) THEN <<0>> \o recent[k] ELSE recent[k]
    <3>2. recent' = [recent EXCEPT ![k] = ages]
      BY <1>7, <2>3 DEF Incr, Decide
    <3>3. WindowInv(c, ages)
      BY <1>2, <3>1, CountedNext
    <3> QED BY <1>4, <1>6, <2>1, <3>2, <3>3
  <2> QED BY <2>2, <2>3
<1>8. ASSUME NEW g \in Gateways, NEW k \in Keys, IncrFails(g, k) PROVE WindowsInv'
  <2>1. db' = [db EXCEPT ![k] = Incremented(db[k])] /\ recent' = [recent EXCEPT ![k] = recent[k]]
    BY <1>5, <1>8 DEF IncrFails
  <2>2. WindowInv(Incremented(db[k]), recent[k])
    BY <1>2, CountedUnanswered
  <2> QED BY <1>4, <1>6, <2>1, <2>2
<1>9. ASSUME NEW r \in Requests, Expire(r) PROVE WindowsInv'
  <2> DEFINE k == req[r].key
  <2>1. k \in Keys /\ req[r].count = 1 /\ db[k].count > 0 /\ db[k].ttl = Forever
    BY <1>2, <1>9 DEF Expire, CounterInv, BeginnersInv, Expiring
  <2>2. Admits(req[r].count)
    BY <2>1, LimitPositive DEF Admits
  <2>3. db' = [db EXCEPT ![k] = Expired(db[k])] /\ recent' = [recent EXCEPT ![k] = <<0>> \o recent[k]]
    BY <1>9, <2>2 DEF Expire, Decide
  <2>4. WindowInv(Expired(db[k]), <<0>> \o recent[k])
    BY <1>2, <2>1, WindowOpens
  <2> QED BY <1>4, <1>6, <2>1, <2>3, <2>4
<1>10. CASE Tick
  <2>1. \A k \in Keys : db'[k] = Aged(db[k]) /\ recent'[k] = Older(recent[k])
    BY <1>10 DEF Tick
  <2>2. \A k \in Keys : WindowInv(db'[k], recent'[k])
    BY <1>2, <2>1, WindowAges
  <2>3. recent' \in [Keys -> Ages]
    BY <1>10, <2>1, <2>2 DEF Tick, WindowInv
  <2> QED BY <2>2, <2>3 DEF WindowsInv
<1> QED
  BY <1>3, <1>7, <1>8, <1>9, <1>10 DEF Next, Setup, ExpireFails, Crash, vars

(***************************************************************************)
(* The type invariant, the history included.                               *)
(***************************************************************************)
THEOREM TypeCorrect == Spec => []TypeOK
<1>1. CounterInv => TypeOK
  BY DEF CounterInv, StoreInv, WindowsInv, Ages, TypeOK
<1> QED BY <1>1, CounterInit, CounterStep, PTL DEF Spec

(***************************************************************************)
(* Over all gateways, no second has more than 2 * Limit - 1 admitted       *)
(* requests of a client, wherever the second begins and whatever fails in  *)
(* it, for every limit and any number of gateways and requests.            *)
(***************************************************************************)
THEOREM WindowsBoundRate == Spec => []WindowBound
<1>1. CounterInv => WindowBound
  <2> SUFFICES ASSUME CounterInv, NEW k \in Keys PROVE Len(recent[k]) <= 2 * Limit - 1
    BY DEF WindowBound
  <2>1. db[k].count \in 0..MaxCount /\ db[k].ttl \in 1..Forever /\ WindowInv(db[k], recent[k])
    BY DEF CounterInv, StoreInv, WindowsInv
  <2>2. LetThrough(db[k].count) \in 0..Limit /\ Limit \in Nat \ {0} /\ Second \in Nat
    BY <2>1, LetThroughIs, LimitPositive, SugarAssumption
  <2>3. Len(recent[k]) \in Nat
    BY <2>1, AgesAre DEF WindowInv
  <2> QED BY <2>1, <2>2, <2>3 DEF WindowInv, Forever
<1> QED BY <1>1, CounterInit, CounterStep, PTL DEF Spec
=============================================================================
