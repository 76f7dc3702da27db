------------------------- MODULE VisitorMap_proofs -------------------------
(***************************************************************************)
(* Proofs about the size of memoryStore's map, for any number of clients   *)
(* and requests, any sweep period and any idle time, and whether or not a  *)
(* bucket refills in the time a visitor is kept.                           *)
(***************************************************************************)
EXTENDS VisitorMap, FiniteSetTheorems, TLAPS

\* Counting on from a, the remainder modulo m grows by one or starts over.
LEMMA NextRemainder ==
    ASSUME NEW m \in Nat \ {0}, NEW a \in Nat, (a + 1) % m # 0
    PROVE  (a + 1) % m = (a % m) + 1
<1> DEFINE q == a \div m
           r == a % m
           p == (a + 1) \div m
           s == (a + 1) % m
<1>1. q \in Int /\ r \in 0..(m - 1) /\ a = m * q + r
  OBVIOUS
<1>2. p \in Int /\ s \in 1..(m - 1) /\ a + 1 = m * p + s
  OBVIOUS
<1> HIDE DEF q, r, p, s
<1>3. m * (p - q) = r + 1 - s
  BY <1>1, <1>2
<1>4. CASE p > q
  <2>1. m * (p - q) >= m
    BY <1>1, <1>2, <1>4
  <2> QED BY <2>1, <1>1, <1>2, <1>3
<1>5. CASE p < q
  <2>1. m * (p - q) <= -m
    BY <1>1, <1>2, <1>5
  <2> QED BY <2>1, <1>1, <1>2, <1>3
<1>6. CASE p = q
  <2>1. s = r + 1
    BY <1>1, <1>2, <1>6
  <2> QED BY <2>1 DEF s, r
<1> QED BY <1>1, <1>2, <1>4, <1>5, <1>6

\* The times that the sweep and the buckets compare.
TimesInv ==
    /\ calls \in Nat
    /\ sweptAt \in Nat
    /\ clock \in 0..MaxTime
    /\ waiting \subseteq Waiting
    /\ \A k \in DOMAIN visitors : visitors[k].lastSeen \in Nat

\* What the map holds besides the clients touched since the last sweep was
\* young enough to survive it, and a client is touched by one call, so there
\* are no more of those than calls since the sweep, its own included.
MapInv ==
    /\ IsFiniteSet(touched)
    /\ Cardinality(touched) <= (calls % sweepEvery) + 1
    /\ \A k \in DOMAIN visitors \ touched : sweptAt - visitors[k].lastSeen <= staleAfter

LEMMA MapInitially == MapInit => TimesInv /\ MapInv
<1> SUFFICES ASSUME MapInit PROVE TimesInv /\ MapInv
  OBVIOUS
<1>1. IsFiniteSet({}) /\ Cardinality({}) = 0
  BY FS_EmptySet
<1>2. 0 <= (0 % sweepEvery) + 1
  BY StoreAssumption
<1> QED BY <1>1, <1>2, OptionsAssumption DEF MapInit, Init, TimesInv, MapInv

\* What an allow leaves in the map: the client it decides, seen at the time
\* its request read, and what the sweep, if one was due, has left of the
\* others.
LEMMA AllowEffect ==
    ASSUME TimesInv, NEW w \in waiting, Allow(w)
    PROVE  /\ w.now \in Nat
           /\ calls' = calls + 1 /\ waiting' \subseteq waiting /\ clock' = clock
           /\ DOMAIN visitors' = DOMAIN Swept(w.now) \cup {w.key}
           /\ visitors'[w.key].lastSeen = w.now
           /\ \A k \in DOMAIN visitors' \ {w.key} : visitors'[k] = visitors[k]
           /\ DOMAIN Swept(w.now) \subseteq DOMAIN visitors
<1> DEFINE vs == Swept(w.now)
           b == Refill(vs[w.key], w.now)
<1>1. w.now \in Nat
  BY OptionsAssumption DEF TimesInv, Waiting
<1>2. calls' = calls + 1 /\ waiting' \subseteq waiting /\ clock' = clock
  BY DEF Allow
<1>3. DOMAIN vs \subseteq DOMAIN visitors /\ \A k \in DOMAIN vs : vs[k] = visitors[k]
  BY DEF Swept, sweepLocked
<1>4. CASE w.key \notin DOMAIN vs
  <2>1. visitors' = [x \in DOMAIN vs \cup {w.key} |->
                       IF x = w.key THEN [tokens |-> Burst - Scale, lastSeen |-> w.now]
                                    ELSE vs[x]]
    BY <1>4 DEF Allow
  <2> HIDE DEF vs
  <2> QED BY <1>1, <1>2, <1>3, <2>1 DEF vs
<1>5. CASE w.key \in DOMAIN vs
  <2>1. visitors' = [vs EXCEPT ![w.key] = Spend(b)]
    BY <1>5 DEF Allow
  <2>2. Spend(b).lastSeen = w.now
    BY DEF Spend, Refill
  <2>3. DOMAIN visitors' = DOMAIN vs /\ visitors'[w.key] = Spend(b)
    BY <1>5, <2>1 DEF Swept, sweepLocked
  <2>4. \A k \in DOMAIN vs \ {w.key} : visitors'[k] = vs[k]
    BY <1>5, <2>1 DEF Swept, sweepLocked
  <2> HIDE DEF vs, b
  <2> QED BY <1>1, <1>2, <1>3, <1>5, <2>2, <2>3, <2>4 DEF vs
<1> QED BY <1>4, <1>5

LEMMA MapStep ==
    ASSUME TimesInv, MapInv, [MapNext]_mapVars
    PROVE  TimesInv' /\ MapInv'
<1>1. ASSUME NEW w \in waiting, AllowAndSweep(w) PROVE TimesInv' /\ MapInv'
  <2>1. /\ w.now \in Nat /\ calls' = calls + 1 /\ waiting' \subseteq waiting /\ clock' = clock
        /\ DOMAIN visitors' = DOMAIN Swept(w.now) \cup {w.key}
        /\ visitors'[w.key].lastSeen = w.now
        /\ \A k \in DOMAIN visitors' \ {w.key} : visitors'[k] = visitors[k]
        /\ DOMAIN Swept(w.now) \subseteq DOMAIN visitors
    BY <1>1, AllowEffect DEF AllowAndSweep
  <2>2. sweptAt' \in Nat
    BY <1>1, <2>1 DEF AllowAndSweep, TimesInv
  <2>3. \A k \in DOMAIN visitors' : visitors'[k].lastSeen \in Nat
    BY <2>1 DEF TimesInv
  <2>4. TimesInv'
    BY <2>1, <2>2, <2>3 DEF TimesInv
  <2>5. calls \in Nat /\ sweepEvery \in Nat \ {0} /\ staleAfter \in Nat
    BY StoreAssumption DEF TimesInv
  <2>6. CASE (calls + 1) % sweepEvery = 0
    <3>1. touched' = {w.key} /\ sweptAt' = w.now
      BY <1>1, <2>1, <2>6 DEF AllowAndSweep
    <3>2. IsFiniteSet(touched') /\ Cardinality(touched') = 1
      BY <3>1, FS_Singleton
    <3>3. Cardinality(touched') <= (calls' % sweepEvery) + 1
      BY <2>1, <2>6, <3>2
    <3>4. ASSUME NEW k \in DOMAIN visitors' \ touched'
          PROVE  sweptAt' - visitors'[k].lastSeen <= staleAfter
      <4>1. k \in DOMAIN sweepLocked(visitors, w.now) /\ visitors'[k] = visitors[k]
        BY <2>1, <2>6, <3>1, <3>4 DEF Swept
      <4>2. k \in DOMAIN visitors /\ ~(w.now - visitors[k].lastSeen > staleAfter)
        BY <4>1 DEF sweepLocked
      <4>3. visitors[k].lastSeen \in Nat
        BY <4>2 DEF TimesInv
      <4> QED BY <2>1, <2>5, <3>1, <4>1, <4>2, <4>3
    <3> QED BY <2>4, <3>2, <3>3, <3>4 DEF MapInv
  <2>7. CASE (calls + 1) % sweepEvery # 0
    <3>1. touched' = touched \cup {w.key} /\ sweptAt' = sweptAt
      BY <1>1, <2>1, <2>7 DEF AllowAndSweep
    <3>2. /\ IsFiniteSet(touched') /\ Cardinality(touched) \in Nat
          /\ Cardinality(touched') \in Nat
          /\ Cardinality(touched') <= Cardinality(touched) + 1
      <4>1. IsFiniteSet(touched) /\ Cardinality(touched) \in Nat
        BY FS_CardinalityType DEF MapInv
      <4>2. /\ IsFiniteSet(touched \cup {w.key})
            /\ Cardinality(touched \cup {w.key}) =
                 IF w.key \in touched THEN Cardinality(touched) ELSE Cardinality(touched) + 1
        BY <4>1, FS_AddElement
      <4> QED BY <3>1, <4>1, <4>2
    <3>3. (calls + 1) % sweepEvery = (calls % sweepEvery) + 1
      BY <2>5, <2>7, NextRemainder
    <3>4. Cardinality(touched') <= (calls' % sweepEvery) + 1
      <4>1. calls % sweepEvery \in Nat
        BY <2>5
      <4> QED BY <2>1, <3>2, <3>3, <4>1 DEF MapInv
    <3>5. ASSUME NEW k \in DOMAIN visitors' \ touched'
          PROVE  sweptAt' - visitors'[k].lastSeen <= staleAfter
      <4>1. k \in DOMAIN visitors \ touched /\ visitors'[k] = visitors[k]
        BY <2>1, <3>1, <3>5
      <4> QED BY <3>1, <4>1 DEF MapInv
    <3> QED BY <2>4, <3>2, <3>4, <3>5 DEF MapInv
  <2> QED BY <2>6, <2>7
<1>2. ASSUME NEW r \in Requests, NEW k \in Keys, ReadNow(r, k), UNCHANGED <<touched, sweptAt>>
      PROVE  TimesInv' /\ MapInv'
  BY <1>2 DEF ReadNow, TimesInv, MapInv, Waiting
<1>3. ASSUME Tick, UNCHANGED <<touched, sweptAt>> PROVE TimesInv' /\ MapInv'
  BY <1>3, OptionsAssumption DEF Tick, TimesInv, MapInv
<1>4. CASE UNCHANGED mapVars
  BY <1>4 DEF mapVars, vars, TimesInv, MapInv
<1> QED BY <1>1, <1>2, <1>3, <1>4 DEF MapNext

(***************************************************************************)
(* The map of visitors is bounded: whatever order requests reach the store *)
(* in, it holds at most sweepEvery clients besides those that the last     *)
(* sweep found young enough, for every sweep period and idle time.         *)
(***************************************************************************)
THEOREM VisitorMapBounded == MapSpec => []MapBounded
<1>1. MapInit => TimesInv /\ MapInv
  BY MapInitially
<1>2. (TimesInv /\ MapInv) /\ [MapNext]_mapVars => (TimesInv /\ MapInv)'
  BY MapStep
<1>3. TimesInv /\ MapInv => MapBounded
  <2> SUFFICES ASSUME TimesInv, MapInv PROVE Cardinality(touched) <= sweepEvery
    BY DEF MapInv, MapBounded
  <2>1. (calls % sweepEvery) + 1 <= sweepEvery /\ calls % sweepEvery \in Nat
        /\ sweepEvery \in Nat
    BY StoreAssumption DEF TimesInv
  <2>2. Cardinality(touched) \in Nat
    BY FS_CardinalityType DEF MapInv
  <2> QED BY <2>1, <2>2 DEF MapInv
<1> QED BY <1>1, <1>2, <1>3, PTL DEF MapSpec

(***************************************************************************)
(* The history is only looked at: a behaviour of the store with it is one  *)
(* of the store, so what is proved of Spec holds here.                     *)
(***************************************************************************)
LEMMA HistoryAddsNothing == MapSpec => Spec
<1>1. MapInit => Init
  BY DEF MapInit
<1>2. [MapNext]_mapVars => [Next]_vars
  BY DEF MapNext, AllowAndSweep, Next, mapVars
<1> QED BY <1>1, <1>2, PTL DEF MapSpec, Spec
=============================================================================
