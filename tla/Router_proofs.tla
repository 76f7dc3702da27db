--------------------------- MODULE Router_proofs ---------------------------
(***************************************************************************)
(* Proofs about the routes of a config, for any number of services,        *)
(* methods and paths: which patterns there are for a request, and that     *)
(* ServeMux, having refused conflicting ones, always finds the one to use. *)
(***************************************************************************)
EXTENDS Router, FiniteSetTheorems, WellFoundedInduction, TLAPS

-----------------------------------------------------------------------------
(* Least elements *)

\* The library's minimum principle, for the natural numbers.
LEMMA LeastNatural ==
    ASSUME NEW T, T \subseteq Nat, T # {}
    PROVE  \E x \in T : \A y \in T : x <= y
<1> DEFINE R == OpToRel(<, Nat)
<1>1. IsWellFoundedOn(R, Nat)
  BY NatLessThanWellFounded
<1>2. \A x, y \in Nat : y < x => <<y, x>> \in R
  BY DEF OpToRel
<1> HIDE DEF R
<1>3. PICK x \in T : \A y \in T : ~(<<y, x>> \in R)
  BY <1>1, WFMin
<1>4. \A y \in T : x <= y
  <2> TAKE y \in T
  <2>1. x \in Nat /\ y \in Nat /\ ~(y < x)
    BY <1>2, <1>3, Zenon
  <2> QED BY <2>1
<1> QED BY <1>4

\* And for the largest of a set of positions.
LEMMA LastPosition ==
    ASSUME NEW n \in Nat, NEW S, S \subseteq 1..n, S # {}
    PROVE  \E i \in S : \A j \in S : j <= i
<1> DEFINE T == {n - i : i \in S}
<1>1. T \subseteq Nat /\ T # {}
  <2>1. ASSUME NEW i \in S PROVE n - i \in Nat
    <3>1. i \in 1..n
      OBVIOUS
    <3> QED BY <3>1
  <2> QED BY <2>1
<1>2. PICK x \in T : \A y \in T : x <= y
  BY <1>1, LeastNatural
<1>3. PICK i \in S : x = n - i
  OBVIOUS
<1>4. ASSUME NEW j \in S PROVE j <= i
  <2>1. n - j \in T
    OBVIOUS
  <2>2. n - i <= n - j
    BY <1>2, <1>3, <2>1
  <2>3. i \in Int /\ j \in Int
    OBVIOUS
  <2> QED BY <2>2, <2>3
<1> QED BY <1>4

-----------------------------------------------------------------------------
(* The patterns of a service *)

\* A pattern belongs to a service and has its host and its paths.
LEMMA PatternIs ==
    ASSUME NEW cfg, NEW p \in Patterns(cfg)
    PROVE  /\ p.service \in DOMAIN cfg
           /\ p.host = cfg[p.service].host /\ p.paths = cfg[p.service].path
  BY DEF Patterns

\* A service is registered for what it declares.
Declares(s, m) == s.methods = << >> \/ \E j \in DOMAIN s.methods : s.methods[j] = m

LEMMA DeclaredIsRegistered ==
    ASSUME NEW s, IsList(s.methods), NEW m,
           Declares(s, m) \/ (m = "OPTIONS" /\ hasCORSPlugin(s))
    PROVE  \E n \in DOMAIN Registered(s) : Registered(s)[n] \in {"", m}
<1>1. CASE s.methods = << >>
  <2>1. Registered(s) = <<"">>
    BY <1>1 DEF Registered
  <2>2. 1 \in DOMAIN <<"">> /\ <<"">>[1] = ""
    OBVIOUS
  <2> QED BY <2>1, <2>2
<1>2. CASE s.methods # << >>
  <2> DEFINE ms == s.methods
             more == Append(ms, "OPTIONS")
  <2>1. /\ Len(ms) \in Nat /\ DOMAIN ms = 1..Len(ms)
        /\ DOMAIN more = 1..(Len(ms) + 1)
        /\ \A j \in 1..Len(ms) : more[j] = ms[j]
        /\ more[Len(ms) + 1] = "OPTIONS"
    <3> DEFINE E == {ms[j] : j \in DOMAIN ms}
    <3>1. ms \in Seq(E)
      BY DEF IsList
    <3> HIDE DEF E, ms
    <3>2. ms \in Seq(E \cup {"OPTIONS"}) /\ "OPTIONS" \in E \cup {"OPTIONS"}
      BY <3>1
    <3> QED BY <3>2
  <2>2. Registered(s) \in {ms, more}
    BY <1>2 DEF Registered
  <2>3. CASE \E j \in DOMAIN ms : ms[j] = m
    <3>1. PICK j \in DOMAIN ms : ms[j] = m
      BY <2>3
    <3>2. j \in DOMAIN Registered(s) /\ Registered(s)[j] = m
      BY <2>1, <2>2, <3>1
    <3> QED BY <3>2
  <2>4. CASE m = "OPTIONS" /\ hasCORSPlugin(s) /\ ~\E j \in DOMAIN ms : ms[j] = m
    <3>1. Registered(s) = more
      BY <1>2, <2>4 DEF Registered
    <3>2. Len(ms) + 1 \in DOMAIN more /\ more[Len(ms) + 1] = m
      BY <2>1, <2>4
    <3> HIDE DEF more
    <3> QED BY <3>1, <3>2
  <2> QED BY <1>2, <2>3, <2>4 DEF Declares
<1> QED BY <1>1, <1>2

\* So it has a pattern for every request that is addressed to it.
LEMMA PatternOf ==
    ASSUME NEW cfg, NEW i \in DOMAIN cfg, IsList(cfg[i].methods),
           NEW m \in Methods, NEW path \in cfg[i].path,
           Declares(cfg[i], m) \/ (m = "OPTIONS" /\ hasCORSPlugin(cfg[i]))
    PROVE  \E p \in Candidates(cfg, cfg[i].host, m, path) : p.service = i
<1>1. PICK n \in DOMAIN Registered(cfg[i]) : Registered(cfg[i])[n] \in {"", m}
  BY DeclaredIsRegistered
<1> DEFINE p == [service |-> i, nth |-> n, host |-> cfg[i].host, paths |-> cfg[i].path,
                 method |-> Registered(cfg[i])[n]]
<1>2. p \in Patterns(cfg)
  BY DEF Patterns
<1>3. <<m, path>> \in Matched(p)
  BY <1>1 DEF Matched, Takes
<1> QED BY <1>2, <1>3 DEF Candidates

-----------------------------------------------------------------------------
(* The pattern ServeMux uses *)

\* A pattern that may be used for a request is for its host, or for any, and
\* has its path.
LEMMA PatternsForAre ==
    ASSUME NEW cfg, NEW host, NEW m, NEW path, NEW p \in PatternsFor(cfg, host, m, path)
    PROVE  /\ p \in Patterns(cfg) /\ p.host \in {host, ""}
           /\ <<m, path>> \in Matched(p) /\ path \in p.paths /\ m \in Methods /\ Takes(p, m)
<1>1. p \in Patterns(cfg) /\ p.host \in {host, ""} /\ <<m, path>> \in Matched(p)
  BY DEF PatternsFor, Candidates
<1> QED BY <1>1 DEF Matched

\* A pattern for the request's own host keeps the others out; one without a
\* host is among those to choose from when one without a host is chosen.
LEMMA HostsFirst ==
    ASSUME NEW cfg, NEW host, NEW m, NEW path, NEW h \in {host, ""},
           NEW q \in Candidates(cfg, h, m, path)
    PROVE  LET ps == PatternsFor(cfg, host, m, path)
           IN  /\ ps # {}
               /\ h # "" => \A p \in ps : p.host = host
               /\ \A p \in ps : p.host = h => q \in ps
  BY DEF PatternsFor, Candidates

\* The chosen pattern's paths are all covered by the others'.
LEMMA MostSpecificPaths ==
    ASSUME NEW cfg, NEW host, NEW m, NEW path,
           NEW p \in MostSpecific(PatternsFor(cfg, host, m, path)),
           NEW q \in PatternsFor(cfg, host, m, path)
    PROVE  p \in PatternsFor(cfg, host, m, path) /\ p.paths \subseteq q.paths
<1>1. p \in PatternsFor(cfg, host, m, path) /\ Matched(p) \subseteq Matched(q)
  BY DEF MostSpecific
<1>2. m \in Methods /\ Takes(p, m)
  BY <1>1, PatternsForAre
<1>3. ASSUME NEW x \in p.paths PROVE x \in q.paths
  <2>1. <<m, x>> \in Matched(p)
    BY <1>2 DEF Matched
  <2>2. <<m, x>> \in Matched(q)
    BY <1>1, <2>1
  <2> QED BY <2>2 DEF Matched
<1> QED BY <1>1, <1>3

\* A list is a function on an initial segment of the positions.
LEMMA ListDomain ==
    ASSUME NEW s, IsList(s)
    PROVE  Len(s) \in Nat /\ DOMAIN s = 1..Len(s)
<1> DEFINE E == {s[i] : i \in DOMAIN s}
<1>1. s \in Seq(E)
  BY DEF IsList
<1> HIDE DEF E
<1> QED BY <1>1

LEMMA ListDomainFinite ==
    ASSUME NEW s, IsList(s)
    PROVE  IsFiniteSet(DOMAIN s)
  BY ListDomain, FS_Interval

\* A finite set has a finite image.
LEMMA FiniteImage ==
    ASSUME NEW S, IsFiniteSet(S), NEW f, DOMAIN f = S, f = [x \in S |-> f[x]]
    PROVE  IsFiniteSet({f[x] : x \in S})
<1> DEFINE T == {f[x] : x \in S}
<1>1. f \in Surjection(S, T)
  BY DEF Surjection
<1> QED BY <1>1, FS_Surjection

LEMMA PatternsFinite ==
    ASSUME NEW cfg, IsList(cfg), \A i \in DOMAIN cfg : IsList(cfg[i].methods)
    PROVE  IsFiniteSet(Patterns(cfg))
<1> DEFINE P(i, n) == [service |-> i, nth |-> n, host |-> cfg[i].host, paths |-> cfg[i].path,
                       method |-> Registered(cfg[i])[n]]
           of == [i \in DOMAIN cfg |-> {P(i, n) : n \in DOMAIN Registered(cfg[i])}]
<1>1. ASSUME NEW i \in DOMAIN cfg PROVE IsFiniteSet(of[i])
  <2> DEFINE ms == cfg[i].methods
             f == [n \in DOMAIN Registered(cfg[i]) |-> P(i, n)]
  <2>1. IsFiniteSet(DOMAIN Registered(cfg[i]))
    <3>1. Registered(cfg[i]) \in {<<"">>, ms, Append(ms, "OPTIONS")}
      BY DEF Registered
    <3>2. IsFiniteSet(DOMAIN <<"">>)
      <4>1. DOMAIN <<"">> = 1..1 /\ 1 \in Int
        OBVIOUS
      <4>2. IsFiniteSet(1..1)
        BY <4>1, FS_Interval
      <4> QED BY <4>1, <4>2
    <3>3. IsFiniteSet(DOMAIN ms)
      BY ListDomainFinite
    <3>4. IsFiniteSet(DOMAIN Append(ms, "OPTIONS"))
      <4>1. Len(ms) \in Nat
        BY ListDomain
      <4>2. DOMAIN Append(ms, "OPTIONS") = 1..(Len(ms) + 1)
        <5> DEFINE E == {ms[j] : j \in DOMAIN ms}
        <5>1. ms \in Seq(E)
          BY DEF IsList
        <5> HIDE DEF E, ms
        <5>2. ms \in Seq(E \cup {"OPTIONS"}) /\ "OPTIONS" \in E \cup {"OPTIONS"}
          BY <5>1
        <5> QED BY <5>2
      <4>3. 1 \in Int /\ Len(ms) + 1 \in Int
        BY <4>1
      <4> QED BY <4>2, <4>3, FS_Interval
    <3> QED BY <3>1, <3>2, <3>3, <3>4
  <2>2. DOMAIN f = DOMAIN Registered(cfg[i]) /\ f = [n \in DOMAIN Registered(cfg[i]) |-> f[n]]
    OBVIOUS
  <2>3. IsFiniteSet({f[n] : n \in DOMAIN Registered(cfg[i])})
    BY <2>1, <2>2, FiniteImage
  <2>4. of[i] = {f[n] : n \in DOMAIN Registered(cfg[i])}
    OBVIOUS
  <2> QED BY <2>3, <2>4
<1>2. Patterns(cfg) = UNION {of[i] : i \in DOMAIN cfg}
  BY DEF Patterns
<1>3. DOMAIN of = DOMAIN cfg /\ of = [i \in DOMAIN cfg |-> of[i]]
  OBVIOUS
<1> HIDE DEF of
<1>4. IsFiniteSet({of[i] : i \in DOMAIN cfg})
  BY <1>3, FiniteImage, ListDomainFinite
<1> QED BY <1>1, <1>2, <1>4, FS_UNION

(***************************************************************************)
(* Since router.Build lets ServeMux refuse patterns that conflict, exactly *)
(* one pattern of an accepted config is the most specific for any request  *)
(* that some pattern matches: routing neither gets stuck nor depends on    *)
(* the order of the services, for any number of them.                      *)
(***************************************************************************)
THEOREM RouteIsUnique ==
    ASSUME NEW cfg, IsList(cfg), \A i \in DOMAIN cfg : IsList(cfg[i].methods), ~Conflict(cfg),
           NEW host, NEW m, NEW path, PatternsFor(cfg, host, m, path) # {}
    PROVE  \E p \in PatternsFor(cfg, host, m, path) :
              MostSpecific(PatternsFor(cfg, host, m, path)) = {p}
<1> DEFINE ps == PatternsFor(cfg, host, m, path)
           Below(p) == {q \in ps : Matched(q) \subseteq Matched(p) /\ Matched(q) # Matched(p)}
           T == {Below(p) : p \in ps}
<1>1. /\ ps \subseteq Patterns(cfg)
      /\ \A p, q \in ps : p.host = q.host /\ Matched(p) \cap Matched(q) # {}
  BY DEF PatternsFor, Candidates
<1>2. \A p, q \in ps : p # q =>
         /\ Matched(p) # Matched(q)
         /\ Matched(p) \subseteq Matched(q) \/ Matched(q) \subseteq Matched(p)
  BY <1>1 DEF Conflict
<1>3. IsFiniteSet(ps)
  BY <1>1, PatternsFinite, FS_Subset
<1> HIDE DEF ps
<1>4. T \subseteq FiniteSubsetsOf(ps) /\ T # {}
  <2>1. ps # {}
    BY DEF ps
  <2>2. \A p \in ps : Below(p) \in SUBSET ps
    OBVIOUS
  <2>3. FiniteSubsetsOf(ps) = SUBSET ps
    BY <1>3, FS_FiniteSubsetsOfFinite
  <2>4. T \subseteq FiniteSubsetsOf(ps)
    BY <2>2, <2>3
  <2>5. PICK p \in ps : TRUE
    BY <2>1
  <2>6. Below(p) \in T
    OBVIOUS
  <2> QED BY <2>4, <2>6
<1>5. PICK B \in T : \A C \in T : ~(<<C, B>> \in StrictSubsetOrdering(ps))
  BY <1>4, FS_StrictSubsetOrderingWellFounded, WFMin
<1>6. PICK p \in ps : B = Below(p)
  OBVIOUS
<1>7. ASSUME NEW q \in ps PROVE Matched(p) \subseteq Matched(q)
  <2> SUFFICES ASSUME ~(Matched(p) \subseteq Matched(q)) PROVE FALSE
    OBVIOUS
  <2>1. q # p /\ Matched(q) \subseteq Matched(p) /\ Matched(q) # Matched(p)
    BY <1>2
  <2>2. q \in Below(p) /\ q \notin Below(q)
    BY <2>1
  <2>3. Below(q) \subseteq Below(p)
    BY <2>1
  <2>4. <<Below(q), Below(p)>> \in StrictSubsetOrdering(ps)
    BY <2>2, <2>3 DEF StrictSubsetOrdering
  <2> QED BY <1>5, <1>6, <2>4
<1>8. MostSpecific(ps) = {p}
  <2>1. p \in MostSpecific(ps)
    BY <1>7 DEF MostSpecific
  <2>2. ASSUME NEW q \in MostSpecific(ps) PROVE q = p
    <3>1. q \in ps /\ Matched(q) \subseteq Matched(p) /\ Matched(p) \subseteq Matched(q)
      BY <1>7 DEF MostSpecific
    <3> QED BY <1>2, <3>1
  <2> QED BY <2>1, <2>2
<1> QED BY <1>8 DEF ps
=============================================================================
