----------------------------- MODULE VisitorMap -----------------------------
(***************************************************************************)
(* How far memoryStore's map of visitors grows: RateLimiter with a history *)
(* of its sweeps.  The map shrinks on every sweepEvery-th call only, and   *)
(* requests may bring times to it that lie before a sweep's.               *)
(***************************************************************************)
EXTENDS RateLimiter, FiniteSets

VARIABLES
    touched,  \* history: clients decided since the last sweep, its own too
    sweptAt   \* history: the time of the last sweep

mapVars == <<vars, touched, sweptAt>>

MapInit == Init /\ touched = {} /\ sweptAt = 0

\* allow, and what it means for the map.
AllowAndSweep(w) ==
    /\ Allow(w)
    /\ \/ /\ calls' % sweepEvery = 0
          /\ touched' = {w.key} /\ sweptAt' = w.now
       \/ /\ calls' % sweepEvery # 0
          /\ touched' = touched \cup {w.key} /\ UNCHANGED sweptAt

MapNext ==
    \/ \E w \in waiting : AllowAndSweep(w)
    \/ /\ \/ \E r \in Requests, k \in Keys : ReadNow(r, k)
          \/ Tick
       /\ UNCHANGED <<touched, sweptAt>>

MapSpec == MapInit /\ [][MapNext]_mapVars

(***************************************************************************)
(* The map of visitors does not grow with the number of clients there ever *)
(* were: besides at most sweepEvery of them it holds only those who, at    *)
(* the last sweep, had not been idle for longer than staleAfter, although  *)
(* requests come to the store out of the order of their times.             *)
(***************************************************************************)
MapBounded ==
    /\ Cardinality(touched) <= sweepEvery
    /\ \A k \in DOMAIN visitors \ touched : sweptAt - visitors[k].lastSeen <= staleAfter
=============================================================================
