----------------------------- MODULE SugarStore -----------------------------
(***************************************************************************)
(* The rate_limiting plugin's distributed mode (ratelimit_sugardb.go):     *)
(* several gateways count a client's requests in one replicated database.  *)
(* allow is two commands, INCR and, when it began a new counter, EXPIRE    *)
(* after one second; other requests, failures and the end of a gateway     *)
(* come in between.                                                        *)
(*                                                                         *)
(* The database is external and modelled by what the code expects of it:   *)
(* commands are atomic and seen by every gateway, a counter disappears     *)
(* when its time is up.  A key is a plugin's prefix with a client address  *)
(* (namespacedStore), so plugins share none.                               *)
(***************************************************************************)
EXTENDS Integers, Sequences, FiniteSets

CONSTANTS
    Gateways,  \* the processes of the cluster
    Requests,  \* slots for requests in flight
    Keys,      \* namespaced client keys
    Scale,     \* units in one request, so that a fractional burst is a number
    Burst,     \* the plugin's burst in units
    Second,    \* instants in a second
    Faults,    \* what may go wrong: "setup", "incr", "expire", "crash"
    MaxCount   \* bound: counters saturate here, above the limit

\* sugarDBStore.allow: limit := int(burst), at least 1.
Limit == IF Burst \div Scale < 1 THEN 1 ELSE Burst \div Scale

ASSUME SugarAssumption ==
    /\ Scale \in Nat \ {0} /\ Burst \in Nat \ {0}
    /\ Second \in Nat \ {0}
    /\ Faults \subseteq {"setup", "incr", "expire", "crash"}
    /\ MaxCount \in Nat /\ MaxCount > Limit + 1

VARIABLES
    store,   \* gateway -> outcome of getSharedSugarDBStore's sync.Once
    db,      \* external: key -> its counter and the instants it has left
    req,     \* request slot -> its gateway and key, while in allow
    recent   \* history: key -> ages of the requests admitted in the last second,
             \* the newest first

vars == <<store, db, req, recent>>

\* A counter with no expiry set.
Forever == Second + 1

NoCounter == [count |-> 0, ttl |-> Forever]
Idle == [pc |-> "idle"]
Expiring == [pc : {"expire"}, gateway : Gateways, key : Keys, count : 1..MaxCount]

\* The type invariant.
TypeOK ==
    /\ store \in [Gateways -> {"none", "up", "failed"}]
    /\ db \in [Keys -> [count : 0..MaxCount, ttl : 1..Forever]]
    /\ req \in [Requests -> {Idle} \cup Expiring]
    /\ recent \in [Keys -> Seq(0..(Second - 1))]

Init ==
    /\ store = [g \in Gateways |-> "none"]
    /\ db = [k \in Keys |-> NoCounter]
    /\ req = [r \in Requests |-> Idle]
    /\ recent = [k \in Keys |-> << >>]

\* INCR, on a counter that may not exist yet.
Incremented(c) == [c EXCEPT !.count = IF @ < MaxCount THEN @ + 1 ELSE @]

\* The gateway's answer is to let the request through, or not.
Decide(k, admitted) == recent' = [recent EXCEPT ![k] = IF admitted THEN <<0>> \o @ ELSE @]

-----------------------------------------------------------------------------
(* Plausible faults of the operators below. *)

OneMore(count) == count <= Limit + 1
EveryTime(count) == TRUE
AtLimit(count) == count = Limit
ExpireInMinutes(c) == [c EXCEPT !.ttl = 60 * Second]

\* count <= limit
Admits(count) == count <= Limit

\* count == 1: the request began a new counter.
BeginsCounter(count) == count = 1

\* EXPIRE key 1, on a counter that may be gone.
Expired(c) == IF c.count = 0 THEN c ELSE [c EXCEPT !.ttl = Second]

-----------------------------------------------------------------------------
\* The first plugin in distributed mode starts the process's database node;
\* what became of it holds for every later one (sync.Once).
Setup(g, ok) ==
    /\ store[g] = "none"
    /\ ok \/ "setup" \in Faults
    /\ store' = [store EXCEPT ![g] = IF ok THEN "up" ELSE "failed"]
    /\ UNCHANGED <<db, req, recent>>

\* allow up to its INCR.
Incr(r, g, k) ==
    LET c == Incremented(db[k])
    IN  /\ req[r] = Idle
        /\ store[g] = "up"
        /\ db' = [db EXCEPT ![k] = c]
        /\ \/ /\ BeginsCounter(c.count)
              /\ req' = [req EXCEPT ![r] = [pc |-> "expire", gateway |-> g,
                                            key |-> k, count |-> c.count]]
              /\ UNCHANGED recent
           \/ /\ ~BeginsCounter(c.count)
              /\ Decide(k, Admits(c.count))
              /\ UNCHANGED req
        /\ UNCHANGED store

\* INCR reports an error although it was applied, and allow returns false.
\* (An error of an INCR that was not applied changes nothing.)
IncrFails(g, k) ==
    /\ "incr" \in Faults
    /\ store[g] = "up"
    /\ db' = [db EXCEPT ![k] = Incremented(@)]
    /\ UNCHANGED <<store, req, recent>>

\* EXPIRE, and allow returns.
Expire(r) ==
    /\ req[r] # Idle
    /\ db' = [db EXCEPT ![req[r].key] = Expired(@)]
    /\ Decide(req[r].key, Admits(req[r].count))
    /\ req' = [req EXCEPT ![r] = Idle]
    /\ UNCHANGED store

\* EXPIRE fails, and allow returns false.
ExpireFails(r) ==
    /\ "expire" \in Faults
    /\ req[r] # Idle
    /\ req' = [req EXCEPT ![r] = Idle]
    /\ UNCHANGED <<store, db, recent>>

\* A gateway dies with its requests and starts anew; the other members of
\* the cluster keep the counters.
Crash(g) ==
    /\ "crash" \in Faults
    /\ store[g] # "none"
    /\ store' = [store EXCEPT ![g] = "none"]
    /\ req' = [r \in Requests |-> IF req[r] # Idle /\ req[r].gateway = g THEN Idle ELSE req[r]]
    /\ UNCHANGED <<db, recent>>

\* A counter with one instant left disappears.
Aged(c) ==
    CASE c.ttl = Forever -> c
      [] c.ttl = 1 -> NoCounter
      [] OTHER -> [c EXCEPT !.ttl = @ - 1]

\* The requests that are still in the last second an instant later: as many
\* as are young enough, and they are the first ones.
Young(ages) == {i \in DOMAIN ages : ages[i] + 1 < Second}
Older(ages) == [i \in 1..Cardinality(Young(ages)) |-> ages[i] + 1]

Tick ==
    /\ db' = [k \in Keys |-> Aged(db[k])]
    /\ recent' = [k \in Keys |-> Older(recent[k])]
    /\ UNCHANGED <<store, req>>

Next ==
    \/ \E g \in Gateways : Crash(g) \/ (\E ok \in BOOLEAN : Setup(g, ok))
    \/ \E g \in Gateways, k \in Keys : IncrFails(g, k) \/ (\E r \in Requests : Incr(r, g, k))
    \/ \E r \in Requests : Expire(r) \/ ExpireFails(r)
    \/ Tick

Spec == Init /\ [][Next]_vars

\* Time passes, and a request that is in allow gets on.
FairSpec ==
    /\ Spec
    /\ WF_vars(Tick)
    /\ \A r \in Requests : WF_vars(Expire(r) \/ ExpireFails(r))

-----------------------------------------------------------------------------
(* Properties *)

(***************************************************************************)
(* What sugarDBStore's fixed window enforces in every second, wherever it  *)
(* begins and whatever fails, over all gateways: the requests of two       *)
(* windows less the one that began the first, since its EXPIRE gave that   *)
(* window a whole second more.  Requests count from their last command.    *)
(* README's "up to `burst` requests in any given second" is thus exact for *)
(* a burst of 1 only.                                                      *)
(***************************************************************************)
WindowBound == \A k \in Keys : Len(recent[k]) <= 2 * Limit - 1

\* A counter that nobody is about to give an expiry.
Orphaned(k) ==
    /\ db[k].count > 0 /\ db[k].ttl = Forever
    /\ \A r \in Requests : req[r] = Idle \/ req[r].key # k

(***************************************************************************)
(* A client is not blocked for ever: every counter goes away under any     *)
(* traffic, except when the EXPIRE of the request that began it was lost   *)
(* to a failure.                                                           *)
(***************************************************************************)
BlockEnds == \A k \in Keys : (db[k].count > 0) ~> (db[k].count = 0 \/ Orphaned(k))

(***************************************************************************)
(* The two commands alone orphan no counter: a step that does is a failed  *)
(* command or the end of a gateway, and the request it belongs to is not   *)
(* admitted.                                                               *)
(***************************************************************************)
OnlyFailuresOrphan ==
    [][\A k \in Keys : ~Orphaned(k) /\ Orphaned(k)' =>
          /\ \/ \E r \in Requests : ExpireFails(r)
             \/ \E g \in Gateways : IncrFails(g, k) \/ Crash(g)
          /\ recent'[k] = recent[k]]_vars
=============================================================================
