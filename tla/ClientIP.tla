------------------------------ MODULE ClientIP ------------------------------
(***************************************************************************)
(* clientip.Resolver (gateway/internal/clientip/clientip.go): the address  *)
(* by which rate_limiting knows a client, found from the direct peer and,  *)
(* as far as trusted proxies vouch for it, from X-Forwarded-For.           *)
(*                                                                         *)
(* An entry of X-Forwarded-For is an address, plain or as an IPv4-mapped   *)
(* IPv6 address, or "empty" (between two commas), or "malformed".  The     *)
(* entries of all the header's lines are one sequence.                     *)
(***************************************************************************)
EXTENDS Integers, Sequences

CONSTANTS
    Clients,  \* addresses that are not trusted
    Proxies,  \* addresses of trusted proxies
    Trusted   \* Resolver.trusted: prefixes, [addrs, mapped]

Addrs == Clients \cup Proxies

AddressForms == {"plain", "mapped"}
Entries == [form : AddressForms \cup {"empty", "malformed"}, ip : Addrs]

IsAddress(entry) == entry.form \in AddressForms

\* A plausible fault: the first address of X-Forwarded-For is believed.
LeftmostAddress(peer, xff) ==
    IF \E i \in DOMAIN xff : IsAddress(xff[i])
    THEN xff[CHOOSE i \in DOMAIN xff : \A j \in DOMAIN xff : IsAddress(xff[j]) => i <= j].ip
    ELSE peer

\* The address is unmapped first, so a prefix written in mapped form
\* contains none.
isTrusted(entry) == \E p \in Trusted : ~p.mapped /\ entry.ip \in p.addrs

\* DEALER_TRUSTED_PROXIES names the proxies, and no client.
ASSUME TrustAssumption ==
    /\ \A p \in Proxies : isTrusted([form |-> "plain", ip |-> p])
    /\ \A c \in Clients : ~isTrusted([form |-> "plain", ip |-> c])

\* The hops the walk from the right takes for the client in turn: all hops
\* to the right of one are addresses of trusted proxies.
Believed(xff) ==
    {i \in DOMAIN xff :
        /\ IsAddress(xff[i])
        /\ \A j \in DOMAIN xff : j > i /\ xff[j].form # "empty" =>
               IsAddress(xff[j]) /\ isTrusted(xff[j])}

\* The last of them, or the peer if there is none or it is not trusted.
Resolve(peer, xff) ==
    IF isTrusted([form |-> "plain", ip |-> peer]) /\ Believed(xff) # {}
    THEN xff[CHOOSE i \in Believed(xff) : \A j \in Believed(xff) : i <= j].ip
    ELSE peer

-----------------------------------------------------------------------------
(* External: how a request gets here.  A client sends whatever it claims   *)
(* in X-Forwarded-For to the first of a chain of proxies, or directly; a   *)
(* proxy appends the address that the request came to it from.             *)

HopsOf(client, via) == <<client>> \o via

PeerOf(client, via) == HopsOf(client, via)[Len(via) + 1]

\* form: how each proxy writes an address.
ForwardedFor(client, claimed, via, form) ==
    claimed \o [i \in 1..Len(via) |-> [form |-> form[i], ip |-> HopsOf(client, via)[i]]]
=============================================================================
