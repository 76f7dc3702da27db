-------------------------- MODULE MCGatewayReload --------------------------
(* Model values and symmetry for the runs of GatewayReload. *)
EXTENDS GatewayReload, TLC

CONSTANTS r1, r2

\* Request slots are interchangeable: no definition tells them apart.
SlotSymmetry == Permutations(Requests)
=============================================================================
