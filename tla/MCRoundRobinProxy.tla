------------------------ MODULE MCRoundRobinProxy ------------------------
(* Model values and symmetry for the runs of RoundRobinProxy. *)
EXTENDS RoundRobinProxy, TLC

CONSTANTS r1, r2, r3

\* Request slots are interchangeable: no definition tells them apart.
SlotSymmetry == Permutations(Requests)
=============================================================================
