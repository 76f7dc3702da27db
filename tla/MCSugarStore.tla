---------------------------- MODULE MCSugarStore ----------------------------
(* Model values for SugarStore. *)
EXTENDS SugarStore

CONSTANTS g1, g2, k1, k2, r1, r2
=============================================================================
