--------------------------- MODULE MCCertReloader ---------------------------
(* The instance of CertReloader that TLC checks: its constants are numbers. *)
EXTENDS CertReloader
=============================================================================
