------------------------------- MODULE MCLog -------------------------------
(* The instance of Log for TLC.  It checks liveness, so without symmetry. *)
EXTENDS LogInv
=============================================================================
