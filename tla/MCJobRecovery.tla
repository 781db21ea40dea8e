--------------------------- MODULE MCJobRecovery ---------------------------
(* Model checking of JobRecovery: the bounds are given in the cfg files.   *)
EXTENDS JobRecovery
=============================================================================
