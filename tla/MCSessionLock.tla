--------------------------- MODULE MCSessionLock ---------------------------
(* Model checking of SessionLock: sessions are interchangeable. *)
EXTENDS SessionLock, TLC

Symmetry == Permutations(Sessions)
=============================================================================
