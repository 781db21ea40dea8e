-------------------------- MODULE MCChatDeltaSync --------------------------
(* Model checking of ChatDeltaSync: the bounds are given in the cfg file.  *)
EXTENDS ChatDeltaSync
=============================================================================
