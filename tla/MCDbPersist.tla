---------------------------- MODULE MCDbPersist ----------------------------
(* Small instances of DbPersist for TLC. *)
EXTENDS DbPersist
=============================================================================
