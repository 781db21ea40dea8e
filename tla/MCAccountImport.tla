--------------------------- MODULE MCAccountImport ---------------------------
(***************************************************************************)
(* Small instances of AccountImport for TLC.                               *)
(***************************************************************************)
EXTENDS AccountImport, TLC

===========================================================================
