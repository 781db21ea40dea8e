----------------------------- MODULE MCDataImport -----------------------------
(***************************************************************************)
(* Small instances of DataImport for TLC.                                  *)
(***************************************************************************)
EXTENDS DataImport, TLC

===========================================================================
