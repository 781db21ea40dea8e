------------------------- MODULE MCCharacterArchive -------------------------
(* Small instances of CharacterArchive for TLC. *)
EXTENDS CharacterArchive

CONSTANTS k1, k2
=============================================================================
