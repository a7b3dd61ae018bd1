--------------------------- MODULE MCCommitRecord ---------------------------
(***************************************************************************)
(* Instances of CommitRecord for TLC.                                      *)
(***************************************************************************)
EXTENDS CommitRecord

CONSTANTS fast, full, forced
=============================================================================
