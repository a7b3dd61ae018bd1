--------------------------- MODULE MCVersionSync ---------------------------
(***************************************************************************)
(* Instances of VersionSync for TLC: the two schedules of an artifact, and *)
(* one operator who runs the search with a forced reindex.                 *)
(***************************************************************************)
EXTENDS VersionSync

CONSTANTS fast, full, forced

BothSchedules == {fast, full}
Everybody == {fast, full, forced}

Sources == [r \in Run |-> IF r = fast THEN "metadata" ELSE "search"]
Forces == [r \in Run |-> r = forced]
=============================================================================
