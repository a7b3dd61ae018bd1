------------------------- MODULE MCVersionOrdering -------------------------
(* Instances of VersionOrdering for TLC. *)
EXTENDS VersionOrdering

MCUsesManifest == {"new"}

\* Without a schema 1 and 2 compare equal; "old" puts them in order; "new"
\* follows the manifest, whose next edition turns them round.
MCWeight ==
    [s \in Parsed |-> [m \in 0..Manifest |-> [v \in Version |->
        CASE s = NoSchema -> (v + 1) \div 2
          [] s = "old"    -> v
          [] s = "new"    -> IF m = 0 THEN 4 - v ELSE v + 1]]]

MCRelease == [s \in Parsed |-> Version \cap IF s = "old" THEN {1, 3} ELSE {2}]

MCTagged == [s \in Parsed |-> CASE s = "old" -> Version \ {2}
                                [] s = "new" -> Version
                                [] OTHER     -> {}]
=============================================================================
