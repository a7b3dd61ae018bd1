----------------------------- MODULE MCRegistry -----------------------------
(* Instances of Registry for TLC. *)
EXTENDS Registry

\* Two spellings of one name.
MCGroup == {"org.Sponge", "org.sponge"}
MCLower == [g \in MCGroup |-> "org.sponge"]
=============================================================================
