-------------------------- MODULE MCSlidingWindow --------------------------
(***************************************************************************)
(* An instance of SlidingWindow for TLC: a list of four versions with      *)
(* pages of three gives two runs of the batch, the last page partial.      *)
(***************************************************************************)
EXTENDS SlidingWindow

CONSTANTS v1, v2, v3, v4

FourVersions == <<v1, v2, v3, v4>>
=============================================================================
