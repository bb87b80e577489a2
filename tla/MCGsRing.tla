------------------------------ MODULE MCGsRing ------------------------------
(* Bounded instances of GsRing for TLC. *)
EXTENDS GsRing
=============================================================================
