-------------------------------- MODULE MCCdvd --------------------------------
(* A bounded instance of Cdvd for TLC. *)
EXTENDS Cdvd

\* Two banks of two sectors, and one bank of three.
MCRings == {[max |-> 4, bank |-> 2], [max |-> 3, bank |-> 3]}
=============================================================================
