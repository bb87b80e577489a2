------------------------------- MODULE MCEEIntc -------------------------------
(* Bounded instances of EEIntc for TLC. *)
EXTENDS EEIntc
=============================================================================
