---------------------------- MODULE MCNativePresent ----------------------------
(* A bounded instance of NativePresent for TLC. *)
EXTENDS NativePresent
=============================================================================
