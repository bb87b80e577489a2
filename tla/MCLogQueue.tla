----------------------------- MODULE MCLogQueue -----------------------------
(* The EE thread and the watchdog, and a ring of two lines. *)
EXTENDS LogQueue
=============================================================================
