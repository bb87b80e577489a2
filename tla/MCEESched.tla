------------------------------ MODULE MCEESched ------------------------------
(* Bounded instances of EESched for TLC. *)
EXTENDS EESched

\* Three threads that stay: none exits, is terminated or is freed, and none
\* disables interrupts.  What is left is everything that orders them.
Stays ==
  /\ \A t \in Thread : state'[t] \in {"Free", "Dormant"} => state[t] \in {"Free", "Dormant"}
  /\ \A t \in Thread : state'[t] = "Free" => state[t] = "Free"
  /\ g_eie'
StaysSpec == Init /\ [][Next /\ Stays]_vars

=============================================================================
