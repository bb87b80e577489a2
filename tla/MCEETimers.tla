------------------------------ MODULE MCEETimers ------------------------------
(* Bounded instances of EETimers for TLC. *)
EXTENDS EETimers

\* A bus clock; the two H-blanks differ by a cycle, as 9371 and 9437 differ by
\* less than one per cent.
MCPrescale == [bus |-> 1]
MCHblanks  == {2, 3}

\* Each clock stopped, and running with every combination of reset and
\* interrupts, but for both interrupts at once on the H-blank.
MCModes ==
  {m \in [clks : {"bus", "hblank"}, zret : BOOLEAN, cue : BOOLEAN, cmpe : BOOLEAN,
          ovfe : BOOLEAN] :
     /\ m.cue \/ ~ (m.cmpe \/ m.ovfe \/ m.zret)
     /\ m.clks = "bus" \/ ~ (m.cmpe /\ m.ovfe)}
=============================================================================
