------------------------------- MODULE UpCounter -------------------------------
(***************************************************************************)
(* What a guest may expect of an EE timer: the counter of the register     *)
(* list at the top of src/runtime/ee/timers.cpp, stepped bus cycle by bus  *)
(* cycle, its interrupts on their own cycle.  EETimers computes the same   *)
(* counter from the virtual clock only when somebody looks.                *)
(*                                                                         *)
(* The one thing that is late is a compare nobody is woken for: it is      *)
(* settled when the counter is next looked at, and once.  So               *)
(*   - a counter that resets on a compare without an interrupt counts on   *)
(*     past it until a look, which makes up for one reset, and without the *)
(*     part of a tick it is in;                                            *)
(*   - a COMP the counter has been through since the last look counts as   *)
(*     met, with its interrupt and its reset at the next look.             *)
(* And three things are promised less than the hardware's.  A write of     *)
(* MODE that starts, stops or re-clocks the counter, and a change of the   *)
(* video mode under an H-blank counter, leave any COUNT behind.  A write   *)
(* to one of the registers may forget a flag that no look has shown yet.   *)
(* A write of COUNT or MODE forgets a compare that is still to be settled. *)
(***************************************************************************)
EXTENDS Integers

CONSTANTS
  Width,    \* COUNT and COMP are 0..Width-1
  Modes,    \* values of MODE
  Prescale, \* bus cycles per tick of the clocks that do not depend on the video mode
  Hblanks   \* the lengths of an H-blank

VARIABLES
  mode, comp, count, phase, equf, ovff, stat, hblank,
  passed    \* the values counted to since the last look

vars == <<mode, comp, count, phase, equf, ovff, stat, hblank, passed>>

Value  == 0..(Width - 1)
Period == IF mode.clks = "hblank" THEN hblank ELSE Prescale[mode.clks]

\* The counter is at n, p cycles into its tick, and has been to all of q since
\* the last look.  A look settles what it has been to.
Stands(n, p, q, look) ==
  /\ equf' = (equf \/ comp \in q) /\ ovff' = (ovff \/ 0 \in q)
  /\ passed' = IF look THEN {} ELSE q
  /\ stat' = (stat \/ (look /\ comp \in q /\ mode.cmpe) \/ (look /\ 0 \in q /\ mode.ovfe))
  /\ IF look /\ comp \in q /\ mode.zret
       THEN count' = (n - comp) % Width /\ phase' = 0
       ELSE count' = n /\ phase' = p
  /\ UNCHANGED <<mode, comp, hblank>>

\* A tick to a value with an interrupt is looked at on its own cycle.
Tick(n, look) ==
  /\ (n = comp /\ mode.cmpe) \/ (n = 0 /\ mode.ovfe) => look
  /\ Stands(n, 0, passed \cup {n}, look)

Cycle(look) ==
  \/ ~ mode.cue /\ UNCHANGED vars
  \/ mode.cue /\ phase + 1 < Period /\ Stands(count, phase + 1, passed, look)
  \/ mode.cue /\ phase + 1 = Period /\ Tick((count + 1) % Width, look)

\* A read of COUNT or MODE.
Look == Stands(count, phase, passed, TRUE)

WriteCount(n) ==
  /\ count' = n /\ phase' = 0 /\ passed' = {}
  /\ equf' \in {equf, FALSE} /\ ovff' \in {ovff, FALSE}
  /\ UNCHANGED <<mode, comp, stat, hblank>>

WriteComp(n) ==
  /\ comp' = n
  /\ IF n \in passed THEN equf' = TRUE ELSE equf' \in {equf, FALSE}
  /\ UNCHANGED <<mode, count, phase, ovff, stat, hblank, passed>>

\* Write 1 to clear.
WriteMode(m, clear) ==
  /\ mode' = m /\ phase' = 0 /\ passed' = {}
  /\ IF m.cue = mode.cue /\ m.clks = mode.clks THEN count' = count ELSE count' \in Value
  /\ equf' => equf /\ "equf" \notin clear
  /\ ovff' => ovff /\ "ovff" \notin clear
  /\ UNCHANGED <<comp, stat, hblank>>

Acknowledge ==
  stat' = FALSE /\ UNCHANGED <<mode, comp, count, phase, equf, ovff, hblank, passed>>

SetVideoMode(h) ==
  /\ hblank' = h
  /\ IF mode.clks = "hblank"
       THEN /\ count' \in Value /\ phase' = 0 /\ passed' = {}
            /\ (equf' => equf) /\ (ovff' => ovff)
       ELSE UNCHANGED <<count, phase, equf, ovff, passed>>
  /\ UNCHANGED <<mode, comp, stat>>

Init ==
  /\ mode = [clks |-> "bus", zret |-> FALSE, cue |-> FALSE, cmpe |-> FALSE, ovfe |-> FALSE]
  /\ comp = 0 /\ count = 0 /\ phase = 0 /\ equf = FALSE /\ ovff = FALSE /\ stat = FALSE
  /\ passed = {} /\ hblank \in Hblanks

Next ==
  \/ (\E look \in BOOLEAN : Cycle(look)) \/ Look \/ Acknowledge
  \/ \E n \in Value : WriteCount(n) \/ WriteComp(n)
  \/ \E m \in Modes, clear \in SUBSET {"equf", "ovff"} : WriteMode(m, clear)
  \/ \E h \in Hblanks : SetVideoMode(h)

Spec == Init /\ [][Next]_vars
=============================================================================
