------------------------------ MODULE SectorRing ------------------------------
(***************************************************************************)
(* The drive behind sceCdStStart as its clients know it                    *)
(* (the comments above StreamState and stream_ready in                     *)
(* src/runtime/sif/cdvd.cpp): sectors arrive one by one, bus cycle after   *)
(* bus cycle, into the banks of a ring; only whole banks are handed over,  *)
(* a full ring stalls the drive, and a pause freezes it. Cdvd computes the *)
(* same from the virtual clock, only when somebody asks.                   *)
(***************************************************************************)
EXTENDS Integers

CONSTANTS
  Rings,      \* the geometries: records of max, the sectors of a ring, and bank
  PerSector,  \* bus cycles from one sector to the next
  SeekTime,   \* bus cycles from a seek to the first sector
  MaxCycles   \* bound: the most cycles one step passes

VARIABLE
  d           \* the ring, whether the drive runs or is paused, the sectors
              \* of whole banks not handed over yet (usable) and of the bank
              \* being filled (part), the cycles to the next sector (wait)

Stopped(ring) ==
  [ring |-> ring, running |-> FALSE, paused |-> FALSE, usable |-> 0, part |-> 0, wait |-> 0]

Full(s) == s.usable + s.part = s.ring.max

\* The next sector is in; the bank may be whole with it.
Sector(s) ==
  IF s.part + 1 = s.ring.bank
  THEN [s EXCEPT !.part = 0, !.usable = @ + s.ring.bank, !.wait = PerSector]
  ELSE [s EXCEPT !.part = @ + 1, !.wait = PerSector]

Cycle(s) ==
  IF ~s.running \/ s.paused \/ Full(s) THEN s
  ELSE IF s.wait > 1 THEN [s EXCEPT !.wait = @ - 1]
  ELSE Sector(s)

Cycles(n) ==
  LET after[k \in 0..n] == IF k = 0 THEN d ELSE Cycle(after[k - 1])
  IN d' = after[n]

Configure(ring) == d' = Stopped(ring)
Seek  == d' = [Stopped(d.ring) EXCEPT !.running = TRUE, !.wait = SeekTime]
Stop  == d' = Stopped(d.ring)
Pause == d.running /\ d' = [d EXCEPT !.paused = TRUE]
Resume == d' = [d EXCEPT !.paused = FALSE]
Take(n) == n <= d.usable /\ d' = [d EXCEPT !.usable = @ - n]

Init == \E ring \in Rings : d = Stopped(ring)

Next ==
  \/ \E n \in 1..MaxCycles : Cycles(n)
  \/ \E ring \in Rings : Configure(ring)
  \/ Seek \/ Stop \/ Pause \/ Resume
  \/ \E n \in 1..d.usable : Take(n)

Spec == Init /\ [][Next]_d
=============================================================================
