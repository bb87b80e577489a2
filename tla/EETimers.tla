-------------------------------- MODULE EETimers --------------------------------
(***************************************************************************)
(* An EE timer (src/runtime/ee/timers.cpp): COUNT is not kept, it is       *)
(* derived from the virtual clock when somebody reads it, flags are        *)
(* brought up to date when somebody can see them, and the cycle of the     *)
(* next compare or overflow interrupt is remembered until a register is    *)
(* written.  The four timers share that memo and nothing else; the model   *)
(* has one of them, and "others" for what the other three, the fields, the *)
(* SIF and the alarms make the clock stop for.                             *)
(*                                                                         *)
(* rt_clock_tick is taken cycle by cycle: it jumps from event to event,    *)
(* and nothing happens on the cycles it jumps over.  The model keeps how   *)
(* long ago a time was, or how far off it is, and no absolute time.        *)
(*                                                                         *)
(* The operators named Bug... are the plausible mistakes the properties    *)
(* are tested against; nothing in the specification uses them.             *)
(***************************************************************************)
EXTENDS Integers

CONSTANTS
  Width,     \* COUNT and COMP are 0..Width-1, 0x10000 in the code
  Modes,     \* the values of MODE the guest writes
  Prescale,  \* kPrescale
  Hblanks,   \* rt_cycles_per_hblank() in the video modes
  BootHblank,
  MaxAge     \* bound: bus cycles between two rebases of the counter

ASSUME WidthAssumption == Width \in Nat \ {0}
ASSUME ClocksAssumption ==
  /\ "bus" \in DOMAIN Prescale /\ \A c \in DOMAIN Prescale : Prescale[c] \in Nat \ {0}
  /\ Hblanks \subseteq Nat \ {0} /\ BootHblank \in Hblanks
ASSUME MaxAgeAssumption == MaxAge \in Nat
ASSUME ModesAssumption ==
  Modes \subseteq [clks : DOMAIN Prescale \cup {"hblank"}, zret : BOOLEAN, cue : BOOLEAN,
                   cmpe : BOOLEAN, ovfe : BOOLEAN]

VARIABLES
  mode, comp, base,  \* Timer::mode (but for the flags), comp, base_count
  equf, ovff,
  age,               \* rt_clock_now() - base_vclk
  unchecked,         \* cycles since the later of last_check and base_vclk
  valid, next,       \* g_next_event_valid, g_next_event_cache - rt_clock_now()
  stat,              \* the timer's bit of INTC_STAT
  hblank             \* rt_cycles_per_hblank()

timerVars == <<mode, comp, base, equf, ovff, age, unchecked>>
vars == <<timerVars, valid, next, stat, hblank>>

Value == 0..(Width - 1)
Never == -1  \* UINT64_MAX

Init ==
  /\ mode = [clks |-> "bus", zret |-> FALSE, cue |-> FALSE, cmpe |-> FALSE, ovfe |-> FALSE]
  /\ comp = 0 /\ base = 0 /\ equf = FALSE /\ ovff = FALSE
  /\ age = 0 /\ unchecked = 0 /\ valid = FALSE /\ next = Never
  /\ stat = FALSE /\ hblank = BootHblank

-----------------------------------------------------------------------------
(* The derived counter *)

Period(m, h) == IF m.clks = "hblank" THEN h ELSE Prescale[m.clks]
Ticks(m, h, a) == IF m.cue THEN a \div Period(m, h) ELSE 0

\* count_now, of the timer with mode m, when an H-blank is h cycles.
CountNow(m, h) == (base + Ticks(m, h, age)) % Width
Count == CountNow(mode, hblank)

BugCompareNow == (comp - Count) % Width
ToCompare == ((comp - Count - 1) % Width) + 1
ToOverflow == Width - Count

\* timers_next_event_slow: the first of the armed events, in cycles from now.
Events ==
  {((Ticks(mode, hblank, age) + dt) * Period(mode, hblank)) - age :
     dt \in (IF mode.cmpe THEN {ToCompare} ELSE {}) \cup (IF mode.ovfe THEN {ToOverflow} ELSE {})}
NextEventSlow ==
  IF mode.cue /\ Events # {} THEN CHOOSE e \in Events : \A f \in Events : e <= f ELSE Never
NextEvent == IF valid THEN next ELSE NextEventSlow

\* advance_timer's view of the time from the last evaluation to a cycles
\* after base_vclk, u cycles after last_check.
TicksBefore(a, u) == Ticks(mode, hblank, a - u)
Span(a, u)        == Ticks(mode, hblank, a) - TicksBefore(a, u)
CountBefore(a, u) == (base + TicksBefore(a, u)) % Width
Meets(a, u, c)    == ((c - CountBefore(a, u) - 1) % Width) + 1
Crossed(a, u)     == Meets(a, u, comp) <= Span(a, u)
Wrapped(a, u)     == Width - CountBefore(a, u) <= Span(a, u)

BugCheckStays(a, u) ==
  /\ unchecked' = u
  /\ equf' = (equf \/ Crossed(a, u)) /\ ovff' = (ovff \/ Wrapped(a, u))
  /\ stat' = (stat \/ (Crossed(a, u) /\ mode.cmpe) \/ (Wrapped(a, u) /\ mode.ovfe))
  /\ IF Crossed(a, u) /\ mode.zret
       THEN age' = (Span(a, u) - Meets(a, u, comp)) * Period(mode, hblank) /\ base' = 0
       ELSE age' = a /\ base' = base
Advance(a, u) ==
  /\ unchecked' = 0
  /\ equf' = (equf \/ Crossed(a, u)) /\ ovff' = (ovff \/ Wrapped(a, u))
  /\ stat' = (stat \/ (Crossed(a, u) /\ mode.cmpe) \/ (Wrapped(a, u) /\ mode.ovfe))
  /\ IF Crossed(a, u) /\ mode.zret
       THEN age' = (Span(a, u) - Meets(a, u, comp)) * Period(mode, hblank) /\ base' = 0
       ELSE age' = a /\ base' = base

-----------------------------------------------------------------------------
(* The clock *)

\* rt_clock_tick passes one cycle, and stops on it for this timer's event or
\* for another one: rt_timers_run_due evaluates every timer then.
Pass ==
  /\ age < MaxAge /\ NextEvent # 1
  /\ age' = age + 1 /\ unchecked' = unchecked + 1
  /\ valid' = TRUE /\ next' = IF NextEvent = Never THEN Never ELSE NextEvent - 1
  /\ UNCHANGED <<mode, comp, base, equf, ovff, stat, hblank>>
RunDue ==
  /\ age < MaxAge
  /\ Advance(age + 1, unchecked + 1)
  /\ valid' = FALSE /\ next' = Never
  /\ UNCHANGED <<mode, comp, hblank>>

-----------------------------------------------------------------------------
(* Register accesses, and the video mode hook *)

Drop == valid' = FALSE /\ next' = Never

\* COUNT and MODE reads evaluate the timer first.
Read ==
  /\ Advance(age, unchecked)
  /\ IF Crossed(age, unchecked) /\ mode.zret THEN Drop ELSE UNCHANGED <<valid, next>>
  /\ UNCHANGED <<mode, comp, hblank>>

BugKeepMemo(n) ==
  /\ base' = n /\ age' = 0 /\ unchecked' = 0
  /\ UNCHANGED <<mode, comp, equf, ovff, valid, next, stat, hblank>>
WriteCount(n) ==
  /\ base' = n /\ age' = 0 /\ unchecked' = 0 /\ Drop
  /\ UNCHANGED <<mode, comp, equf, ovff, stat, hblank>>

\* clear: the flags written as 1.
WriteMode(m, clear) ==
  /\ equf' = (equf /\ "equf" \notin clear) /\ ovff' = (ovff /\ "ovff" \notin clear)
  /\ mode' = m /\ base' = CountNow(m, hblank) /\ age' = 0 /\ unchecked' = 0 /\ Drop
  /\ UNCHANGED <<comp, stat, hblank>>

WriteComp(n) ==
  /\ comp' = n /\ Drop
  /\ UNCHANGED <<mode, base, equf, ovff, age, unchecked, stat, hblank>>

\* Another timer is accessed.
AccessOther == valid /\ Drop /\ UNCHANGED <<timerVars, stat, hblank>>

\* The guest clears the bit of INTC_STAT, or a delivery does.
Acknowledge == stat /\ stat' = FALSE /\ UNCHANGED <<timerVars, valid, next, hblank>>

\* video_mode_changed runs when the new H-blank is already in force.
SetVideoMode(h) ==
  /\ h # hblank /\ hblank' = h /\ Drop
  /\ IF mode.clks = "hblank"
       THEN base' = CountNow(mode, h) /\ age' = 0 /\ unchecked' = 0
       ELSE UNCHANGED <<base, age, unchecked>>
  /\ UNCHANGED <<mode, comp, equf, ovff, stat>>

Next ==
  \/ Pass \/ RunDue \/ Read \/ AccessOther \/ Acknowledge
  \/ \E n \in Value : WriteCount(n) \/ WriteComp(n)
  \/ \E m \in Modes, clear \in SUBSET {"equf", "ovff"} : WriteMode(m, clear)
  \/ \E h \in Hblanks : SetVideoMode(h)

Spec == Init /\ [][Next]_vars

-----------------------------------------------------------------------------
(* Properties *)

\* Every variable has its type.
TypeOK ==
  /\ mode \in [clks : DOMAIN Prescale \cup {"hblank"}, zret : BOOLEAN, cue : BOOLEAN,
               cmpe : BOOLEAN, ovfe : BOOLEAN]
  /\ comp \in Value /\ base \in Value /\ age \in 0..MaxAge /\ unchecked \in 0..age
  /\ equf \in BOOLEAN /\ ovff \in BOOLEAN /\ stat \in BOOLEAN
  /\ valid \in BOOLEAN /\ next \in Nat \cup {Never} /\ hblank \in Hblanks

\* The memo of the next event is what computing it would give: "the
\* invalidation is complete by construction" (timers.cpp:114-115). And after an
\* event has run the next one is later, so the loop of rt_clock_tick moves on
\* (timers.cpp:236-238).
MemoFresh ==
  /\ valid => next = NextEventSlow
  /\ NextEvent = Never \/ NextEvent > 0

\* Whoever looks sees the counter of UpCounter, in every mode and however
\* evaluations, reads and writes fall (timers.cpp:186-205): stepped cycle by
\* cycle, an armed interrupt raised on the tick that meets it, a compare nobody
\* was woken for settled once and at the next look, and no value of COUNT met
\* that the counter has not been to.
Passed == {c \in Value : Meets(age, unchecked, c) <= Span(age, unchecked)}
Hardware == INSTANCE UpCounter WITH
  count  <- Count,
  phase  <- IF mode.cue THEN age % Period(mode, hblank) ELSE 0,
  equf   <- equf \/ Crossed(age, unchecked),
  ovff   <- ovff \/ Wrapped(age, unchecked),
  passed <- Passed
IsUpCounter == Hardware!Spec

\* "its count at this instant becomes the new base_count" and it "counts on at
\* the new line rate from there" (timers.cpp:125-127).
RebaseKeepsCount == [][hblank' # hblank => Count' = Count]_vars
=============================================================================
