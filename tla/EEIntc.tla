-------------------------------- MODULE EEIntc --------------------------------
(***************************************************************************)
(* The EE kernel's interrupt delivery (src/runtime/ee/intc.cpp) and its    *)
(* alarms (src/runtime/ee/alarms.cpp), with the points of guest code that  *)
(* reach them: the end of a system call, a register access, a backedge,    *)
(* the ei instruction.                                                     *)
(*                                                                         *)
(* Guest code runs in a thread, or in a handler that rt_intc_deliver has   *)
(* called; `at' is where that code is, `phase' where the delivery is that  *)
(* called it.  Which thread runs is EESched's business: a thread switch is *)
(* seen here as the ei and di that sched_loop does with g_eie.             *)
(*                                                                         *)
(* Time is counted in ticks of the alarm clock.  The model keeps how far   *)
(* off an alarm is (due - rt_clock_now()) and no absolute time.            *)
(***************************************************************************)
EXTENDS Integers

CONSTANTS
  NIntc, NDmac,  \* INTC causes and DMAC channels, one line each
  NSlots,        \* kMaxHandlersPerLine
  NAlarms,       \* kMaxAlarms
  MaxPasses,     \* the passes one delivery may take, 64 in the code
  MaxTime,       \* bound: the largest time SetAlarm is called with
  MaxTick,       \* bound: the largest number of ticks billed at once
  MaxOps         \* bound: the guest operations of one handler call

ASSUME SizesAssumption ==
  /\ NIntc \in Nat /\ NDmac \in Nat /\ NSlots \in Nat /\ NAlarms \in Nat
  /\ MaxTime \in Nat /\ MaxTick \in Nat /\ MaxOps \in Nat
ASSUME PassesAssumption == MaxPasses \in Nat \ {0}

\* A pass serves the INTC causes first, then the DMAC channels.
Intc == 1..NIntc
Dmac == (NIntc + 1)..(NIntc + NDmac)
Line == 1..(NIntc + NDmac)
Slot == 1..NSlots
Alarm == 1..NAlarms
Time == 0..MaxTime

\* An alarm slot holds the ticks left until its alarm is due, or:
Free    == -2
Pending == -1

VARIABLES
  stat, mask,  \* lines whose status bit is set; lines that are enabled
  handlers,    \* <<line, slot>> entries of g_intc and g_dmac in use
  alarms,      \* g_alarms
  eie,         \* g_eie
  at,          \* guest code: runs, in a syscall (call), past a register write
               \* (bill), before a register is sampled (sample), at
               \* rt_intc_deliver (point), or waiting for a delivery (deliver)
  phase,       \* rt_intc_deliver: none, or where its loops are
  pass, todo, apend,  \* its locals guard, ipend and dpend, and apend
  line, slot,  \* the line being dispatched; where a table loop is
  ops,         \* operations of the running handler so far
  owed,        \* history: handlers registered at a raise and not run since
  unfired,     \* history: per slot, alarms accepted, not released, not run
  fresh,       \* history: lines raised by the bill of the read under way
  missed,      \* history: a read did not see what its own bill had raised
  exhausted    \* history: the last delivery ran out of passes

guestVars   == <<at, ops>>
lineVars    == <<stat, mask, handlers, owed>>
alarmVars   == <<alarms, unfired>>
deliverVars == <<phase, pass, todo, apend, line, slot, exhausted>>
readVars    == <<fresh, missed>>
vars == <<guestVars, lineVars, alarmVars, deliverVars, readVars, eie>>

Init ==
  /\ stat = {} /\ mask = {} /\ handlers = {} /\ owed = {}
  /\ alarms = [i \in Alarm |-> Free] /\ unfired = [i \in Alarm |-> 0]
  /\ eie = TRUE /\ at = "runs" /\ ops = 0
  /\ phase = "none" /\ pass = 0 /\ todo = {} /\ apend = FALSE
  /\ line = 0 /\ slot = 0 /\ exhausted = FALSE
  /\ fresh = {} /\ missed = FALSE

-----------------------------------------------------------------------------
(* The machine between two instructions *)

AlarmPending == \E i \in Alarm : alarms[i] = Pending

\* rt_intc_deliver would find something to dispatch.
Work == stat \cap mask # {} \/ AlarmPending

\* The code of a thread, or of a handler the delivery has called, runs.
GuestRuns == at = "runs"
InThread  == phase = "none"

\* Where guest code goes next.  An access to a register samples it after the
\* clock was billed and before interrupts are delivered.
BugDeliverBeforeSample ==
  [billed |-> "point", sampled |-> "runs", delivered |-> "sample"]
Then == [billed |-> "sample", sampled |-> "point", delivered |-> "runs"]

\* A handler call ends after MaxOps operations at the latest.
Start(next) ==
  /\ GuestRuns
  /\ InThread \/ ops < MaxOps
  /\ at' = next
  /\ ops' = IF InThread THEN 0 ELSE ops + 1

\* rt_intc_raise and rt_dmac_raise.
Raise(ls) ==
  /\ stat' = stat \cup ls
  /\ owed' = owed \cup {h \in handlers : h[1] \in ls}
  /\ UNCHANGED <<mask, handlers>>

\* rt_clock_tick: the events up to the new time raise lines (field edges,
\* timers, the IOP), and rt_alarms_run_due makes the alarms due pending.
Tick(n, raised) ==
  /\ Raise(raised)
  /\ alarms' = [i \in Alarm |->
        IF alarms[i] < 0 THEN alarms[i]
        ELSE IF alarms[i] <= n THEN Pending
        ELSE alarms[i] - n]
  /\ UNCHANGED unfired

AnyTick == \E n \in 0..MaxTick, raised \in {{}} \cup {{l} : l \in Line} : Tick(n, raised)

-----------------------------------------------------------------------------
(* System calls: the clock is billed, the handler runs, then delivery *)

Syscall == Start("call") /\ AnyTick /\ UNCHANGED <<deliverVars, readVars, eie>>

Return == at = "call" /\ at' = "point" /\ UNCHANGED <<ops, deliverVars, readVars, eie>>

\* The lowest free entry of the line, if there is one.
AddHandler(l) ==
  /\ Return
  /\ \/ \E s \in Slot :
          /\ <<l, s>> \notin handlers
          /\ \A r \in 1..(s - 1) : <<l, r>> \in handlers
          /\ handlers' = handlers \cup {<<l, s>>}
     \/ /\ \A s \in Slot : <<l, s>> \in handlers
        /\ UNCHANGED handlers
  /\ UNCHANGED <<stat, mask, owed, alarmVars>>

RemoveHandler(l, s) ==
  /\ Return
  /\ handlers' = handlers \ {<<l, s>>} /\ owed' = owed \ {<<l, s>>}
  /\ UNCHANGED <<stat, mask, alarmVars>>

Enable(l) ==
  Return /\ mask' = mask \cup {l} /\ UNCHANGED <<stat, handlers, owed, alarmVars>>
Disable(l) ==
  Return /\ mask' = mask \ {l} /\ UNCHANGED <<stat, handlers, owed, alarmVars>>

SetAlarm(t) ==
  /\ Return
  /\ \/ \E i \in Alarm :
          /\ alarms[i] = Free
          /\ \A j \in 1..(i - 1) : alarms[j] # Free
          /\ alarms' = [alarms EXCEPT ![i] = t]
          /\ unfired' = [unfired EXCEPT ![i] = @ + 1]
     \/ /\ \A i \in Alarm : alarms[i] # Free
        /\ UNCHANGED alarmVars
  /\ UNCHANGED lineVars

ReleaseAlarm(i) ==
  /\ Return
  /\ \/ alarms[i] = Free /\ UNCHANGED alarmVars
     \/ /\ alarms[i] # Free
        /\ alarms' = [alarms EXCEPT ![i] = Free]
        /\ unfired' = [unfired EXCEPT ![i] = @ - 1]
  /\ UNCHANGED lineVars

OtherCall == Return /\ UNCHANGED <<lineVars, alarmVars>>

-----------------------------------------------------------------------------
(* Register accesses, backedges, ei and di *)

Write ==
  Start("bill") /\ UNCHANGED <<alarmVars, deliverVars, readVars, eie>>

\* Write 1 to clear, write 1 to toggle.
Clear(ls) ==
  stat' = stat \ ls /\ owed' = {h \in owed : h[1] \notin ls}
Toggle(ls) ==
  mask' = (mask \ ls) \cup (ls \ mask)

WriteIStat(ls) == Write /\ Clear(ls) /\ UNCHANGED <<mask, handlers>>
WriteIMask(ls) == Write /\ Toggle(ls) /\ UNCHANGED <<stat, handlers, owed>>
WriteDStat(ls, ms) == Write /\ Clear(ls) /\ Toggle(ms) /\ UNCHANGED handlers

\* A write that starts a transfer, which is over and has raised its line
\* before the store completes.
StartTransfer(l) == Write /\ Raise({l})

WriteBilled ==
  /\ at = "bill" /\ at' = "point"
  /\ AnyTick
  /\ UNCHANGED <<ops, deliverVars, readVars, eie>>

ReadStat ==
  /\ Start(Then.billed)
  /\ \E n \in 0..MaxTick, raised \in {{}} \cup {{l} : l \in Line} :
       Tick(n, raised) /\ fresh' = raised
  /\ UNCHANGED <<deliverVars, missed, eie>>

Sample ==
  /\ at = "sample" /\ at' = Then.sampled
  /\ missed' = (missed \/ ~ fresh \subseteq stat)
  /\ fresh' = {}
  /\ UNCHANGED <<ops, lineVars, alarmVars, deliverVars, eie>>

Backedge == Start("point") /\ AnyTick /\ UNCHANGED <<deliverVars, readVars, eie>>

BugEnableOnly ==
  /\ Start("runs") /\ eie' = TRUE
  /\ UNCHANGED <<lineVars, alarmVars, deliverVars, readVars>>
Ei ==
  /\ Start("point") /\ eie' = TRUE
  /\ UNCHANGED <<lineVars, alarmVars, deliverVars, readVars>>
Di ==
  /\ Start("runs") /\ eie /\ eie' = FALSE
  /\ UNCHANGED <<lineVars, alarmVars, deliverVars, readVars>>

-----------------------------------------------------------------------------
(* rt_intc_deliver *)

\* Inside a handler, with interrupts disabled, or with nothing to do, the
\* call returns at once.
NoDelivery ==
  /\ at = "point" /\ at' = Then.delivered
  /\ ~ InThread \/ ~ eie \/ ~ Work
  /\ exhausted' = (exhausted /\ (~ InThread \/ Work))
  /\ UNCHANGED <<ops, lineVars, alarmVars, phase, pass, todo, apend, line, slot,
                 readVars, eie>>

EnterDelivery ==
  /\ at = "point" /\ at' = "deliver"
  /\ InThread /\ eie /\ Work
  /\ phase' = "pass" /\ pass' = 0
  /\ UNCHANGED <<ops, lineVars, alarmVars, todo, apend, line, slot, exhausted,
                 readVars, eie>>

BugPassesOffByOne == pass <= MaxPasses
PassesLeft == pass < MaxPasses

\* What is pending is read once for the pass; a handler of the pass may mask
\* or clear a line read here, which is dispatched all the same.
BugAlarmsWhenIdle ==
  /\ phase = "pass" /\ PassesLeft /\ Work
  /\ pass' = pass + 1 /\ todo' = stat \cap mask
  /\ apend' = (AlarmPending /\ stat \cap mask = {})
  /\ phase' = "lines"
  /\ UNCHANGED <<guestVars, lineVars, alarmVars, line, slot, exhausted, readVars, eie>>
BeginPass ==
  /\ phase = "pass" /\ PassesLeft /\ Work
  /\ pass' = pass + 1 /\ todo' = stat \cap mask /\ apend' = AlarmPending
  /\ phase' = "lines"
  /\ UNCHANGED <<guestVars, lineVars, alarmVars, line, slot, exhausted, readVars, eie>>

\* The status bit is cleared before the line's handlers run.
BugServeOnePerPass ==
  /\ phase = "lines"
  /\ \E l \in todo :
       /\ \A m \in todo : l <= m
       /\ line' = l /\ todo' = {} /\ stat' = stat \ {l}
  /\ slot' = 1 /\ phase' = "slots"
  /\ UNCHANGED <<guestVars, mask, handlers, owed, alarmVars, pass, apend, exhausted,
                 readVars, eie>>
ServeLine ==
  /\ phase = "lines"
  /\ \E l \in todo :
       /\ \A m \in todo : l <= m
       /\ line' = l /\ todo' = todo \ {l} /\ stat' = stat \ {l}
  /\ slot' = 1 /\ phase' = "slots"
  /\ UNCHANGED <<guestVars, mask, handlers, owed, alarmVars, pass, apend, exhausted,
                 readVars, eie>>

\* dispatch_line, over the table as the handlers before left it.
CallHandler(s) ==
  /\ phase = "slots" /\ slot <= s
  /\ <<line, s>> \in handlers
  /\ \A r \in slot..(s - 1) : <<line, r>> \notin handlers
  /\ slot' = s + 1 /\ phase' = "handler" /\ at' = "runs" /\ ops' = 0
  /\ owed' = owed \ {<<line, s>>}
  /\ UNCHANGED <<stat, mask, handlers, alarmVars, pass, todo, apend, line, exhausted,
                 readVars, eie>>
HandlerReturns ==
  /\ phase = "handler" /\ GuestRuns
  /\ phase' = "slots" /\ at' = "deliver" /\ ops' = 0
  /\ UNCHANGED <<lineVars, alarmVars, pass, todo, apend, line, slot, exhausted,
                 readVars, eie>>
BugClearAfterHandlers ==
  /\ phase = "slots" /\ \A s \in Slot : s >= slot => <<line, s>> \notin handlers
  /\ phase' = "lines" /\ stat' = stat \ {line}
  /\ UNCHANGED <<guestVars, mask, handlers, owed, alarmVars, pass, todo, apend, line,
                 slot, exhausted, readVars, eie>>
LineServed ==
  /\ phase = "slots" /\ \A s \in Slot : s >= slot => <<line, s>> \notin handlers
  /\ phase' = "lines"
  /\ UNCHANGED <<guestVars, lineVars, alarmVars, pass, todo, apend, line, slot,
                 exhausted, readVars, eie>>

LinesServed ==
  /\ phase = "lines" /\ todo = {}
  /\ phase' = (IF apend THEN "alarms" ELSE "pass") /\ slot' = 1
  /\ UNCHANGED <<guestVars, lineVars, alarmVars, pass, todo, apend, line, exhausted,
                 readVars, eie>>

\* rt_alarms_dispatch_pending: the slot is free before the handler runs.
FireAlarm(i) ==
  /\ phase = "alarms" /\ slot <= i
  /\ alarms[i] = Pending
  /\ \A j \in slot..(i - 1) : alarms[j] # Pending
  /\ alarms' = [alarms EXCEPT ![i] = Free]
  /\ unfired' = [unfired EXCEPT ![i] = @ - 1]
  /\ slot' = i + 1 /\ phase' = "alarm" /\ at' = "runs" /\ ops' = 0
  /\ UNCHANGED <<lineVars, pass, todo, apend, line, exhausted, readVars, eie>>
BugFreeAfterHandler ==
  /\ phase = "alarm" /\ GuestRuns
  /\ phase' = "alarms" /\ at' = "deliver" /\ ops' = 0
  /\ alarms' = [alarms EXCEPT ![slot - 1] = Free]
  /\ UNCHANGED <<lineVars, unfired, pass, todo, apend, line, slot, exhausted,
                 readVars, eie>>
AlarmReturns ==
  /\ phase = "alarm" /\ GuestRuns
  /\ phase' = "alarms" /\ at' = "deliver" /\ ops' = 0
  /\ UNCHANGED <<lineVars, alarmVars, pass, todo, apend, line, slot, exhausted,
                 readVars, eie>>
AlarmsFired ==
  /\ phase = "alarms" /\ \A i \in Alarm : i >= slot => alarms[i] # Pending
  /\ phase' = "pass"
  /\ UNCHANGED <<guestVars, lineVars, alarmVars, pass, todo, apend, line, slot,
                 exhausted, readVars, eie>>

LeaveDelivery ==
  /\ phase = "pass" /\ ~ (PassesLeft /\ Work)
  /\ phase' = "none" /\ at' = Then.delivered
  /\ exhausted' = Work
  /\ UNCHANGED <<ops, lineVars, alarmVars, pass, todo, apend, line, slot, readVars, eie>>

-----------------------------------------------------------------------------
Call ==
  \/ \E l \in Line : AddHandler(l) \/ Enable(l) \/ Disable(l)
  \/ \E l \in Line, s \in Slot : RemoveHandler(l, s)
  \/ \E t \in Time : SetAlarm(t)
  \/ \E i \in Alarm : ReleaseAlarm(i)
  \/ OtherCall
Access ==
  \/ \E ls \in SUBSET Intc : WriteIStat(ls) \/ WriteIMask(ls)
  \/ \E ls, ms \in SUBSET Dmac : WriteDStat(ls, ms)
  \/ \E l \in Line : StartTransfer(l)
  \/ WriteBilled \/ ReadStat \/ Sample
Guest == Syscall \/ Call \/ Access \/ Backedge \/ Ei \/ Di

Dispatch ==
  \/ BeginPass \/ ServeLine \/ LineServed \/ LinesServed
  \/ \E s \in Slot : CallHandler(s)
  \/ HandlerReturns
  \/ \E i \in Alarm : FireAlarm(i)
  \/ AlarmReturns \/ AlarmsFired \/ LeaveDelivery
Deliver == NoDelivery \/ EnterDelivery \/ Dispatch

Next == Guest \/ Deliver
Spec == Init /\ [][Next]_vars

(***************************************************************************)
(* A call, an access or a delivery that has begun goes on, and a handler   *)
(* returns.  A thread keeps reaching a backedge, where rt_backedge bills   *)
(* the clock, and interrupts are enabled again and again: a thread that    *)
(* has done di does ei, and sched_loop does it on every thread switch.     *)
(***************************************************************************)
FairSpec ==
  /\ Spec
  /\ WF_vars(at # "runs" /\ Next)
  /\ WF_vars(HandlerReturns \/ AlarmReturns)
  /\ SF_vars(InThread /\ Backedge /\ Tick(MaxTick, {}))
  /\ SF_vars(InThread /\ Ei)

-----------------------------------------------------------------------------
(* Correctness *)

At == {"runs", "call", "bill", "sample", "point", "deliver"}
Phase == {"none", "pass", "lines", "slots", "handler", "alarms", "alarm"}

\* The variables hold values of these types: in particular a delivery never
\* takes more passes than intc.cpp:276 allows.
TypeOK ==
  /\ stat \subseteq Line /\ mask \subseteq Line /\ todo \subseteq Line
  /\ handlers \subseteq Line \X Slot /\ owed \subseteq Line \X Slot
  /\ alarms \in [Alarm -> {Free, Pending} \cup Time]
  /\ unfired \in [Alarm -> Int]
  /\ eie \in BOOLEAN /\ at \in At /\ ops \in 0..MaxOps
  /\ phase \in Phase /\ pass \in 0..MaxPasses /\ apend \in BOOLEAN
  /\ line \in Line \cup {0} /\ slot \in Nat
  /\ fresh \subseteq Line /\ missed \in BOOLEAN /\ exhausted \in BOOLEAN

\* The dispatch under way has still to look at the handler entry h.
StillToRun(h) == phase \in {"slots", "handler"} /\ h[1] = line /\ h[2] >= slot

\* A handler registered when its line was raised, and neither removed nor
\* called since, is going to be called: the status bit is set, or the
\* dispatch of the line has not come to it yet.  Raises during the line's own
\* dispatch, or earlier in the pass, are not lost (intc.cpp:281-286, 120-123).
NoLostInterrupt == \A h \in owed : h[1] \in stat \/ StillToRun(h)

\* While thread code runs with interrupts enabled nothing waits to be
\* dispatched, unless the last delivery ran out of passes: every operation
\* that can make something deliverable is followed by a delivery
\* (syscalls.cpp:837, mmio.cpp:379-396, sched.cpp:474, intc.cpp:165-168).
PromptDelivery == (GuestRuns /\ InThread /\ eie /\ ~ exhausted) => ~ Work

\* A guest loop that polls a status register sees the bit an event has set
\* during the read's own bill, although a handler of that line is registered
\* and clears it (mmio.cpp:366-379).
PollerSeesEvent == ~ missed

\* An alarm that SetAlarm accepted runs at most once, and not at all once
\* ReleaseAlarm has answered with its id; until one of the two its slot holds
\* it, whatever handlers arm and release meanwhile (alarms.cpp:219-255,
\* 281-305).
AlarmsKept ==
  \A i \in Alarm : unfired[i] = (IF alarms[i] = Free THEN 0 ELSE 1)

\* A line that is raised and enabled is dispatched, cleared or disabled in the
\* end, also while the handlers of other lines raise those lines as fast as
\* they are served (intc.cpp:276-294); and an armed alarm runs or is released
\* in the end, also while lines are raised all the time (alarms.cpp:265-305,
\* intc.cpp:295).
NothingStarves ==
  /\ \A l \in Line : l \in stat \cap mask ~> l \notin stat \cap mask
  /\ \A i \in Alarm : alarms[i] # Free ~> alarms[i] = Free
=============================================================================
