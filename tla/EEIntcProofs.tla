----------------------------- MODULE EEIntcProofs -----------------------------
(***************************************************************************)
(* Theorems about EEIntc for every number of lines, table entries, alarms  *)
(* and passes.                                                             *)
(***************************************************************************)
EXTENDS EEIntc, TLAPS

USE DEF Line, Slot, Alarm, Time, Free, Pending, Then

LEMMA TickType ==
  ASSUME TypeOK, NEW n \in 0..MaxTick, NEW raised \in SUBSET Line, Tick(n, raised)
  PROVE  /\ stat' \subseteq Line /\ mask' \subseteq Line
         /\ handlers' \subseteq Line \X Slot /\ owed' \subseteq Line \X Slot
         /\ alarms' \in [Alarm -> {Free, Pending} \cup Time]
         /\ unfired' \in [Alarm -> Int]
<1>1. n \in Nat
  BY SizesAssumption
<1>2. ASSUME NEW i \in Alarm
      PROVE  (IF alarms[i] < 0 THEN alarms[i]
              ELSE IF alarms[i] <= n THEN Pending ELSE alarms[i] - n)
                \in {Free, Pending} \cup Time
  BY <1>1, SizesAssumption DEF TypeOK
<1>3. alarms' \in [Alarm -> {Free, Pending} \cup Time]
  BY <1>2 DEF Tick
<1> QED
  BY <1>3 DEF Tick, Raise, TypeOK

LEMMA StartType ==
  ASSUME TypeOK, NEW next \in At, Start(next)
  PROVE  at' \in At /\ ops' \in 0..MaxOps
<1>1. CASE InThread
  BY <1>1, SizesAssumption DEF Start
<1>2. CASE ops < MaxOps
  BY <1>2, SizesAssumption DEF Start, TypeOK
<1> QED
  BY <1>1, <1>2 DEF Start

LEMMA AnyTickType ==
  ASSUME TypeOK, AnyTick
  PROVE  /\ stat' \subseteq Line /\ mask' \subseteq Line
         /\ handlers' \subseteq Line \X Slot /\ owed' \subseteq Line \X Slot
         /\ alarms' \in [Alarm -> {Free, Pending} \cup Time]
         /\ unfired' \in [Alarm -> Int]
<1>1. PICK n \in 0..MaxTick, raised \in {{}} \cup {{l} : l \in Line} : Tick(n, raised)
  BY DEF AnyTick
<1>2. raised \in SUBSET Line
  OBVIOUS
<1> QED
  BY <1>1, <1>2, TickType

LEMMA CallType ==
  ASSUME TypeOK, Call
  PROVE  TypeOK'
<1>1. CASE \E l \in Line : AddHandler(l)
  <2>1. PICK l \in Line : AddHandler(l)
    BY <1>1
  <2>2. handlers \subseteq Line \X Slot
    BY DEF TypeOK
  <2>3. handlers' = handlers \/ \E s \in Slot : handlers' = handlers \cup {<<l, s>>}
    BY <2>1 DEF AddHandler
  <2>4. handlers' \subseteq Line \X Slot
    BY <2>2, <2>3
  <2> QED
    BY <2>1, <2>4 DEF AddHandler, Return, TypeOK, At, alarmVars, deliverVars, readVars
<1>2. CASE \E l \in Line : Enable(l) \/ Disable(l)
  BY <1>2 DEF Enable, Disable, Return, TypeOK, At, alarmVars, deliverVars, readVars
<1>3. CASE \E l \in Line, s \in Slot : RemoveHandler(l, s)
  BY <1>3 DEF RemoveHandler, Return, TypeOK, At, alarmVars, deliverVars, readVars
<1>4. CASE \E t \in Time : SetAlarm(t)
  <2>1. PICK t \in Time : SetAlarm(t)
    BY <1>4
  <2>2. /\ alarms' \in [Alarm -> {Free, Pending} \cup Time]
        /\ unfired' \in [Alarm -> Int]
    BY <2>1 DEF SetAlarm, TypeOK, alarmVars
  <2> QED
    BY <2>1, <2>2 DEF SetAlarm, Return, TypeOK, At, lineVars, deliverVars, readVars
<1>5. CASE \E i \in Alarm : ReleaseAlarm(i)
  <2>1. PICK i \in Alarm : ReleaseAlarm(i)
    BY <1>5
  <2>2. /\ alarms' \in [Alarm -> {Free, Pending} \cup Time]
        /\ unfired' \in [Alarm -> Int]
    BY <2>1 DEF ReleaseAlarm, TypeOK, alarmVars
  <2> QED
    BY <2>1, <2>2 DEF ReleaseAlarm, Return, TypeOK, At, lineVars, deliverVars, readVars
<1>6. CASE OtherCall
  BY <1>6 DEF OtherCall, Return, TypeOK, At, lineVars, alarmVars, deliverVars, readVars
<1> QED
  BY <1>1, <1>2, <1>3, <1>4, <1>5, <1>6 DEF Call

LEMMA AccessType ==
  ASSUME TypeOK, Access
  PROVE  TypeOK'
<1>0. "bill" \in At /\ "point" \in At /\ "sample" \in At
  BY DEF At
<1>1. ASSUME Write
      PROVE  /\ at' \in At /\ ops' \in 0..MaxOps
             /\ UNCHANGED <<alarms, unfired, phase, pass, todo, apend, line, slot,
                            exhausted, fresh, missed, eie>>
  BY <1>0, <1>1, StartType DEF Write, alarmVars, deliverVars, readVars
<1>2. CASE \E ls \in SUBSET Intc : WriteIStat(ls) \/ WriteIMask(ls)
  <2>1. PICK ls \in SUBSET Intc : WriteIStat(ls) \/ WriteIMask(ls)
    BY <1>2
  <2>2. ls \subseteq Line
    BY SizesAssumption DEF Intc
  <2>3. Write
    BY <2>1 DEF WriteIStat, WriteIMask
  <2>4. /\ stat' \subseteq Line /\ mask' \subseteq Line
        /\ handlers' \subseteq Line \X Slot /\ owed' \subseteq Line \X Slot
    BY <2>1, <2>2 DEF WriteIStat, WriteIMask, Clear, Toggle, TypeOK
  <2> QED
    BY <1>1, <2>3, <2>4 DEF TypeOK
<1>3. CASE \E ls, ms \in SUBSET Dmac : WriteDStat(ls, ms)
  <2>1. PICK ls \in SUBSET Dmac, ms \in SUBSET Dmac : WriteDStat(ls, ms)
    BY <1>3
  <2>2. ls \subseteq Line /\ ms \subseteq Line
    BY SizesAssumption DEF Dmac
  <2>3. /\ stat' \subseteq Line /\ mask' \subseteq Line
        /\ handlers' \subseteq Line \X Slot /\ owed' \subseteq Line \X Slot
    BY <2>1, <2>2 DEF WriteDStat, Clear, Toggle, TypeOK
  <2> QED
    BY <1>1, <2>1, <2>3 DEF TypeOK, WriteDStat
<1>4. CASE \E l \in Line : StartTransfer(l)
  <2>1. PICK l \in Line : StartTransfer(l)
    BY <1>4
  <2>2. /\ stat' \subseteq Line /\ mask' \subseteq Line
        /\ handlers' \subseteq Line \X Slot /\ owed' \subseteq Line \X Slot
    BY <2>1 DEF StartTransfer, Raise, TypeOK
  <2> QED
    BY <1>1, <2>1, <2>2 DEF TypeOK, StartTransfer
<1>5. CASE WriteBilled
  BY <1>5, <1>0, AnyTickType DEF WriteBilled, TypeOK, deliverVars, readVars
<1>6. CASE ReadStat
  <2>1. PICK n \in 0..MaxTick, raised \in {{}} \cup {{l} : l \in Line} :
          Tick(n, raised) /\ fresh' = raised
    BY <1>6 DEF ReadStat
  <2>2. raised \in SUBSET Line
    OBVIOUS
  <2>3. Start("sample") /\ UNCHANGED <<deliverVars, missed, eie>>
    BY <1>6 DEF ReadStat
  <2>4. at' \in At /\ ops' \in 0..MaxOps
    BY <1>0, <2>3, StartType
  <2> QED
    BY <2>1, <2>2, <2>3, <2>4, TickType DEF TypeOK, deliverVars
<1>7. CASE Sample
  BY <1>7, <1>0 DEF Sample, TypeOK, lineVars, alarmVars, deliverVars
<1> QED
  BY <1>2, <1>3, <1>4, <1>5, <1>6, <1>7 DEF Access

LEMMA GuestType ==
  ASSUME TypeOK, Guest
  PROVE  TypeOK'
<1>0. "call" \in At /\ "point" \in At /\ "runs" \in At
  BY DEF At
<1>1. CASE Syscall
  BY <1>0, <1>1, StartType, AnyTickType DEF Syscall, TypeOK, deliverVars, readVars
<1>2. CASE Backedge
  BY <1>0, <1>2, StartType, AnyTickType DEF Backedge, TypeOK, deliverVars, readVars
<1>3. CASE Ei
  BY <1>0, <1>3, StartType DEF Ei, TypeOK, lineVars, alarmVars, deliverVars, readVars
<1>4. CASE Di
  BY <1>0, <1>4, StartType DEF Di, TypeOK, lineVars, alarmVars, deliverVars, readVars
<1> QED
  BY <1>1, <1>2, <1>3, <1>4, CallType, AccessType DEF Guest
LEMMA DispatchType ==
  ASSUME TypeOK, Dispatch
  PROVE  TypeOK'
<1>0. "deliver" \in At /\ "runs" \in At
  BY DEF At
<1>1. CASE BeginPass
  <2>1. pass' \in 0..MaxPasses
    BY <1>1, PassesAssumption DEF BeginPass, PassesLeft, TypeOK
  <2> QED
    BY <1>1, <2>1 DEF BeginPass, TypeOK, Phase, AlarmPending, guestVars, lineVars,
                      alarmVars, readVars
<1>2. CASE ServeLine
  <2>1. PICK l \in todo : line' = l /\ todo' = todo \ {l} /\ stat' = stat \ {l}
    BY <1>2 DEF ServeLine
  <2> QED
    BY <1>2, <2>1 DEF ServeLine, TypeOK, Phase, guestVars, alarmVars, readVars
<1>3. CASE LineServed
  BY <1>3 DEF LineServed, TypeOK, Phase, guestVars, lineVars, alarmVars, readVars
<1>4. CASE LinesServed
  BY <1>4 DEF LinesServed, TypeOK, Phase, guestVars, lineVars, alarmVars, readVars
<1>5. CASE \E s \in Slot : CallHandler(s)
  <2>1. PICK s \in Slot : CallHandler(s)
    BY <1>5
  <2>2. slot' \in Nat /\ 0 \in 0..MaxOps
    BY <2>1, SizesAssumption DEF CallHandler
  <2> QED
    BY <1>0, <2>1, <2>2 DEF CallHandler, TypeOK, Phase, alarmVars, readVars
<1>6. CASE HandlerReturns \/ AlarmReturns
  <2>1. 0 \in 0..MaxOps
    BY SizesAssumption
  <2> QED
    BY <1>0, <1>6, <2>1 DEF HandlerReturns, AlarmReturns, TypeOK, Phase, lineVars,
                            alarmVars, readVars
<1>7. CASE \E i \in Alarm : FireAlarm(i)
  <2>1. PICK i \in Alarm : FireAlarm(i)
    BY <1>7
  <2>2. slot' \in Nat /\ 0 \in 0..MaxOps
    BY <2>1, SizesAssumption DEF FireAlarm
  <2>3. /\ alarms' \in [Alarm -> {Free, Pending} \cup Time]
        /\ unfired' \in [Alarm -> Int]
    BY <2>1 DEF FireAlarm, TypeOK
  <2> QED
    BY <1>0, <2>1, <2>2, <2>3 DEF FireAlarm, TypeOK, Phase, lineVars, readVars
<1>8. CASE AlarmsFired
  BY <1>8 DEF AlarmsFired, TypeOK, Phase, guestVars, lineVars, alarmVars, readVars
<1>9. CASE LeaveDelivery
  BY <1>0, <1>9 DEF LeaveDelivery, TypeOK, Phase, Work, AlarmPending, lineVars,
                    alarmVars, readVars
<1> QED
  BY <1>1, <1>2, <1>3, <1>4, <1>5, <1>6, <1>7, <1>8, <1>9 DEF Dispatch

LEMMA DeliverType ==
  ASSUME TypeOK, Deliver
  PROVE  TypeOK'
<1>1. CASE NoDelivery
  BY <1>1 DEF NoDelivery, TypeOK, At, Work, AlarmPending, InThread, lineVars,
              alarmVars, readVars
<1>2. CASE EnterDelivery
  <2>1. 0 \in 0..MaxPasses
    BY PassesAssumption
  <2> QED
    BY <1>2, <2>1 DEF EnterDelivery, TypeOK, At, Phase, lineVars, alarmVars, readVars
<1> QED
  BY <1>1, <1>2, DispatchType DEF Deliver

\* Type correctness; in particular no delivery takes more than MaxPasses
\* passes (intc.cpp:276).
THEOREM TypeCorrect == Spec => []TypeOK
<1>1. Init => TypeOK
  <2> SUFFICES ASSUME Init PROVE TypeOK
    OBVIOUS
  <2>1. 0 \in 0..MaxOps /\ 0 \in 0..MaxPasses
    BY SizesAssumption, PassesAssumption
  <2>2. /\ alarms \in [Alarm -> {Free, Pending} \cup Time]
        /\ unfired \in [Alarm -> Int]
    BY DEF Init
  <2>3. slot \in Nat /\ line \in Line \cup {0} /\ at \in At /\ phase \in Phase
    BY DEF Init, At, Phase
  <2> QED
    BY <2>1, <2>2, <2>3 DEF Init, TypeOK
<1>2. TypeOK /\ [Next]_vars => TypeOK'
  <2> SUFFICES ASSUME TypeOK, [Next]_vars PROVE TypeOK'
    OBVIOUS
  <2>1. CASE UNCHANGED vars
    BY <2>1 DEF TypeOK, vars, guestVars, lineVars, alarmVars, deliverVars, readVars
  <2> QED
    BY <2>1, GuestType, DeliverType DEF Next
<1> QED
  BY <1>1, <1>2, PTL DEF Spec
-----------------------------------------------------------------------------
(* NoLostInterrupt *)

\* NoLostInterrupt is not inductive alone: a dispatch passes over the entries
\* without a handler, so that none of them may be owed a call.
LostInv == owed \subseteq handlers /\ NoLostInterrupt

\* Guest code leaves the dispatch under way alone and clears a status bit only
\* together with what is owed for it.
LEMMA GuestKeepsOwed ==
  ASSUME TypeOK, LostInv, Guest
  PROVE  LostInv'
<1>1. UNCHANGED <<phase, line, slot>>
  BY DEF Guest, Syscall, Call, AddHandler, RemoveHandler, Enable, Disable, SetAlarm,
         ReleaseAlarm, OtherCall, Return, Access, WriteIStat, WriteIMask, WriteDStat,
         StartTransfer, Write, WriteBilled, ReadStat, Sample, Backedge, Ei, Di, deliverVars
<1>2. \A h : StillToRun(h) => StillToRun(h)'
  BY <1>1 DEF StillToRun
<1>3. ASSUME NEW ls, Raise(ls)
      PROVE  LostInv'
  BY <1>2, <1>3 DEF Raise, LostInv, NoLostInterrupt
<1>4. ASSUME AnyTick
      PROVE  LostInv'
  BY <1>3, <1>4 DEF AnyTick, Tick
<1>5. ASSUME NEW ls, Clear(ls), UNCHANGED handlers
      PROVE  LostInv'
  BY <1>2, <1>5 DEF Clear, LostInv, NoLostInterrupt
<1>6. ASSUME UNCHANGED <<stat, handlers, owed>>
      PROVE  LostInv'
  BY <1>2, <1>6 DEF LostInv, NoLostInterrupt
<1>7. CASE Call
  <2>1. ASSUME NEW l \in Line, AddHandler(l)
        PROVE  LostInv'
    <3>1. handlers \subseteq handlers' /\ UNCHANGED <<stat, owed>>
      BY <2>1 DEF AddHandler
    <3> QED
      BY <1>2, <3>1 DEF LostInv, NoLostInterrupt
  <2>2. ASSUME NEW l \in Line, NEW s \in Slot, RemoveHandler(l, s)
        PROVE  LostInv'
    BY <1>2, <2>2 DEF RemoveHandler, LostInv, NoLostInterrupt
  <2>3. CASE \/ \E l \in Line : Enable(l) \/ Disable(l)
             \/ \E t \in Time : SetAlarm(t)
             \/ \E i \in Alarm : ReleaseAlarm(i)
             \/ OtherCall
    BY <1>6, <2>3 DEF Enable, Disable, SetAlarm, ReleaseAlarm, OtherCall, lineVars
  <2> QED
    BY <1>7, <2>1, <2>2, <2>3 DEF Call
<1>8. CASE Access
  BY <1>8, <1>3, <1>4, <1>5, <1>6
     DEF Access, WriteIStat, WriteIMask, WriteDStat, StartTransfer, WriteBilled, ReadStat,
         Tick, Sample, lineVars
<1>9. CASE Syscall \/ Backedge
  BY <1>4, <1>9 DEF Syscall, Backedge
<1>10. CASE Ei \/ Di
  BY <1>6, <1>10 DEF Ei, Di, lineVars
<1> QED
  BY <1>7, <1>8, <1>9, <1>10 DEF Guest

\* The delivery clears the bit of a line only when its dispatch begins at the
\* first entry, and passes over entries without a handler only.
LEMMA DeliverKeepsOwed ==
  ASSUME TypeOK, LostInv, Deliver
  PROVE  LostInv'
<1>0. owed \subseteq Line \X Slot
  BY DEF TypeOK
<1>1. CASE ServeLine
  <2>1. PICK l \in todo : line' = l /\ stat' = stat \ {l}
    BY <1>1 DEF ServeLine
  <2>2. slot' = 1 /\ phase = "lines" /\ phase' = "slots" /\ UNCHANGED <<handlers, owed>>
    BY <1>1 DEF ServeLine
  <2>3. ASSUME NEW h \in owed
        PROVE  h[1] \in stat' \/ StillToRun(h)'
    <3>1. h[1] \in stat /\ h[2] \in Nat /\ h[2] >= 1
      BY <1>0, <2>2, SizesAssumption DEF LostInv, NoLostInterrupt, StillToRun
    <3> QED
      BY <2>1, <2>2, <3>1 DEF StillToRun
  <2> QED
    BY <2>2, <2>3 DEF LostInv, NoLostInterrupt
<1>2. CASE \E s \in Slot : CallHandler(s)
  <2>1. PICK s \in Slot : CallHandler(s)
    BY <1>2
  <2>2. /\ phase = "slots" /\ phase' = "handler" /\ slot' = s + 1
        /\ owed' = owed \ {<<line, s>>} /\ UNCHANGED <<stat, handlers, line>>
    BY <2>1 DEF CallHandler
  <2>3. ASSUME NEW h \in owed', h[1] \notin stat
        PROVE  StillToRun(h)'
    <3>1. h \in owed /\ h[1] = line /\ h[2] \in Slot /\ h[2] >= slot /\ h = <<line, h[2]>>
      BY <1>0, <2>2, <2>3 DEF LostInv, NoLostInterrupt, StillToRun
    <3>2. h[2] # s
      BY <2>2, <2>3, <3>1
    <3>3. <<line, h[2]>> \in handlers
      BY <3>1 DEF LostInv
    <3>4. h[2] \notin slot..(s - 1)
      BY <2>1, <3>3 DEF CallHandler
    <3>5. h[2] >= s + 1
      BY <3>1, <3>2, <3>4, SizesAssumption DEF TypeOK
    <3> QED
      BY <2>2, <3>1, <3>5 DEF StillToRun
  <2> QED
    BY <2>2, <2>3 DEF LostInv, NoLostInterrupt
<1>3. CASE HandlerReturns
  BY <1>3 DEF HandlerReturns, LostInv, NoLostInterrupt, StillToRun, lineVars
<1>4. CASE LineServed
  <2>1. ASSUME NEW h \in owed
        PROVE  ~ StillToRun(h)
    <3>1. h \in handlers /\ h[2] \in Slot /\ h = <<h[1], h[2]>>
      BY <1>0 DEF LostInv
    <3> QED
      BY <1>4, <3>1 DEF LineServed, StillToRun
  <2> QED
    BY <1>4, <2>1 DEF LineServed, LostInv, NoLostInterrupt, lineVars
<1>5. ASSUME UNCHANGED lineVars, phase \notin {"slots", "handler"}
      PROVE  LostInv'
  BY <1>5 DEF lineVars, LostInv, NoLostInterrupt, StillToRun
<1>6. CASE NoDelivery
  BY <1>6 DEF NoDelivery, lineVars, LostInv, NoLostInterrupt, StillToRun
<1>7. CASE \/ EnterDelivery \/ BeginPass \/ LinesServed \/ AlarmReturns \/ AlarmsFired
           \/ LeaveDelivery \/ \E i \in Alarm : FireAlarm(i)
  BY <1>5, <1>7 DEF EnterDelivery, InThread, BeginPass, LinesServed, AlarmReturns,
                    AlarmsFired, LeaveDelivery, FireAlarm
<1> QED
  BY <1>1, <1>2, <1>3, <1>4, <1>6, <1>7 DEF Deliver, Dispatch

\* Every handler registered when its line was raised is called, unless it is
\* removed or the guest clears the line (intc.cpp:115-132, 281-294).
THEOREM NoLostInterruptCorrect == Spec => []NoLostInterrupt
<1>1. Init => LostInv
  BY DEF Init, LostInv, NoLostInterrupt
<1>2. TypeOK /\ LostInv /\ [Next]_vars => LostInv'
  <2> SUFFICES ASSUME TypeOK, LostInv, [Next]_vars PROVE LostInv'
    OBVIOUS
  <2>1. CASE UNCHANGED vars
    BY <2>1 DEF LostInv, NoLostInterrupt, StillToRun, vars, lineVars, deliverVars
  <2> QED
    BY <2>1, GuestKeepsOwed, DeliverKeepsOwed DEF Next
<1>3. LostInv => NoLostInterrupt
  BY DEF LostInv
<1> QED
  BY <1>1, <1>2, <1>3, TypeCorrect, PTL DEF Spec
-----------------------------------------------------------------------------
(* PromptDelivery and AlarmsKept *)

\* Thread code runs on with interrupts enabled only behind rt_intc_deliver,
\* which leaves nothing to dispatch or has run out of passes
\* (intc.cpp:266-313).
THEOREM PromptDeliveryCorrect == Spec => []PromptDelivery
<1>1. Init => PromptDelivery
  BY DEF Init, PromptDelivery, Work, AlarmPending
<1>2. PromptDelivery /\ [Next]_vars => PromptDelivery'
  <2> SUFFICES ASSUME PromptDelivery, [Next]_vars, at' = "runs", phase' = "none",
                      eie', ~ exhausted'
               PROVE  ~ Work'
    BY DEF PromptDelivery, GuestRuns, InThread
  <2>1. CASE UNCHANGED vars
    BY <2>1 DEF vars, guestVars, lineVars, alarmVars, deliverVars, PromptDelivery,
                GuestRuns, InThread, Work, AlarmPending
  <2>2. CASE Guest
    BY <2>2 DEF Guest, Syscall, Call, AddHandler, RemoveHandler, Enable, Disable,
                SetAlarm, ReleaseAlarm, OtherCall, Return, Access, WriteIStat,
                WriteIMask, WriteDStat, StartTransfer, Write, WriteBilled, ReadStat,
                Sample, Backedge, Ei, Di, Start
  <2>3. CASE NoDelivery
    BY <2>3 DEF NoDelivery, InThread, Work, AlarmPending, lineVars, alarmVars
  <2>4. CASE LeaveDelivery
    BY <2>4 DEF LeaveDelivery, Work, AlarmPending, lineVars, alarmVars
  <2>5. CASE EnterDelivery \/ BeginPass \/ ServeLine \/ LineServed \/ LinesServed
             \/ HandlerReturns \/ AlarmReturns \/ AlarmsFired
             \/ (\E s \in Slot : CallHandler(s)) \/ \E i \in Alarm : FireAlarm(i)
    BY <2>5 DEF EnterDelivery, BeginPass, ServeLine, LineServed, LinesServed,
                HandlerReturns, AlarmReturns, AlarmsFired, CallHandler, FireAlarm
  <2> QED
    BY <2>1, <2>2, <2>3, <2>4, <2>5 DEF Next, Deliver, Dispatch
<1> QED
  BY <1>1, <1>2, PTL DEF Spec

LEMMA TickKeepsAlarms ==
  ASSUME TypeOK, AlarmsKept, AnyTick
  PROVE  AlarmsKept'
<1>1. PICK n \in 0..MaxTick, raised \in {{}} \cup {{l} : l \in Line} : Tick(n, raised)
  BY DEF AnyTick
<1>2. n \in Nat
  BY SizesAssumption
<1>3. ASSUME NEW i \in Alarm
      PROVE  alarms'[i] = Free <=> alarms[i] = Free
  <2>1. alarms'[i] = IF alarms[i] < 0 THEN alarms[i]
                     ELSE IF alarms[i] <= n THEN Pending ELSE alarms[i] - n
    BY <1>1 DEF Tick
  <2>2. alarms[i] \in Int
    BY SizesAssumption DEF TypeOK
  <2> QED
    BY <1>2, <2>1, <2>2
<1> QED
  BY <1>1, <1>3 DEF Tick, AlarmsKept

LEMMA SlotKeepsAlarms ==
  ASSUME TypeOK, AlarmsKept, NEW i \in Alarm,
         \/ /\ alarms[i] = Free
            /\ \E t \in Time : alarms' = [alarms EXCEPT ![i] = t]
            /\ unfired' = [unfired EXCEPT ![i] = @ + 1]
         \/ /\ alarms[i] # Free
            /\ alarms' = [alarms EXCEPT ![i] = Free]
            /\ unfired' = [unfired EXCEPT ![i] = @ - 1]
  PROVE  AlarmsKept'
<1>1. \A t \in Time : t # Free
  BY SizesAssumption
<1>2. ASSUME NEW j \in Alarm
      PROVE  unfired'[j] = (IF alarms'[j] = Free THEN 0 ELSE 1)
  <2>0. alarms \in [Alarm -> Int] /\ unfired \in [Alarm -> Int]
    BY SizesAssumption DEF TypeOK
  <2>1. CASE j = i
    <3>1. unfired[i] = (IF alarms[i] = Free THEN 0 ELSE 1)
      BY DEF AlarmsKept
    <3>2. \/ alarms[i] = Free /\ alarms'[i] # Free /\ unfired'[i] = unfired[i] + 1
          \/ alarms[i] # Free /\ alarms'[i] = Free /\ unfired'[i] = unfired[i] - 1
      BY <1>1, <2>0
    <3> QED
      BY <2>1, <3>1, <3>2
  <2>2. CASE j # i
    <3>1. alarms'[j] = alarms[j] /\ unfired'[j] = unfired[j]
      BY <2>0, <2>2
    <3> QED
      BY <3>1 DEF AlarmsKept
  <2> QED
    BY <2>1, <2>2
<1> QED
  BY <1>2 DEF AlarmsKept

\* No alarm is lost and none runs twice, or after its release
\* (alarms.cpp:180-255, 281-305).
THEOREM AlarmsKeptCorrect == Spec => []AlarmsKept
<1>1. Init => AlarmsKept
  BY DEF Init, AlarmsKept
<1>2. TypeOK /\ AlarmsKept /\ [Next]_vars => AlarmsKept'
  <2> SUFFICES ASSUME TypeOK, AlarmsKept, [Next]_vars PROVE AlarmsKept'
    OBVIOUS
  <2>1. ASSUME UNCHANGED alarmVars
        PROVE  AlarmsKept'
    BY <2>1 DEF alarmVars, AlarmsKept
  <2>2. CASE Call
    <3>1. ASSUME NEW t \in Time, SetAlarm(t)
          PROVE  AlarmsKept'
      <4>1. CASE UNCHANGED alarmVars
        BY <2>1, <4>1
      <4>2. CASE ~ UNCHANGED alarmVars
        <5>1. PICK i \in Alarm :
                /\ alarms[i] = Free
                /\ alarms' = [alarms EXCEPT ![i] = t]
                /\ unfired' = [unfired EXCEPT ![i] = @ + 1]
          BY <3>1, <4>2 DEF SetAlarm
        <5> QED
          BY <5>1, SlotKeepsAlarms
      <4> QED
        BY <4>1, <4>2
    <3>2. ASSUME NEW i \in Alarm, ReleaseAlarm(i)
          PROVE  AlarmsKept'
      <4>1. CASE UNCHANGED alarmVars
        BY <2>1, <4>1
      <4>2. CASE ~ UNCHANGED alarmVars
        BY <3>2, <4>2, SlotKeepsAlarms DEF ReleaseAlarm
      <4> QED
        BY <4>1, <4>2
    <3>3. CASE \/ \E l \in Line : AddHandler(l) \/ Enable(l) \/ Disable(l)
               \/ \E l \in Line, s \in Slot : RemoveHandler(l, s)
               \/ OtherCall
      BY <2>1, <3>3 DEF AddHandler, Enable, Disable, RemoveHandler, OtherCall
    <3> QED
      BY <2>2, <3>1, <3>2, <3>3 DEF Call
  <2>3. CASE \E i \in Alarm : FireAlarm(i)
    <3>1. PICK i \in Alarm : FireAlarm(i)
      BY <2>3
    <3>2. alarms[i] # Free
      BY <3>1 DEF FireAlarm
    <3> QED
      BY <3>1, <3>2, SlotKeepsAlarms DEF FireAlarm
  <2>4. CASE Syscall \/ Backedge \/ WriteBilled \/ ReadStat
    BY <2>4, TickKeepsAlarms DEF Syscall, Backedge, WriteBilled, ReadStat, AnyTick
  <2>5. CASE \/ \E ls \in SUBSET Intc : WriteIStat(ls) \/ WriteIMask(ls)
             \/ \E ls, ms \in SUBSET Dmac : WriteDStat(ls, ms)
             \/ \E l \in Line : StartTransfer(l)
             \/ Sample \/ Ei \/ Di
    BY <2>1, <2>5 DEF WriteIStat, WriteIMask, WriteDStat, StartTransfer, Write, Sample, Ei, Di
  <2>6. CASE EnterDelivery \/ BeginPass \/ ServeLine \/ LineServed \/ LinesServed
             \/ HandlerReturns \/ AlarmReturns \/ AlarmsFired \/ LeaveDelivery
             \/ NoDelivery \/ \E s \in Slot : CallHandler(s)
    BY <2>1, <2>6 DEF EnterDelivery, BeginPass, ServeLine, LineServed, LinesServed,
           HandlerReturns, AlarmReturns, AlarmsFired, LeaveDelivery, NoDelivery, CallHandler
  <2>7. CASE UNCHANGED vars
    BY <2>1, <2>7 DEF vars
  <2> QED
    BY <2>2, <2>3, <2>4, <2>5, <2>6, <2>7 DEF Next, Guest, Access, Deliver, Dispatch
<1> QED
  BY <1>1, <1>2, TypeCorrect, PTL DEF Spec
-----------------------------------------------------------------------------
(* PollerSeesEvent *)

\* Between the bill of a read and its sample no status bit is cleared: the
\* read waits for the sample and for nothing else, and the loops of a delivery
\* stand still while guest code runs.
Looping == phase \in {"pass", "lines", "slots", "alarms"}
ReadInv ==
  /\ Looping <=> at = "deliver"
  /\ at = "sample" => fresh \subseteq stat
  /\ PollerSeesEvent

LEMMA GuestKeepsRead ==
  ASSUME ReadInv, Guest
  PROVE  ReadInv'
<1>1. ASSUME at # "deliver", at' \notin {"sample", "deliver"}, UNCHANGED <<phase, missed>>
      PROVE  ReadInv'
  BY <1>1 DEF ReadInv, Looping, PollerSeesEvent
<1>2. CASE ReadStat
  <2>1. PICK n \in 0..MaxTick, raised \in {{}} \cup {{l} : l \in Line} :
          Tick(n, raised) /\ fresh' = raised
    BY <1>2 DEF ReadStat
  <2>2. fresh' \subseteq stat'
    BY <2>1 DEF Tick, Raise
  <2>3. at = "runs" /\ at' = "sample" /\ UNCHANGED <<phase, missed>>
    BY <1>2 DEF ReadStat, Start, GuestRuns, deliverVars
  <2> QED
    BY <2>2, <2>3 DEF ReadInv, Looping, PollerSeesEvent
<1>3. CASE Sample
  <2>1. at = "sample" /\ at' = "point" /\ phase' = phase
    BY <1>3 DEF Sample, deliverVars
  <2>2. ~ missed'
    BY <1>3, <2>1 DEF Sample, ReadInv, PollerSeesEvent
  <2> QED
    BY <2>1, <2>2 DEF ReadInv, Looping, PollerSeesEvent
<1>4. CASE Call
  <2>1. Return
    BY <1>4 DEF Call, AddHandler, RemoveHandler, Enable, Disable, SetAlarm, ReleaseAlarm,
                OtherCall
  <2> QED
    BY <1>1, <2>1 DEF Return, deliverVars, readVars
<1>5. CASE \/ \E ls \in SUBSET Intc : WriteIStat(ls) \/ WriteIMask(ls)
           \/ \E ls, ms \in SUBSET Dmac : WriteDStat(ls, ms)
           \/ \E l \in Line : StartTransfer(l)
  <2>1. Write
    BY <1>5 DEF WriteIStat, WriteIMask, WriteDStat, StartTransfer
  <2> QED
    BY <1>1, <2>1 DEF Write, Start, GuestRuns, deliverVars, readVars
<1>6. CASE WriteBilled
  BY <1>1, <1>6 DEF WriteBilled, deliverVars, readVars
<1>7. CASE Syscall \/ Backedge \/ Ei \/ Di
  BY <1>1, <1>7 DEF Syscall, Backedge, Ei, Di, Start, GuestRuns, deliverVars, readVars
<1> QED
  BY <1>2, <1>3, <1>4, <1>5, <1>6, <1>7 DEF Guest, Access

LEMMA DeliverKeepsRead ==
  ASSUME ReadInv, Deliver
  PROVE  ReadInv'
<1>1. CASE NoDelivery \/ EnterDelivery \/ LeaveDelivery
  BY <1>1 DEF NoDelivery, EnterDelivery, LeaveDelivery, ReadInv, Looping, PollerSeesEvent,
              InThread, readVars
<1>2. CASE BeginPass \/ ServeLine \/ LineServed \/ LinesServed \/ AlarmsFired
  <2>1. Looping /\ Looping' /\ UNCHANGED <<at, missed>>
    BY <1>2 DEF BeginPass, ServeLine, LineServed, LinesServed, AlarmsFired, Looping,
                guestVars, readVars
  <2> QED
    BY <2>1 DEF ReadInv, PollerSeesEvent
<1>3. CASE (\E s \in Slot : CallHandler(s)) \/ (\E i \in Alarm : FireAlarm(i))
  <2>1. phase' \in {"handler", "alarm"} /\ at' = "runs" /\ UNCHANGED missed
    BY <1>3 DEF CallHandler, FireAlarm, readVars
  <2> QED
    BY <2>1 DEF ReadInv, Looping, PollerSeesEvent
<1>4. CASE HandlerReturns \/ AlarmReturns
  <2>1. phase' \in {"slots", "alarms"} /\ at' = "deliver" /\ UNCHANGED missed
    BY <1>4 DEF HandlerReturns, AlarmReturns, readVars
  <2> QED
    BY <2>1 DEF ReadInv, Looping, PollerSeesEvent
<1> QED
  BY <1>1, <1>2, <1>3, <1>4 DEF Deliver, Dispatch

\* A loop that polls a status register sees what its own read has raised,
\* before any handler can clear it (mmio.cpp:366-379).
THEOREM PollerSeesEventCorrect == Spec => []PollerSeesEvent
<1>1. Init => ReadInv
  BY DEF Init, ReadInv, Looping, PollerSeesEvent
<1>2. ReadInv /\ [Next]_vars => ReadInv'
  <2>1. ReadInv /\ UNCHANGED vars => ReadInv'
    BY DEF ReadInv, Looping, PollerSeesEvent, vars, guestVars, lineVars, deliverVars, readVars
  <2> QED
    BY <2>1, GuestKeepsRead, DeliverKeepsRead DEF Next
<1>3. ReadInv => PollerSeesEvent
  BY DEF ReadInv
<1> QED
  BY <1>1, <1>2, <1>3, PTL DEF Spec
=============================================================================
