------------------------------- MODULE EESched -------------------------------
(***************************************************************************)
(* The guest thread scheduler of the EE kernel (src/runtime/ee/sched.cpp): *)
(* threads as coroutines resumed by sched_loop, one FIFO ready queue per   *)
(* priority, SleepThread/WakeupThread, suspension, and semaphores.         *)
(*                                                                         *)
(* Interrupt delivery is seen from the scheduler's side only: something is *)
(* pending or not, rt_intc_deliver is entered and left, and between the    *)
(* two a handler makes any of the i-calls of the syscall table.  EEIntc    *)
(* models what is pending and which handler runs.                          *)
(*                                                                         *)
(* One action is one kernel call up to the point where its coroutine runs  *)
(* on or yields.  rt_sema_delete's loop is one step per waiter, with every *)
(* other action disabled until the loop ends.                              *)
(*                                                                         *)
(* The operators named Bug... are the plausible mistakes the properties    *)
(* are tested against; nothing in the specification uses them.             *)
(***************************************************************************)
EXTENDS Integers, FiniteSets, SequencesExt

CONSTANTS
  NThreads,    \* thread ids are 1..NThreads; 1 is the boot thread
  NSemas,      \* semaphore ids are 1..NSemas
  MaxPrio,     \* priorities are 0..MaxPrio, 0 the highest
  MaxCount,    \* bound: the largest max_count CreateSema is called with
  MaxWakeups,  \* bound: WakeupThread is not called past this wakeup_count
  Quirks       \* what the guest and the devices do beyond the usual

ASSUME NThreadsAssumption == NThreads \in Nat \ {0}
ASSUME NSemasAssumption   == NSemas \in Nat
ASSUME MaxPrioAssumption  == MaxPrio \in Nat
ASSUME MaxCountAssumption == MaxCount \in Nat \ {0}
ASSUME MaxWakeupsAssumption == MaxWakeups \in Nat

(***************************************************************************)
(* "storm": a delivery may run out of its 64 passes with work pending.     *)
(* "iSuspendRunning": a handler suspends the thread it interrupted.        *)
(* "iFromThread": a thread makes an i-call outside a handler.              *)
(***************************************************************************)
ASSUME QuirksAssumption ==
  Quirks \subseteq {"storm", "iSuspendRunning", "iFromThread"}

Thread == 1..NThreads
Sema   == 1..NSemas
Prio   == 0..MaxPrio

TState == {"Free", "Dormant", "Ready", "Run", "Wait", "Suspend", "WaitSuspend"}

\* EEThread::wait and wait_sema in one: nothing, SleepThread, or a semaphore.
None  == -1
Sleep == 0

\* Whose stack holds the frame of rt_intc_deliver while g_in_interrupt is set:
\* a thread's coroutine, the scheduler's own stack, or none any more.
Nobody    == -1
SchedLoop == 0
Lost      == -2

VARIABLES
  state, priority, wait, release_ret, wakeup_count, pending_delete,
  t_eie,       \* EEThread::eie, the interrupt enable saved with the thread
  co,          \* co[t]: thread t has a coroutine
  ready,       \* g_ready
  alive, count, max_count, waiters,
  cpu,         \* where the host is in sched_loop: loop (its top), idle,
               \* before and resume (around the first rt_intc_set_eie), guest
               \* (a coroutine runs), after and reap (around the second one)
  resumed,     \* sched_loop's local t, 0 when it holds no thread
  g_eie, intr, \* g_eie; g_in_interrupt and where it was set
  pend,        \* an enabled interrupt line or an alarm is pending
  deleting,    \* the semaphore whose waiters rt_sema_delete is releasing
  fatal        \* rt_fatal ended the process

runVars   == <<state, ready>>
waitVars  == <<wait, release_ret>>
lifeVars  == <<pending_delete, co>>
semaVars  == <<alive, count, max_count, waiters>>
schedVars == <<cpu, resumed, g_eie, t_eie>>
endVars   == <<deleting, fatal>>
vars == <<runVars, priority, waitVars, wakeup_count, lifeVars, semaVars, schedVars,
          intr, pend, endVars>>

-----------------------------------------------------------------------------
(* Queues *)

\* ready_remove and the waiter erase loops: drop t from a queue it may be in.
Erase(q, t) ==
  IF Contains(q, t) THEN RemoveAt(q, CHOOSE i \in DOMAIN q : q[i] = t) ELSE q

BugPushBackInFront(rq, p, t) == [rq EXCEPT ![p] = <<t>> \o @]
PushBack(rq, p, t)  == [rq EXCEPT ![p] = Append(@, t)]
BugPushFrontBehind(rq, p, t) == [rq EXCEPT ![p] = Append(@, t)]
PushFront(rq, p, t) == [rq EXCEPT ![p] = <<t>> \o @]

\* A thread more urgent than priority p is ready.
Higher(rq, p) == \E q \in Prio : q < p /\ rq[q] # <<>>

\* best_ready_prio, when some queue is not empty.
IsBest(p) == ready[p] # <<>> /\ ~ Higher(ready, p)
AllBlocked == \A p \in Prio : ready[p] = <<>>

-----------------------------------------------------------------------------
(* Who is on the CPU *)

current == IF cpu \in {"before", "resume", "guest"} THEN resumed ELSE 0

\* rt_intc_deliver, called now, would dispatch something.
CanDeliver == pend /\ g_eie /\ intr = Nobody

Alive == fatal = "no" /\ deleting = 0

\* Guest code of the current thread is running.  It reaches its next call
\* only after the delivery that ended the previous one.
InThread ==
  /\ Alive /\ cpu = "guest" /\ intr # resumed
  /\ CanDeliver => "storm" \in Quirks

\* Guest code of an interrupt handler is running.
InHandler == Alive /\ (intr = SchedLoop \/ (cpu = "guest" /\ intr = resumed))

\* An i-call comes from a handler, any other call from a thread.
Caller(i) ==
  IF i THEN InHandler \/ ("iFromThread" \in Quirks /\ InThread) ELSE InThread

\* rt_syscall's rt_clock_tick: the call may make an interrupt pending.
Tick == IF InThread THEN pend' \in {pend, TRUE} ELSE pend' = pend

\* mco_yield, and sched_loop up to its second rt_intc_set_eie.
BugYieldDisabled ==
  /\ cpu' = "after"
  /\ t_eie' = [t_eie EXCEPT ![resumed] = g_eie]
  /\ UNCHANGED <<resumed, g_eie>>
Yield ==
  /\ cpu' = "after"
  /\ t_eie' = [t_eie EXCEPT ![resumed] = g_eie]
  /\ g_eie' = TRUE
  /\ UNCHANGED resumed

Return == UNCHANGED schedVars

\* rt_sched_maybe_preempt as the last call of an operation that leaves the
\* ready queues rq and the thread states st.
BugPreemptInHandler(rq, st) ==
  IF cpu = "guest" /\ st[resumed] = "Run" /\ Higher(rq, priority[resumed])
  THEN /\ ready' = PushFront(rq, priority[resumed], resumed)
       /\ state' = [st EXCEPT ![resumed] = "Ready"]
       /\ Yield
  ELSE ready' = rq /\ state' = st /\ Return
BugPreemptStaysRun(rq, st) ==
  /\ ready' = rq /\ state' = st
  /\ IF intr = Nobody /\ cpu = "guest" /\ Higher(rq, priority[resumed]) THEN Yield ELSE Return
MaybePreempt(rq, st) ==
  IF /\ intr = Nobody /\ cpu = "guest" /\ st[resumed] = "Run"
     /\ Higher(rq, priority[resumed])
  THEN /\ ready' = PushFront(rq, priority[resumed], resumed)
       /\ state' = [st EXCEPT ![resumed] = "Ready"]
       /\ Yield
  ELSE ready' = rq /\ state' = st /\ Return

\* The same for the calls that skip it when made from a handler (from_int).
BugNoPreempt(i, rq, st) == ready' = rq /\ state' = st /\ Return
EndCall(i, rq, st) ==
  IF i THEN ready' = rq /\ state' = st /\ Return ELSE MaybePreempt(rq, st)

\* rt_fatal: the process ends where it stands.
Fatal(why) ==
  /\ fatal' = why
  /\ UNCHANGED <<runVars, priority, waitVars, wakeup_count, lifeVars, semaVars, schedVars,
                 intr, pend, deleting>>

-----------------------------------------------------------------------------
(* sched_loop *)

Init ==
  /\ state = [t \in Thread |-> IF t = 1 THEN "Ready" ELSE "Free"]
  /\ ready = [p \in Prio |-> IF p = 0 THEN <<1>> ELSE <<>>]
  /\ co = [t \in Thread |-> t = 1]
  /\ priority = [t \in Thread |-> 0]
  /\ wait = [t \in Thread |-> None]
  /\ release_ret = [t \in Thread |-> 0]
  /\ wakeup_count = [t \in Thread |-> 0]
  /\ pending_delete = [t \in Thread |-> FALSE]
  /\ t_eie = [t \in Thread |-> TRUE]
  /\ alive = [s \in Sema |-> FALSE]
  /\ count = [s \in Sema |-> 0]
  /\ max_count = [s \in Sema |-> 0]
  /\ waiters = [s \in Sema |-> <<>>]
  /\ cpu = "loop" /\ resumed = 0
  /\ g_eie = TRUE /\ intr = Nobody /\ pend = FALSE
  /\ deleting = 0 /\ fatal = "no"

\* Pop the front of the best queue and load the thread's interrupt enable.
Dispatch(p) ==
  /\ Alive /\ cpu = "loop" /\ IsBest(p)
  /\ resumed' = Head(ready[p])
  /\ ready' = [ready EXCEPT ![p] = Tail(@)]
  /\ state' = [state EXCEPT ![resumed'] = "Run"]
  /\ g_eie' = t_eie[resumed']
  /\ cpu' = "before"
  /\ UNCHANGED <<priority, waitVars, wakeup_count, lifeVars, semaVars, t_eie, intr, pend,
                 endVars>>

\* mco_resume.  A blocking call that was waiting here returns release_ret,
\* which nothing reads again.
Resume ==
  /\ Alive /\ (cpu = "resume" \/ (cpu = "before" /\ ~ CanDeliver /\ intr # SchedLoop))
  /\ cpu' = "guest"
  /\ wait' = [wait EXCEPT ![resumed] = None]
  /\ release_ret' = [release_ret EXCEPT ![resumed] = 0]
  /\ UNCHANGED <<runVars, priority, wakeup_count, lifeVars, semaVars, resumed, g_eie, t_eie,
                 intr, pend, endVars>>

\* After the yield: a Dormant thread loses its coroutine, and its slot when
\* ExitDeleteThread asked for it.
Reap ==
  /\ Alive /\ (cpu = "reap" \/ (cpu = "after" /\ ~ CanDeliver /\ intr # SchedLoop))
  /\ IF state[resumed] = "Run"
     THEN Fatal("yielded without a scheduling state")
     ELSE /\ IF state[resumed] = "Dormant"
             THEN /\ co' = [co EXCEPT ![resumed] = FALSE]
                  /\ state' = [state EXCEPT ![resumed] =
                                 IF pending_delete[resumed] THEN "Free" ELSE "Dormant"]
             ELSE UNCHANGED <<co, state>>
          /\ cpu' = "loop" /\ resumed' = 0
          /\ UNCHANGED <<ready, priority, waitVars, wakeup_count, pending_delete, semaVars,
                         g_eie, t_eie, intr, pend, endVars>>

\* Nothing is ready: jump the clock to the next timeline event, which may
\* make an interrupt pending, and deliver.
Idle ==
  /\ Alive /\ cpu = "loop" /\ AllBlocked
  /\ cpu' = "idle"
  /\ pend' \in {pend, TRUE}
  /\ UNCHANGED <<runVars, priority, waitVars, wakeup_count, lifeVars, semaVars, resumed,
                 g_eie, t_eie, intr, endVars>>

IdleOver ==
  /\ Alive /\ cpu = "idle" /\ ~ CanDeliver /\ intr # SchedLoop
  /\ cpu' = "loop"
  /\ UNCHANGED <<runVars, priority, waitVars, wakeup_count, lifeVars, semaVars, resumed,
                 g_eie, t_eie, intr, pend, endVars>>

-----------------------------------------------------------------------------
(* Clock and interrupts as the scheduler sees them *)

\* rt_kernel_mmio_tick and rt_backedge: time passes in the running thread; a
\* register write may also acknowledge or mask what was pending.
Trap ==
  /\ InThread
  /\ pend' \in BOOLEAN
  /\ UNCHANGED <<runVars, priority, waitVars, wakeup_count, lifeVars, semaVars, schedVars,
                 intr, endVars>>

\* rt_ei and rt_di, in a thread.  (Handlers leave g_eie as they found it.)
SetEie(on) ==
  /\ InThread
  /\ g_eie' = on
  /\ UNCHANGED <<runVars, priority, waitVars, wakeup_count, lifeVars, semaVars, cpu, resumed,
                 t_eie, intr, pend, endVars>>

\* rt_intc_deliver finds work and sets g_in_interrupt.
EnterInterrupt ==
  /\ Alive /\ CanDeliver /\ cpu \in {"idle", "before", "guest", "after"}
  /\ intr' = IF cpu = "guest" THEN resumed ELSE SchedLoop
  /\ UNCHANGED <<runVars, priority, waitVars, wakeup_count, lifeVars, semaVars, schedVars,
                 pend, endVars>>

\* The caller of a delivery on the scheduler's stack goes on to its next line.
AfterDelivery ==
  CASE cpu = "idle" -> "loop" [] cpu = "before" -> "resume" [] cpu = "after" -> "reap"
    [] OTHER -> cpu

\* rt_intc_deliver leaves: quiescent, or out of passes in a storm.  The
\* preemption check that ends it can only yield from a coroutine.
LeaveInterrupt ==
  /\ InHandler
  /\ intr' = Nobody
  /\ pend' \in IF "storm" \in Quirks THEN BOOLEAN ELSE {FALSE}
  /\ IF current # 0 /\ state[resumed] = "Run" /\ Higher(ready, priority[resumed])
     THEN \/ /\ cpu = "guest"
             /\ ready' = PushFront(ready, priority[resumed], resumed)
             /\ state' = [state EXCEPT ![resumed] = "Ready"]
             /\ Yield /\ UNCHANGED fatal
          \/ /\ cpu # "guest" /\ fatal' = "yield outside a coroutine"
             /\ UNCHANGED <<runVars, schedVars>>
     ELSE cpu' = AfterDelivery /\ UNCHANGED <<runVars, resumed, g_eie, t_eie, fatal>>
  /\ UNCHANGED <<priority, waitVars, wakeup_count, lifeVars, semaVars, deleting>>

-----------------------------------------------------------------------------
(* Thread calls *)

\* rt_thread_create: the lowest free slot from 2 up, every field reset.
CreateThread(p) ==
  /\ InThread /\ Tick
  /\ \E t \in Thread \ {1} :
       /\ state[t] = "Free" /\ \A u \in 2..(t - 1) : state[u] # "Free"
       /\ state' = [state EXCEPT ![t] = "Dormant"]
       /\ priority' = [priority EXCEPT ![t] = p]
       /\ wait' = [wait EXCEPT ![t] = None]
       /\ release_ret' = [release_ret EXCEPT ![t] = 0]
       /\ wakeup_count' = [wakeup_count EXCEPT ![t] = 0]
       /\ pending_delete' = [pending_delete EXCEPT ![t] = FALSE]
       /\ t_eie' = [t_eie EXCEPT ![t] = TRUE]
       /\ co' = [co EXCEPT ![t] = FALSE]
  /\ UNCHANGED <<ready, semaVars, cpu, resumed, g_eie, intr, endVars>>

DeleteThread(t) ==
  /\ InThread /\ Tick
  /\ state[t] = "Dormant" /\ t # current
  /\ state' = [state EXCEPT ![t] = "Free"]
  /\ co' = [co EXCEPT ![t] = FALSE]
  /\ UNCHANGED <<ready, priority, waitVars, wakeup_count, pending_delete, semaVars, schedVars,
                 intr, endVars>>

\* Neither the wakeups banked while t was dormant, nor its priority, nor its
\* saved interrupt enable are reset.
StartThread(t) ==
  /\ InThread /\ Tick
  /\ state[t] = "Dormant"
  /\ co' = [co EXCEPT ![t] = TRUE]
  /\ MaybePreempt(PushBack(ready, priority[t], t), [state EXCEPT ![t] = "Ready"])
  /\ UNCHANGED <<priority, waitVars, wakeup_count, pending_delete, semaVars, intr, endVars>>

\* rt_thread_exit_current.  A root function that returns ends the same way
\* through thread_trampoline, which leaves pending_delete as it is.
ExitThread(del) ==
  /\ InThread /\ Tick
  /\ state' = [state EXCEPT ![resumed] = "Dormant"]
  /\ pending_delete' = [pending_delete EXCEPT ![resumed] = del]
  /\ Yield
  /\ UNCHANGED <<ready, priority, waitVars, wakeup_count, co, semaVars, intr, endVars>>

RootReturn ==
  /\ InThread
  /\ state' = [state EXCEPT ![resumed] = "Dormant"]
  /\ Yield
  /\ UNCHANGED <<ready, priority, waitVars, wakeup_count, lifeVars, semaVars, intr, pend,
                 endVars>>

\* Take t off the semaphore it waits on, if it waits on one.
BugStaysWaiter(t) == UNCHANGED waiters
LeaveWaiters(t) ==
  waiters' = IF wait[t] \in Sema /\ alive[wait[t]]
             THEN [waiters EXCEPT ![wait[t]] = Erase(@, t)] ELSE waiters

BugCoroLeak(t) == UNCHANGED co
CoroDestroy(t) == co' = [co EXCEPT ![t] = FALSE]

\* A frame of rt_intc_deliver on t's coroutine goes with the coroutine.
TerminateThread(t, i) ==
  /\ Caller(i) /\ Tick
  /\ t # current /\ state[t] \notin {"Free", "Dormant"}
  /\ ready' = IF state[t] = "Ready"
              THEN [ready EXCEPT ![priority[t]] = Erase(@, t)] ELSE ready
  /\ LeaveWaiters(t)
  /\ wait' = [wait EXCEPT ![t] = None]
  /\ state' = [state EXCEPT ![t] = "Dormant"]
  /\ CoroDestroy(t)
  /\ intr' = IF intr = t THEN Lost ELSE intr
  /\ UNCHANGED <<priority, release_ret, wakeup_count, pending_delete, alive, count,
                 max_count, schedVars, endVars>>

\* On itself the caller goes to the tail of its new queue: a yield.
ChangeThreadPriority(t, p, i) ==
  /\ Caller(i) /\ Tick /\ state[t] # "Free"
  /\ priority' = [priority EXCEPT ![t] = p]
  /\ IF t = current /\ ~ i
     THEN /\ ready' = PushBack(ready, p, t)
          /\ state' = [state EXCEPT ![t] = "Ready"]
          /\ Yield
     ELSE EndCall(i, IF state[t] = "Ready"
                     THEN PushBack([ready EXCEPT ![priority[t]] = Erase(@, t)], p, t)
                     ELSE ready,
                  state)
  /\ UNCHANGED <<waitVars, wakeup_count, lifeVars, semaVars, intr, endVars>>

RotateThreadReadyQueue(p, i) ==
  /\ Caller(i) /\ Tick
  /\ IF ~ i /\ priority[resumed] = p
     THEN /\ ready' = PushBack(ready, p, resumed)
          /\ state' = [state EXCEPT ![resumed] = "Ready"]
          /\ Yield
     ELSE /\ ready[p] # <<>>
          /\ ready' = [ready EXCEPT ![p] = Append(Tail(@), Head(@))]
          /\ UNCHANGED state /\ Return
  /\ UNCHANGED <<priority, waitVars, wakeup_count, lifeVars, semaVars, intr, endVars>>

\* block_current(k) outside an interrupt: wait and yield.  Inside it is fatal.
Block(k) ==
  /\ intr = Nobody /\ Tick
  /\ state' = [state EXCEPT ![resumed] = "Wait"]
  /\ wait' = [wait EXCEPT ![resumed] = k]
  /\ release_ret' = [release_ret EXCEPT ![resumed] = 0]
  /\ Yield
BlockInInterrupt == intr # Nobody /\ Fatal("blocking call from interrupt context")

SleepThread ==
  /\ InThread
  /\ \/ /\ wakeup_count[resumed] > 0 /\ Tick
        /\ wakeup_count' = [wakeup_count EXCEPT ![resumed] = @ - 1]
        /\ UNCHANGED <<runVars, priority, waitVars, lifeVars, semaVars, schedVars, intr,
                       endVars>>
     \/ /\ wakeup_count[resumed] = 0 /\ Block(Sleep)
        /\ UNCHANGED <<ready, priority, wakeup_count, lifeVars, semaVars, intr, endVars>>
     \/ wakeup_count[resumed] = 0 /\ BlockInInterrupt

\* unblock(t, r): the queues, states and waits it leaves.
UnblockReady(t) ==
  IF state[t] = "Wait" THEN PushBack(ready, priority[t], t) ELSE ready
BugUnblockSuspended(t) == [state EXCEPT ![t] = "Ready"]
UnblockState(t) ==
  [state EXCEPT ![t] = CASE @ = "Wait" -> "Ready" [] @ = "WaitSuspend" -> "Suspend"
                         [] OTHER -> @]
UnblockWait(t, r) ==
  /\ wait' = IF state[t] \in {"Wait", "WaitSuspend"} THEN [wait EXCEPT ![t] = None] ELSE wait
  /\ release_ret' = [release_ret EXCEPT ![t] = r]

BugSleepingNotSuspended(t) == state[t] = "Wait" /\ wait[t] = Sleep
Sleeping(t) == state[t] \in {"Wait", "WaitSuspend"} /\ wait[t] = Sleep

WakeupThread(t, i) ==
  /\ Caller(i) /\ Tick /\ state[t] # "Free"
  /\ IF Sleeping(t)
     THEN /\ UnblockWait(t, 0)
          /\ EndCall(i, UnblockReady(t), UnblockState(t))
          /\ UNCHANGED wakeup_count
     ELSE /\ wakeup_count[t] < MaxWakeups
          /\ wakeup_count' = [wakeup_count EXCEPT ![t] = @ + 1]
          /\ UNCHANGED <<runVars, waitVars, schedVars>>
  /\ UNCHANGED <<priority, lifeVars, semaVars, intr, endVars>>

CancelWakeupThread(t, i) ==
  /\ Caller(i) /\ Tick /\ state[t] # "Free"
  /\ wakeup_count' = [wakeup_count EXCEPT ![t] = 0]
  /\ UNCHANGED <<runVars, priority, waitVars, lifeVars, semaVars, schedVars, intr, endVars>>

\* Suspending the running thread yields at once, from a handler too; on the
\* scheduler's stack there is no coroutine to yield.
SuspendRunning(t) ==
  /\ state[t] = "Run" /\ t = current
  /\ InHandler => "iSuspendRunning" \in Quirks
  /\ \/ /\ cpu = "guest" /\ Tick
        /\ state' = [state EXCEPT ![t] = "Suspend"]
        /\ Yield
        /\ UNCHANGED <<ready, priority, waitVars, wakeup_count, lifeVars, semaVars, intr,
                       endVars>>
     \/ cpu # "guest" /\ Fatal("yield outside a coroutine")

SuspendThread(t, i) ==
  /\ Caller(i)
  /\ \/ SuspendRunning(t)
     \/ /\ state[t] \in {"Ready", "Wait"} /\ Tick
        /\ ready' = IF state[t] = "Ready"
                    THEN [ready EXCEPT ![priority[t]] = Erase(@, t)] ELSE ready
        /\ state' = [state EXCEPT ![t] = IF @ = "Ready" THEN "Suspend" ELSE "WaitSuspend"]
        /\ UNCHANGED <<priority, waitVars, wakeup_count, lifeVars, semaVars, schedVars, intr,
                       endVars>>

\* maybe_preempt is not skipped for an i-call here, but does nothing in a handler.
ResumeThread(t, i) ==
  /\ Caller(i) /\ Tick
  /\ \/ /\ state[t] = "Suspend"
        /\ MaybePreempt(PushBack(ready, priority[t], t), [state EXCEPT ![t] = "Ready"])
     \/ /\ state[t] = "WaitSuspend"
        /\ state' = [state EXCEPT ![t] = "Wait"]
        /\ Return /\ UNCHANGED ready
  /\ UNCHANGED <<priority, waitVars, wakeup_count, lifeVars, semaVars, intr, endVars>>

ReleaseWaitThread(t, i) ==
  /\ Caller(i) /\ Tick
  /\ state[t] \in {"Wait", "WaitSuspend"}
  /\ LeaveWaiters(t)
  /\ UnblockWait(t, -1)
  /\ EndCall(i, UnblockReady(t), UnblockState(t))
  /\ UNCHANGED <<priority, wakeup_count, lifeVars, alive, count, max_count, intr, endVars>>

-----------------------------------------------------------------------------
(* Semaphore calls *)

CreateSema(init, max) ==
  /\ InThread /\ Tick
  /\ \E s \in Sema :
       /\ ~ alive[s] /\ \A r \in 1..(s - 1) : alive[r]
       /\ alive' = [alive EXCEPT ![s] = TRUE]
       /\ count' = [count EXCEPT ![s] = init]
       /\ max_count' = [max_count EXCEPT ![s] = max]
       /\ waiters' = [waiters EXCEPT ![s] = <<>>]
  /\ UNCHANGED <<runVars, priority, waitVars, wakeup_count, lifeVars, schedVars, intr,
                 endVars>>

\* rt_sema_delete: the call, one step per waiter, and its end.
DeleteSema(s, i) ==
  /\ Caller(i) /\ Tick /\ alive[s]
  /\ deleting' = s
  /\ UNCHANGED <<runVars, priority, waitVars, wakeup_count, lifeVars, semaVars, schedVars,
                 intr, fatal>>

DeleteSemaWaiter ==
  /\ fatal = "no" /\ deleting # 0 /\ waiters[deleting] # <<>>
  /\ waiters' = [waiters EXCEPT ![deleting] = Tail(@)]
  /\ LET t == Head(waiters[deleting]) IN
       UnblockWait(t, -1) /\ ready' = UnblockReady(t) /\ state' = UnblockState(t)
  /\ UNCHANGED <<priority, wakeup_count, lifeVars, alive, count, max_count, schedVars, intr,
                 pend, endVars>>

DeleteSemaEnd ==
  /\ fatal = "no" /\ deleting # 0 /\ waiters[deleting] = <<>>
  /\ alive' = [alive EXCEPT ![deleting] = FALSE]
  /\ deleting' = 0
  /\ MaybePreempt(ready, state)
  /\ UNCHANGED <<priority, waitVars, wakeup_count, lifeVars, count, max_count, waiters, intr,
                 pend, fatal>>

\* A signal is banked when nobody waits, unless the count is at its ceiling,
\* and otherwise handed to the first waiter.
BugBankAndHand(s) == [count EXCEPT ![s] = @ + 1]
CountAfterSignal(s) == [count EXCEPT ![s] = IF waiters[s] = <<>> THEN @ + 1 ELSE @]

SignalSema(s, i) ==
  /\ Caller(i) /\ Tick /\ alive[s]
  /\ count' = CountAfterSignal(s)
  /\ \/ /\ waiters[s] # <<>>
        /\ waiters' = [waiters EXCEPT ![s] = Tail(@)]
        /\ LET t == Head(waiters[s]) IN
             UnblockWait(t, s) /\ EndCall(i, UnblockReady(t), UnblockState(t))
     \/ /\ waiters[s] = <<>> /\ count[s] < max_count[s]
        /\ UNCHANGED <<runVars, waitVars, waiters, schedVars>>
  /\ UNCHANGED <<priority, wakeup_count, lifeVars, alive, max_count, intr, endVars>>

WaitSema(s) ==
  /\ InThread /\ alive[s]
  /\ \/ /\ count[s] > 0 /\ Tick
        /\ count' = [count EXCEPT ![s] = @ - 1]
        /\ UNCHANGED <<runVars, priority, waitVars, wakeup_count, lifeVars, alive, max_count,
                       waiters, schedVars, intr, endVars>>
     \/ /\ count[s] = 0 /\ Block(s)
        /\ waiters' = [waiters EXCEPT ![s] = Append(@, resumed)]
        /\ UNCHANGED <<ready, priority, wakeup_count, lifeVars, alive, count, max_count, intr,
                       endVars>>
     \/ count[s] = 0 /\ BlockInInterrupt

BugPollAnyway(s) == alive[s]
CanPoll(s) == alive[s] /\ count[s] > 0

PollSema(s, i) ==
  /\ Caller(i) /\ Tick /\ CanPoll(s)
  /\ count' = [count EXCEPT ![s] = @ - 1]
  /\ UNCHANGED <<runVars, priority, waitVars, wakeup_count, lifeVars, alive, max_count,
                 waiters, schedVars, intr, endVars>>

-----------------------------------------------------------------------------
ThreadCall ==
  \/ \E p \in Prio : CreateThread(p)
  \/ \E t \in Thread : DeleteThread(t) \/ StartThread(t)
  \/ \E del \in BOOLEAN : ExitThread(del)
  \/ RootReturn \/ SleepThread \/ Trap
  \/ \E on \in BOOLEAN : SetEie(on)
  \/ \E max \in 1..MaxCount : \E init \in 0..max : CreateSema(init, max)
  \/ \E s \in Sema : WaitSema(s)

\* The calls with an i-variant in the syscall table.
ICall(i) ==
  \/ \E t \in Thread : \/ TerminateThread(t, i) \/ WakeupThread(t, i)
                       \/ CancelWakeupThread(t, i) \/ SuspendThread(t, i)
                       \/ ResumeThread(t, i) \/ ReleaseWaitThread(t, i)
                       \/ \E p \in Prio : ChangeThreadPriority(t, p, i)
  \/ \E p \in Prio : RotateThreadReadyQueue(p, i)
  \/ \E s \in Sema : DeleteSema(s, i) \/ SignalSema(s, i) \/ PollSema(s, i)

SchedStep ==
  \/ \E p \in Prio : Dispatch(p)
  \/ Resume \/ Reap \/ Idle \/ IdleOver
  \/ EnterInterrupt \/ LeaveInterrupt
  \/ DeleteSemaWaiter \/ DeleteSemaEnd

Next == SchedStep \/ ThreadCall \/ \E i \in BOOLEAN : ICall(i)

Spec == Init /\ [][Next]_vars

\* The host always takes the scheduler's next step, and handlers return; every
\* call ends in a delivery, so what stays deliverable is delivered.
FairSpec == Spec /\ WF_vars(SchedStep) /\ SF_vars(EnterInterrupt)

-----------------------------------------------------------------------------
(* Properties *)

Waiting(t) == state[t] \in {"Wait", "WaitSuspend"}

\* Every field holds a value of its kind; in particular no count goes negative
\* or past its bound.
TypeOK ==
  /\ state \in [Thread -> TState]
  /\ priority \in [Thread -> Prio]
  /\ wait \in [Thread -> {None, Sleep} \cup Sema]
  /\ release_ret \in [Thread -> {-1, 0} \cup Sema]
  /\ wakeup_count \in [Thread -> 0..MaxWakeups]
  /\ pending_delete \in [Thread -> BOOLEAN]
  /\ t_eie \in [Thread -> BOOLEAN]
  /\ co \in [Thread -> BOOLEAN]
  /\ ready \in [Prio -> Seq(Thread)]
  /\ alive \in [Sema -> BOOLEAN]
  /\ count \in [Sema -> 0..MaxCount]
  /\ max_count \in [Sema -> 0..MaxCount]
  /\ waiters \in [Sema -> Seq(Thread)]
  /\ cpu \in {"loop", "before", "resume", "guest", "after", "reap", "idle"}
  /\ resumed \in {0} \cup Thread
  /\ g_eie \in BOOLEAN
  /\ intr \in {Nobody, SchedLoop, Lost} \cup Thread
  /\ pend \in BOOLEAN
  /\ deleting \in {0} \cup Sema
  /\ fatal \in {"no", "yielded without a scheduling state", "yield outside a coroutine",
                "blocking call from interrupt context"}

\* Exactly the Ready threads are queued, once each, at their own priority:
\* sched_loop never resumes a blocked thread and never forgets a ready one,
\* whatever mix of wakeups, suspensions and priority changes came before.
ReadyExact ==
  /\ \A p \in Prio : IsInjective(ready[p])
  /\ \A p \in Prio : \A i \in DOMAIN ready[p] :
       state[ready[p][i]] = "Ready" /\ priority[ready[p][i]] = p
  /\ \A t \in Thread : state[t] = "Ready" => Contains(ready[priority[t]], t)

\* A semaphore's queue holds exactly the threads blocked on it, once each,
\* and no thread is left blocked on a deleted semaphore.
WaitersExact ==
  /\ \A s \in Sema : IsInjective(waiters[s])
  /\ \A s \in Sema : \A i \in DOMAIN waiters[s] : wait[waiters[s][i]] = s
  /\ \A t \in Thread :
       /\ Waiting(t) <=> wait[t] # None
       /\ wait[t] \in Sema => alive[wait[t]] /\ Contains(waiters[wait[t]], t)

\* No signal is lost: nobody waits on a semaphore that has a count to take,
\* and nobody sleeps with a wakeup banked.
NoLostWakeup ==
  /\ \A s \in Sema : waiters[s] # <<>> => count[s] = 0
  /\ \A t \in Thread : wait[t] = Sleep => wakeup_count[t] = 0

\* mco_resume always has a coroutine to resume, and no dormant or freed
\* thread keeps its two megabytes once sched_loop has moved on.
CoroutineExact ==
  \A t \in Thread :
    /\ state[t] \notin {"Free", "Dormant"} => co[t]
    /\ co[t] /\ state[t] \in {"Free", "Dormant"} =>
         state[t] = "Dormant" /\ resumed = t /\ cpu \in {"after", "reap"}

\* g_current is the one thread in state Run, at every point where a handler or
\* a call can look.
OneRunning == \A t \in Thread : state[t] = "Run" <=> current = t

\* After every call and every delivery the CPU is with a thread no ready
\* thread outranks; and a guest that keeps to the usual calls never ends the
\* process in one of the scheduler's own checks.
NoPriorityInversion ==
  /\ fatal = "no"
  /\ cpu = "guest" /\ intr = Nobody /\ Alive => ~ Higher(ready, priority[resumed])

Precedes(q, a, b) == \E i, j \in DOMAIN q : i < j /\ q[i] = a /\ q[j] = b

\* Within a priority, first come first served: a queued thread is overtaken
\* only by being sent to the tail, and a thread that joins the queue joins
\* behind everyone in it unless it was preempted. A preempted thread goes back
\* in front of its peers: it loses the CPU to a higher priority, never its turn
\* (sched.cpp:11).
KeepsOrder ==
  \A p \in Prio : \A a, b \in Thread :
    /\ Precedes(ready[p], a, b) =>
         /\ state'[b] # "Run"
         /\ Precedes(ready'[p], b, a) => Last(ready'[p]) = a
    /\ /\ Contains(ready[p], a) /\ ~ Contains(ready[p], b)
       /\ Precedes(ready'[p], b, a)
       => state[b] = "Run" /\ Higher(ready', p)
KeepsTurn ==
  \A t \in Thread :
    /\ state[t] = "Run" /\ state'[t] = "Ready" /\ priority' = priority
    /\ Higher(ready', priority[t])
    => Head(ready'[priority[t]]) = t
FifoWithinPriority == [][KeepsOrder /\ KeepsTurn]_vars

\* A semaphore unit is banked or handed to the first waiter, never both: per
\* step at most one waiter is released as signalled, it is the head, and the
\* count does not move with it.
OneSignalOneWakeup ==
  [][\A s \in Sema :
       LET granted == {t \in Thread : wait[t] = s /\ wait'[t] = None /\ release_ret'[t] = s}
       IN granted # {} => granted = {Head(waiters[s])} /\ count'[s] = count[s]]_vars

\* The runtime's own assertion "yield_current called outside a thread
\* coroutine" (sched.cpp:233) never fires.
NoYieldOutsideCoroutine == fatal # "yield outside a coroutine"

\* A pending interrupt is dispatched unless the running thread itself holds it
\* off: no blocked, suspended or exited thread's disable can keep it waiting.
PendingIsServed ==
  pend ~> \/ ~ pend \/ intr # Nobody
          \/ cpu = "guest" /\ ~ g_eie
          \/ fatal # "no"

=============================================================================
