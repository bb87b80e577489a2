# Verification of ico-recomp's runtime

ico-recomp translates the PlayStation 2 game ICO to C and links it against a
runtime (`src/runtime`) that plays the machine around it: the EE kernel, the
interrupt and DMA controllers, the IOP with its services, the graphics
synthesizer, the sound processor. This directory holds TLA+ models of the parts
of that runtime whose correctness is a matter of ORDER: who runs next, which
interrupt is served when, which thread sees which store, which reply belongs to
which call. TLC checks them on small instances; the main theorems about the
scheduler, interrupt delivery, the timers, the RPC layer and the disc drive are
proved by TLAPS for every number of threads, semaphores, priorities, lines,
handler slots, alarms, passes and clients, and for all widths, times, rates and
rings.

## The system

One process, four threads that matter here:

- the **EE thread** runs everything the guest sees. Guest threads are coroutines
  on it, interrupts are ordinary calls made at delivery points, virtual time is a
  counter that moves at MMIO accesses, syscalls and every 4096th loop back-edge.
- the **GS worker** replays the graphics commands the EE thread queues;
- the **log writer** writes the lines the others queue, and the **field watchdog**
  reports a run that has stopped presenting. They change no guest state, but the
  way the process ends goes through both.

| Part | Source | State it keeps | Operations | Hard because |
|---|---|---|---|---|
| Scheduler | `ee/sched.cpp` | threads, ready queues, semaphores, coroutines, virtual clock | the thread and semaphore syscalls, `sched_loop`, `rt_clock_tick` | preemption inside delivery, i-calls from handlers, stale thread state |
| Interrupts | `ee/intc.cpp` | handler tables, I_STAT/I_MASK/D_STAT, `g_eie`, `g_in_interrupt` | register, enable, raise, deliver | handlers change the tables and raise again while they are dispatched |
| Alarms | `ee/alarms.cpp` | 64 slots, armed or pending | set, release, run due, dispatch | reuse of a slot between its expiry and its callback |
| Timers | `ee/timers.cpp` | four counters derived from the clock | MMIO reads and writes, run due | lazily computed; mode and video mode change under a running count |
| Video mode | `video_mode.cpp` | the CRT mode and its field timeline | set the mode | changes the length of a field already under way |
| Syscalls and hooks | `ee/syscalls.cpp`, `hooks.cpp` | none of their own | dispatch | the same handler serves a call and its i-variant |
| SIF and RPC | `sif/sif.cpp`, `sif/rpc.cpp` | bound clients, queued deliveries, the command buffer | SifSetDma, bind, call, deliveries | completions are delayed and share one command buffer |
| IOP services | `sif/cdvd.cpp`, `mc.cpp`, `pad.cpp`, `sndn2.cpp` | stream ring, drive busy, open files, pad state | their RPC functions | a ring filled by the clock and looked at late; a read that ends later than its handler; files on the host disk |
| DMAC | `hw/dmac.cpp` | channel registers, the hold, queued kicks | register stores, transfers | a transfer completes inside the store that starts it, or at the release of a hold |
| GIF, VIF1, VU1 | `hw/gif.cpp`, `vif1.cpp`, `vu1rt.cpp` | packet and command state | synchronous transfers | packets cut across transfers |
| IPU | `hw/ipu.cpp` | bit stream, FIFOs, the pending command and its retry snapshot | MPEG decoding commands | a command that starves is run again; the library stops, rewinds and restarts its channel at any point |
| GS registers | `hw/gspriv.cpp` | the field boundary | vsync hook | the order of what happens between two fields; the one place that ends the run |
| GS command ring | `gs/gs_threaded.cpp` | ring, cursors, flags of both threads | every backend call, drain, park, quiesce | lock free, two threads, condition variables, exit paths |
| GS backends | `gs/gs_select.cpp`, `gs_parallel*.cpp`, `gs_dumpwriter.cpp`, `gs/render`, `rhi` | frames in flight, swapchain, captures, textures | rendering, present, repeat, capture | the device is two frames behind, the swapchain changes under the window, images are few |
| Sound | `snd/engine.cpp`, `reverb.cpp`, `spu.cpp`, `host/audio.cpp` | voices, sequences, the output stream | key on/off, mixing, pacing | real-time pacing of the EE thread |
| Log | `log.cpp` | line ring, drop counter, synchronous or not, two mutexes | log, drain, write at once, the exit handler | any thread logs, any thread may die, and the writer must not be waited for by a thread it waits for |
| Run state | `host/run_state.cpp`, `crash_report.cpp`, handlers in `main.cpp` | summary written, watchdog running | summary, watchdog start and stop, crash exits | runs in exit handlers and signal handlers, on any thread |
| Window, captures | `host/window.cpp`, `window_service.cpp`, `screenshot.cpp` | cached size, resize flag, the armed capture | pump, notify, capture tick | two threads share the size and the slots; a capture comes back fields later, or never |
| Host | other `host/*.cpp` | settings, input | the field-boundary ticks | window events only on one thread |
| Guest extras | `guest/*.cpp`, `ui/*.cpp` | achievements, menu pointer, UI documents | per-field ticks | re-entry from the event pump |
| Loading | `main.cpp`, `loader.cpp`, `mem.cpp`, `iso/*.cpp` | guest memory, the disc | boot | sequential |
| Translator | `tools/recomp` | none at run time | ELF to C | a compiler, not a state machine |

### How the parts interact

- **Delivery points.** Everything the guest does that costs time bills the
  virtual clock (`rt_clock_tick`), which stops at every event of the timeline
  (field, timers, SIF deliveries, alarms) and lets it raise status bits. At the
  end of a syscall, after an MMIO access and every 4096th backedge
  `rt_intc_deliver` calls the guest's handlers for what is raised and enabled,
  on the stack of whoever reached the point, and ends with
  `rt_sched_maybe_preempt`.
- **Scheduler and interrupts.** The scheduler saves and restores the interrupt
  enable with each thread (`rt_intc_set_eie`, which may itself deliver) and
  delivers when it idles. A handler changes thread states with i-calls, which
  do not switch; the switch comes when the delivery ends.
- **RPC and interrupts.** A request is handled inside `SifSetDma`. Its
  completion becomes an event of the clock's timeline, is written to the one
  receive buffer the guest registered, and raises DMAC line SIF0, whose handler
  empties the buffer.
- **EE thread and GS worker** share the ring, atomics and one mutex with two
  condition variables. A field boundary on the EE thread waits until the field
  before last has been presented.
- **Window and renderer.** Only the main thread may ask the window system, only
  the GS worker may touch the device: a size goes over as a cache and a flag, a
  capture comes back through slots under a mutex.
- **IPU and DMAC** call each other in the middle: a CHCR store kicks, stops or
  queues a channel; the IPU walks channel 4's chain whenever it starves or is
  looked at, and asks the DMAC whether it is held.
- **Every exit path** (return from main, `rt_fatal`, a fault, SIGINT) turns the
  log synchronous, joins the watchdog, writes the summary and ends the process.
- **Callbacks.** `rt_video_set_mode` stores the new mode and then calls the
  hooks of the scheduler's field timeline and of the timers.

### What is hard, and what makes each part correct

| Part | Hard behaviour | What must hold |
|---|---|---|
| Scheduler | delivery and preemption at points inside the scheduler itself; calls on threads in every state; saved state of a thread that is not running | queues and waiter lists are exactly the threads they should hold; one running thread, the highest ready one, in FIFO order; a signal is one wakeup; the interrupt enable is the thread's own; no fatal |
| Interrupts, alarms | handlers that change what is being dispatched; a bounded number of passes | nothing raised is lost or left waiting while interrupts are on; a poll sees the bit; an alarm runs once and is not forgotten |
| Timers | a derived counter, a remembered event, a clock that jumps | the guest cannot tell it from a counter stepped cycle by cycle, but for compares settled late; an armed interrupt comes on its cycle |
| SIF and RPC | deferred completions, one buffer, retries, reboot flags | each request gets one completion, in time order, not early; boot ends and for the right reason |
| Disc drive | a ring computed at each look, across stalls, pauses and partly taken banks; a poll beside a held completion | the ring is what a drive would have filled sector by sector; not ready exactly while a read runs; a blocking read ends |
| GS ring | weak memory, two-way sleeping, windows that stop presenting, exits from inside waits | it is a queue of calls: each runs once, intact, in order, and a join leaves nothing; no lost wakeup; a reply is one's own; waits end |
| Present path | resources used again every second submit; a window resized, minimized and restored; captures given up while their copy is still coming | the device never finds a resource changed under it; the swapchain ends at the window's size and presents again; a capture is no picture older than the last one before it was asked for |
| DMAC, IPU | kicks queued while held, stopped or released; commands retried, their stream moved under them | the stream is decoded once from end to end, the library is told where; STR tells the truth; channel and decoder never wait for each other |
| Log, run state | drain, crash and exit against a writer thread and the watchdog | a line is written once, in order, or counted as dropped; the process ends |

`PROJECT.json` lists the single hazards, each at its line, with the properties
that cover it.

## Modules

| Module | Models | Extends or uses |
|---|---|---|
| `EESched` | the scheduler | community SequencesExt |
| `EEIntc` | interrupt delivery and alarms | |
| `EETimers` | one timer as the code computes it | INSTANCE `UpCounter` |
| `UpCounter` | the abstract specification of a timer | |
| `SifRpc` | RPC completions and the SIF flags | community SequencesExt |
| `Cdvd` | the disc drive: its N-commands as requests of `SifRpc` | EXTENDS `SifRpc`, INSTANCE `SectorRing` |
| `SectorRing` | the abstract specification of the stream: a drive filling a ring | |
| `GsRing` | the GS command ring in Worker mode | INSTANCE `CallQueue` |
| `CallQueue` | the abstract specification of the ring: a queue of backend calls | |
| `IpuDma` | the IPU, DMAC channels 3 and 4, the hold; the MPEG library that drives them | |
| `LogQueue` | the log, the summary, the watchdog's shutdown, every way out | community SequencesExt |
| `Swapchain` | the presenting half of the Vulkan device | |
| `NativePresent` | the field hook, the native backend's present path, captures | EXTENDS `Swapchain` |
| `MCEESched` ... `MCNativePresent` | instances for TLC | their module |
| `EESchedProofs` | proofs about `EESched` | TLAPS |
| `EEIntcProofs` | proofs about `EEIntc` | TLAPS |
| `EETimersProofs` | proofs about `EETimers`, with the refinement of `UpCounter` | TLAPS |
| `CdvdProofs` | proofs about `SifRpc`, and from them about `Cdvd`, with the refinement of `SectorRing` | TLAPS |
| `LogProofs` | proofs about `LogQueue` | TLAPS |
| `IpuDmaProofs` | proofs about `IpuDma` | TLAPS |
| `PresentProofs` | proofs about `NativePresent` and the `Swapchain` in it | TLAPS |
| `GsRingProofs` | proofs about `GsRing`, with the refinement of `CallQueue` | TLAPS |

Definitions keep the names of the source; `PROJECT.json`'s `map` gives the lines
each one stands for. Operators named `Bug...` in a module are plausible
mistakes: with one of them in the place of the definition it spoils, TLC finds
the property it belongs to violated. Nothing in a specification uses them.

### EESched

State: a thread's `state`, `priority`, `wait`, `wakeup_count`, `t_eie` and
whether it has a coroutine; `ready` (one sequence per priority); semaphores with
`count` and `waiters`; `g_eie`, `intr` (who holds the frame of a delivery),
`pend` (something is raised and enabled); and `cpu`, the place in `sched_loop`.
One action is one syscall up to the point where its coroutine goes on or yields:
`ThreadCall` holds the calls of a thread, `ICall` their i-variants in a handler,
`SchedStep` the loop itself (`Resume`, `Reap`, `Idle`, `EnterInterrupt`,
`LeaveInterrupt`...). `rt_sema_delete` releases one waiter per step with
everything else disabled, so that each release is visible to the properties.
What is pending is chosen freely by `Tick`: `EEIntc` models that side.

`Quirks` names what a guest or device may do beyond the usual: `storm` (a
delivery runs out of its passes), `iSuspendRunning` (a handler suspends the
thread it interrupted), `iFromThread` (a thread makes an i-call outside a
handler). The structural invariants are checked with all of them; the order
properties are stated without them and, in `StaysSpec`, for threads that do not
exit and keep interrupts enabled (the order of turns makes no promise to a thread
that has left).

### EEIntc

State: `stat`, `mask`, the handler table, `g_eie`, the alarm slots (free,
pending, or ticks left), where guest code is (`at`) and where the delivery that
called it is (`phase`, the pass, the snapshot of lines still to serve), and
`owed`, a history variable: the handlers a raised line still owes a call. Guest
code inside a handler may do anything a thread may: raise, clear, mask,
register, remove, arm, release, bill time, `di`/`ei`. A delivery is cut into its
steps (`BeginPass`, `ServeLine`, `CallHandler`, `FireAlarm`, `LeaveDelivery`)
because each calls guest code. The thread switch appears as the `ei` and `di`
that `sched_loop` makes.

### EETimers and UpCounter

`EETimers` keeps what the code keeps (`base_count`, the age of `base_vclk`, the
age of the last evaluation, flags, the memo of the next event) and derives
`Count`. `rt_clock_tick` jumps from event to event; the model goes cycle by
cycle and does nothing on the cycles jumped over, so a wrong memo shows as an
event run late. `UpCounter` is the counter of the register list at the top of
`timers.cpp`, stepped on every bus cycle. `IsUpCounter` (the refinement, through
`INSTANCE UpCounter WITH count <- Count, ...`) says the guest sees the second
when the code computes the first, in every mode and for every order of accesses.

What `UpCounter` promises LESS than hardware is stated in its header. One thing
comes late: `passed` holds the values the counter has been to since the last
look, and only a look (`Look`, or a cycle with `look` true) settles them. A tick to
a value with an armed interrupt is a look itself (`Tick`), so nothing armed is
missed. But a counter that resets on a compare without an interrupt runs on past it,
and makes up for one reset only at the next look; and a COMP written with a value
already in `passed` counts as met, interrupt and reset included, at the next look.
And some things may be lost: a MODE write that starts, stops or re-clocks the
counter, and a change of the video mode under an H-blank counter, may leave any
count; a write may forget a flag no look has shown, and a write of COUNT or MODE a
compare still to be settled.

One timer stands for four: they share only the memo, and `AccessOther` and the
extra stops of `RunDue` stand for what the others do to it.

### SifRpc

State: `queue` (g_queue: who, why, how far off), the receive buffer, the line
SIF0, `clock` (what `rt_clock_tick` still has to go through), `smflag`,
`reboot_pending`, where the boot path is (`boot`), and what each client waits
for (`client`). The guest's
own RPC library is external (it is translated game code): a client makes one
request and waits for its completion, the SIF0 handler empties the buffer and
wakes the client, the boot path resets the IOP, clears the flags and polls.
Times are relative, so the state space is finite without a bound on time.

### Cdvd and SectorRing

`Cdvd` puts a service behind the RPC layer: every N-command is `SifRpc`'s `Call`
with what the handler in `cdvd.cpp` does to the drive in the same step, and every
other step of `SifRpc` only lets the clock pass (`TimePasses`). State: the stream
(`g_st`), the time the drive is busy, who issued the last sceCdRead, and what the
EE library's blocking sceCdStRead still wants. The stream keeps what the code
keeps, `buffered`, `arrived` (its remainder by the bank) and the time of the next
arrival, which lies in the past when nobody has looked for a while;
`StreamAdvance` is called where the code calls it. Times are relative to now, and
while paused to the pause; a lag is kept no further than a whole ring's worth,
because `stream_advance` gives the same for any longer one.

`SectorRing` is the drive the comments of `cdvd.cpp` describe, cycle by cycle: a
sector every `PerSector` cycles into the bank being filled, nothing while the
ring is full or paused, only whole banks handed over. `IsSectorRing` maps the
ring as it would be found now (`StreamAdvance(g_st)`) to it. Both take rings that
divide into their banks, as this title's do (80/5, 576/36), and a stream that
`sceCdStInit` has set up.

### GsRing

State: the atomics as memory (`mem`) plus a store buffer per thread (`sb`);
m_mu; the ring's units, each holding the record written there; a program counter
per thread; the window. A thread's store reaches the other at a `Flush`, at its
next fence or when it releases the mutex, in order; its loads run ahead of its
own stores. That is the reordering the comments at `gs_threaded.cpp:450-460`
argue about (x86's, and what release/acquire leaves open for one pair of
locations); reordering of two relaxed loads is not modelled. Every wait, wake,
park, repeat present, shutdown, fatal on either thread, join and abandon is an
action of its own between two accesses of shared state. `Worries` names what the
world may do: `window` (minimize, restore, close), `repeat` (a present rate is
set), `inner` (the backend raises a fatal on the worker), `late` (the worker
misses the join deadline). `Timeouts` lets the 2 ms waits run out.

`CallQueue` is what the header of `gs_threaded.h` promises: calls run one at a
time, once, in order, as they were given, and the queue closes empty.
`IsCallQueue` maps the units between tail and head to it. A corrupt record or a
unit overwritten too early has no image there, which is why no invariant on the
ring's contents is needed beside it.

### IpuDma

State: one record `m` with the file-scope variables of `hw/ipu.cpp` and
`hw/dmac.cpp`, because their functions call each other in the middle: an
operator per function takes the state it is entered with and is the state it
leaves (`AdvanceWalk`, `RunPending`, `ServiceInput`, `ChcrWrite`,
`ReleasePending`, ...), and an action is one register access of the guest with
all it sets off. The stream is measured in units and its quadwords are numbered;
of its content only "is this unit zero" is kept, for the start-code scan. A
decoded macroblock is one output quadword. What a command reads is its `len`:
VLC and IDCT are left out, and so is what they decide.

The guest is the MPEG library as `hw/ipu_selftest.cpp` replays it: it extends
the ring (stop, `Publish`, start), stops and restarts at the position the
registers tell (`ReadRegisters`, `ReadBp`, `IssueBclr`, `WriteRegisters`,
`StartDma`, other accesses in between), or tears down and starts over. `Poll` is
any read of an IPU register, `HoldOff` and `HoldOn` a hold of the controller at
any other point. `hist` records where decoding should be.

### LogQueue

State: the ring with `dropped`, `stop`, `busy`; `async`; who holds `g_mu` and
`g_io_mu`; the writer's place and batch; a program counter, a line counter and a
list `todo` of steps per thread; the file. `Leave(t, how)` makes a thread leave:
`exit` and `rt_fatal` are calls, a fault may be taken inside the enqueue section
or inside a write, the terminal's interrupt anywhere; it keeps the locks the
thread held. `Steps` are the calls each way out makes, `Summarize` the summary
that is written once and stops and joins the watchdog. A bounded wait may run
out at any moment (`Timeout`). One file stands for file and console.

### Swapchain and NativePresent

`Swapchain` holds what `rhi_vulkan_device.cpp` keeps for presenting: the frames
with their timeline values, the acquired image and its semaphore, the
swapchain's size and the dirty flag. Its operators are the pieces of
`begin_command_list`, `submit`, `acquire_backbuffer`, `drain_acquire` and
`present` between two waits. `queue` is the device: submits complete in order
(`Completes`). A timeline value is kept as the number of submits still to go, so
the counter needs no bound. What the driver may answer is free where the
swapchain does not fit the surface (`Answers`); an image comes back from the
presentation engine once it was presented or the swapchain is gone.

`NativePresent` puts them together. The EE thread goes through the field hook:
the pump (`SeeResize`, `NotifyWorker`, `SampleState`), the settings, the capture
tick with every lock of its own (`TickArm`, `DiscardPost`, `Query`, `Copy`...),
the field record. The worker replays records: a field is drawn, scanned out,
latched and presented (`sync_window`, `drain_screenshots`, acquire, record,
submit, present), and shown again when nothing arrives (`Repeat`). The ring
between them is the queue `GsRing` is shown to implement. Of a captured image
its age is kept: `last` while no other present was submitted since, then
`older`, and `stale` from the moment a new capture is asked for.

`ShotIsRecent` speaks of age only, and is weaker than the comment at
`screenshot.cpp:467` ("never served as a later capture"): a copy made for a capture
that was given up, of the last present before the new request or of one after it,
can be published between the discards and the replay of the request, and is then
handed to the new capture. A copy with another present behind it when the new capture
is asked for is stale and never comes back.

## Runs

Those expected to pass:

| Run | Instance | Shows |
|---|---|---|
| `sched_any` | 2 threads, 1 semaphore, 2 priorities, counts up to 1, all quirks, fair; 1.0 M states | `TypeOK`, `ReadyExact`, `WaitersExact`, `NoLostWakeup`, `CoroutineExact`, `PendingIsServed` |
| `sched_order` | 3 threads that stay, 1 semaphore, 2 priorities; 0.47 M states | `NoPriorityInversion`, `FifoWithinPriority`, `OneSignalOneWakeup` |
| `intc_all` | 1 INTC cause, 1 DMAC channel, 1 handler slot, 1 alarm, 2 passes, 1 operation per handler, fair; 0.11 M states | `NoLostInterrupt`, `PromptDelivery`, `PollerSeesEvent`, `AlarmsKept`, `NothingStarves` |
| `timers_all` | 3 counts, bus clock and H-blanks of 2 and 3 cycles, every mode of the first and all of the second but both interrupts at once, 6 cycles between rebases; 81 k states | `MemoFresh`, `IsUpCounter` |
| `cdvd_all` | 2 clients, latency 2, retry 2, syscall of 3 cycles, a sector every 2, a seek of 3, rings of 2 banks of 2 and of 1 bank of 3, reads of up to 2 sectors, a blocking read of 3, fair; 0.15 M states | `OneCompletion`, `RightReason`, `PollTruthful`, `IsSectorRing`, `StreamFlows`, `CallsAndBootsEnd` |
| `gs_all` | ring of 2 units, calls of 1 and 2, 2 calls, every worry, timeouts, fair; 0.28 M states | `InItsTurn`, `NoLostWakeup`, `IsCallQueue`, `WaitsEnd`, and no deadlock |
| `ipu_all` | FIFO of 2 quadwords, 3 slots of 2, 2 commands, 1 stop, 1 hold, fair; 0.33 M states | `StreamExact`, `StrTruthful`, `ResultExact`, `Answered` |
| `log_all` | the EE thread and the watchdog, a ring of 2 lines, one line of each thread besides those of its leaving, every ending, fair; 0.27 M states | `Accounted`, `NothingHangs` |
| `present_all` | 2 frames, 2 images, 2 sizes, repeats on, 2 events of the player and the window system, both kinds of surface, fair; 1.1 M states | `NothingInUseIsTouched`, `ShotIsRecent`, `SizeFollowsWindow` |

**Why these bounds.** Two threads are enough for every pair of a thread and
another it acts on, and for a handler acting on either; three are needed for an
order (one runs, two are queued at one priority), which is why the order run
trades the lifecycle of threads for a third one. One semaphore with a waiter and
a banked count meets every branch of the semaphore calls; two would only
multiply. Two passes are the least for which a line raised during a pass can be
served in the next and still be left over by the last; the two tables are walked
one after the other, so one line of each gives a raise ahead of the walk and one
behind it. In the GS ring, a call as long as the ring
behind a call of one unit forces the Wrap, back pressure and the reuse of every
unit, and two fields make the second wait for the first. Three counts with two
tick lengths give a compare before, at and after the overflow, and six cycles two
turns of the counter without a look; the two H-blanks differ, as the code's two do. With two clients one can find the buffer taken by
the other's packet; holds (2 and 4 cycles) make a later request overtake an
earlier one, and a syscall bills one cycle more than the latency, so a completion
is always delivered inside a span. A look at the drive comes after 0 to 3 cycles
and more, less and more than a sector apart; the rings have a bank boundary in the
middle and none, fill up and stall; a read of 3 sectors takes part of a bank of 2
and goes on with the rest. The
IPU's commands are shorter than, as long as and longer than the FIFO with the
quadword open in it; the streams have no zeros, zeros that start at an odd
position and run over two slots of the ring, and two short runs; two commands
make one start where the other's scan stopped, and one stop and one hold meet
every place of both. The log's ring holds as many lines as there are threads, so
a third line is dropped; a thread that leaves writes up to three lines more.

In the present path kFrames is the code's 2 and two images are the least a
swapchain has: the second suboptimal acquire that kept its image would block the
third. Two events, shared by resizes, minimizing, restoring, keys, settings and
new frame sizes (`MaxEvents`), meet in every order: two resizes, a minimize and a
restore, a capture given up and another, a capture during a resize. Repeats go on
for ever without counting.

**Deadlock** is checked everywhere but for the scheduler, where a run that
ended in `rt_fatal` stops, and the log, where the process ends. A terminated `GsRing` run stutters explicitly, so an
exit that waits for itself is a deadlock TLC reports.

**Memory order of `NoLostWakeup` in the ring**: while both threads sleep, or
one sleeps on what the other has done, some wake is still under way. One case is
exempt and named (`BehindWrap`): a Wrap record is published without a wake
(`gs_threaded.cpp:427`), so an EE that waits for room behind it and a sleeping
worker rest until the 2 ms wait runs out. It costs time, never progress:
`WaitsEnd` holds with it.

**Runs that refute.** Each checks one claim of the repository's own comments:

| Run | Claim refuted | What happens |
|---|---|---|
| `sched_storm` | `NoYieldOutsideCoroutine`: the rest of an exhausted delivery is carried on "with the guest none the wiser" (`intc.cpp:300`) | the rest is served between `g_current = id` and `mco_resume` (`sched.cpp:576`), asks for a preemption, and dies in `yield_current` |
| `gs_fits` | `FitsEmptyRing`: "Unreachable ..." (`gs_threaded.cpp:339`) | the worker empties the ring between the two reads of the tail |
| `timers_rebase` | `RebaseKeepsCount`: "its count at this instant becomes the new base_count" (`timers.cpp:126`) | the count is taken with the H-blank of the new mode |

The first needs a handler storm of 64 passes, the third a change of mode under a
running H-blank timer; neither is known to happen in the game.

**Seen while modelling the timers**, and stated in `UpCounter` as what a look
settles late:

- A write of COMP stores the value without evaluating the timer (`timers.cpp:313`).
  A value the counter went through since `last_check` then counts as crossed at the
  next evaluation, whatever event that is for: the compare interrupt comes with
  COUNT elsewhere, although `timers_next_event_slow` (line 161) puts this compare up
  to a turn ahead and the comment at line 203 calls the timing of an armed timer
  unchanged.
- `advance_timer` applies one reset for the whole span since the last look (line
  220): a counter with ZRET and no interrupt that meets COMP twice between two
  reads of COUNT or MODE is read as if it had met it once, and only from there on
  is it the counter of the register list (line 6) again.

Neither touches `MemoFresh`, and no code under `src/` says whether the game writes
such a mode or COMP.

**Seen while modelling captures**: what becomes of a capture that was given up, under
`NativePresent` above.

**Seen while modelling the RPC layer**: "the due order among them is unchanged"
(`rpc.cpp:720`) holds for the packets that are put off together, not for one that
becomes due within their 512 cycles: it is delivered ahead of them if the EE
empties the buffer in between. With three clients that may repeat for ever, so
`CallsAndBootsEnd` is a property of two clients, as the instance has.

**Seen while modelling the log**, stated in `LogQueue` as the exceptions its
properties make, none known to happen in the game:

- A fault inside a synchronous write holds `g_io_mu`. The crash block gets past
  it (`try_lock`), the `rt_log_error` behind it does not and waits for its own
  thread; an interrupt inside the enqueue section does the same with `g_mu`.
  A fault inside the enqueue section while the watchdog waits for `g_mu` makes
  the summary join a thread that waits for it, although the comment at
  `run_state.cpp:549` calls that join bounded. `Stuck` names the three;
  `NothingHangs` says they are the only ways not to end.
- `log.cpp`'s exit handler is registered last and so runs before the one that
  joins the watchdog and the GS worker: a thread that had looked at `g_async`
  before the drain can still queue a line behind the final sweep. `Accounted`
  allows one such line a thread.
- The note about dropped lines is "placed where the gap is" (`log.cpp:329`), but
  the lines that follow it were queued BEFORE the lines lost.

## Fairness

- `EESched.FairSpec`: weak fairness of the scheduler's own step. The host runs
  `sched_loop` whenever no guest code runs; nothing is assumed of guest threads,
  so `PendingIsServed` allows a thread that runs with interrupts disabled.
- `EEIntc.FairSpec`: what has begun goes on and a handler returns (a handler
  that never returns hangs the console too); a thread reaches a backedge again
  and again (`rt_backedge` is in every loop), and interrupts are enabled again
  and again (a thread that did `di` does `ei`, and the scheduler enables them at
  every switch). The last two are strong because handlers come between.
- `SifRpc.FairSpec`: the clock ends its spans; guest code, the SIF0 handler and
  the boot path get their turn. No client is obliged to call. `Cdvd.CdFairSpec`
  adds that a thread inside the library's blocking sceCdStRead asks again and again
  (strong: a thread that waits for an END cannot); `StreamFlows` makes an exception
  of a stream the guest has paused and left so.
- `GsRing.Fairness`: each thread runs and some day gets the mutex (strong,
  because the other may take it in between; each sleeps between two turns);
  stores arrive; the 1 s limits run out; a minimized window is restored or
  closed. Nothing is assumed of a present once the window is closed, because the
  driver promises nothing then.
- `IpuDma.Fairness`: the library's thread goes on with a bracket it has begun,
  somebody reads an IPU register now and then (the library polls BUSY), channel
  3 is armed and the ring extended while there is stream left, the controller is
  not held for ever. It is written without ENABLED, which TLC cannot evaluate on
  operators this deep in reasonable time: each such action changes the state
  whenever its guard holds, so "the guard is false, or the action happens, again
  and again" is its weak fairness.
- `NativePresent.FairSpec`: the main thread comes through its pump and field hook
  (it runs the game), the worker replays and presents, the device completes what
  it was given (a lost device ends the run). Nobody has to resize, restore, ask
  for a capture or repeat; a driver may call a swapchain of the wrong size
  suboptimal or out of date, or accept it, for ever.
- `LogQueue.Fairness`: the writer, the watchdog and every thread that has begun
  something go on (weak: locks are held for a few steps and bounded waits run
  out). Nobody has to log or to leave.
- `EETimers` has no liveness property and no fairness.

## Proofs

`tlapm` checks every module ending in `Proofs`. What is assumed is only the named ASSUMEs of `EESched` (naturals, at least one thread,
`Quirks` any subset), `EEIntc` (naturals, at least one pass), `EETimers` (clocks of
at least one cycle, modes of the right shape), `SifRpc`
(naturals, a `SifSetDma` that bills at least the SIF latency: 8192 cycles over
4096 in the code), `Cdvd` (positive times, rings of whole banks), `GsRing` (records
no longer than the ring, `Worries` any subset), `Swapchain` and `NativePresent` (at
least one frame in flight and one image, a `None` that is none of the values),
`LogQueue` (a finite set of threads, none of them called "nobody" or "dropped", and
more slots than threads: 512 in the code), `IpuDma` (positive sizes, whole bytes to
a quadword, commands of the right shape, a frame's macroblock no shorter than a
quadword (384 bytes in the code), zeros that lie in the stream).
The bounds of the model (`MaxCount`, `MaxWakeups`, `MaxTime`, `MaxTick`, `MaxOps`,
`MaxAge`, `MaxEvents`, `MaxLines`) are arbitrary naturals in the proofs. Two theorems have a
hypothesis of their own, `Usual` (below).

| Theorem | Module | Argument |
|---|---|---|
| `TypeCorrect` | `EESchedProofs` | `TypeInv`: `TypeOK` and "resumed is a thread exactly at the places of sched_loop where it holds one", without which `Reap` and `Yield` are not typed |
| `OneRunningCorrect`, `ReadyExactCorrect` | `EESchedProofs` | `ReadyInv`: `TypeInv`, `OneRunning` and `Queued`: each queue is free of repetitions and holds exactly the Ready threads of its priority. `OneRunning` is needed to know that a thread put back is not queued, and `Queued` to know that the one popped was Ready |
| `WaitersExactCorrect`, `NoLostWakeupCorrect` | `EESchedProofs` | `WaitInv`: `ReadyInv` and: each waiter list is free of repetitions and holds exactly the threads blocked on that semaphore; a positive count means an empty list; a sleeper has no banked wakeup; a running or dormant thread waits for nothing |
| `CoroutineExactCorrect` | `EESchedProofs` | `CoroInv`: `ReadyInv` and `CoroutineExact`; the one Dormant thread that still has a coroutine is the one `sched_loop` holds between its yield and its reap |
| `OneSignalOneWakeupCorrect` | `EESchedProofs` | `AnswerInv`: `WaitInv` and "whoever waits has had no answer yet". Every step does to the waits one of five things (`WaitMove`: nothing, refuse, forget, begin a wait, grant the head), to one thread at most, and only the last signals and moves no count |
| `NoPriorityInversionCorrect`, `FifoWithinPriorityCorrect` | `EESchedProofs` | under `Usual`, that is `Quirks = {}`. `OrderInv`: `ReadyInv`, `HostOK` (where handlers run, what may be pending where, and that `sched_loop` never finds work on its way into a thread) and `BestOK`: the thread on the CPU is outranked only before its preemption check |
| `TypeCorrect` | `EEIntcProofs` | `TypeOK` is inductive, one lemma per group of actions |
| `NoLostInterruptCorrect` | `EEIntcProofs` | `LostInv`: with `TypeOK`, `owed` names only registered handlers, and what is owed is raised, in the snapshot or being served |
| `PromptDeliveryCorrect`, `AlarmsKeptCorrect` | `EEIntcProofs` | inductive with `TypeOK` |
| `PollerSeesEventCorrect` | `EEIntcProofs` | `ReadInv`: between the bill of a read and its sample no status bit is cleared, because the loops of a delivery stand still while guest code runs |
| `TypeCorrect`, `MemoFreshCorrect` | `EETimersProofs` | `TimersInv`: `TypeOK` and `MemoFresh`. A cycle jumped over brings every armed event one nearer (`EventsMove`, from `OneMoreCycle` on quotients and `NextTick` on counts), and whatever moves the counter drops the memo |
| `ImplementsUpCounter` | `EETimersProofs` | `CycleImage`: one more cycle moves the quotient and remainder of the elapsed time exactly as a tick moves count and phase, and adds the count it comes to to what was passed (`CycleSeen`), whether the cycle was jumped over (`JumpImage`) or evaluated (`LookImage`). `Pass` stops short of every armed event (`NothingMet`: an event on the coming tick is one cycle away, so the memo would be 1), which is why an armed tick is a look. An evaluation shows the ticks since the compare as the count above it (`LateCount`), so a reset lands where `Look` puts it; every access maps to `UpCounter`'s action of that name |
| `TypeCorrect`, `OneCompletionCorrect` | `CdvdProofs` | `DeliveryInv`: `TypeOK` and for each client (`Owed`): its completion is in the queue or in the buffer, never both and never twice, and is not due before its service is done. The last is what lets it reach the buffer only with no work left; `Kinds` keeps the completions apart from the packets of the reboot |
| `RightReasonCorrect` | `CdvdProofs` | `RebootInv`: while the boot path is inside the reset, the new IOP has answered, or its flags are already set, or its packet falls due before the guest runs again |
| `CdTypeCorrect` | `CdvdProofs` | `StreamOK` (buffered within the ring, arrived within the bank and within buffered) is kept by `StreamAdvance` for any lag, and by a read because it takes whole banks at most, never the one being filled |
| `CdOneCompletion`, `CdRightReason` | `CdvdProofs` | every step of `Cdvd` is a step of `SifRpc` for the invariants above, so they are used as they stand |
| `PollTruthfulCorrect` | `CdvdProofs` | `CdInv`: the drive is busy exactly as long as the last reader's work has to go (`BusyIsRead`) |
| `ImplementsSectorRing` | `CdvdProofs` | the code computes what arrived from the cycles that passed, with a division; the abstract drive goes cycle by cycle. `OneCycle`: one more cycle of lag shows exactly one `Cycle` of the drive (a cycle of the sector under way, a sector that arrives, one that finds the ring full or the stream paused); `CyclesPass` adds them up, for every lag. A command of the client, which looks first, is such a run of cycles and then one step of the drive. `RingInv`: `CdInv`, a pause lies in the past, the lag is within `LongestSpan` |
| `PresentTypeCorrect` | `PresentProofs` | `TypeOK` bounds the fields in flight, so it needs `FieldInv`: the fields the ring and the worker have not finished are those `EndOfField` counted |
| `ShotIsRecentCorrect` | `PresentProofs` | `RecentInv`: a copy is published before the next present is submitted, so only what the slots hold can go stale, and the slots are emptied before a capture is armed. It bounds the age of what is delivered, not whose capture it was made for |
| `NothingInUseIsTouchedCorrect` | `PresentProofs` | `UseInv`: `TypeOK`, a submit belongs to the frame whose timeline names it (`FrameInv`), an acquire semaphore is waited for by its own frame (`AcquireInv`), no image is drawn twice before it is presented (`ImageInv`), a slot holds no copy the device has not passed (`SlotInv`) |
| `TypeCorrect`, `NoLostWakeupCorrect` | `GsRingProofs` | `HandshakeInv`, which never says what a store buffer holds, only the newest value of a cursor or flag and whether one is on its way: who holds the mutex, whose flag is up (`FlagsOK`), which stores may be on their way where (`OnTheirWay`), that cursors only rise (`CursorsOK`), that between two notifications at most a Wrap is published (`WrapOnly`), and over what each side may sleep (`ParkInv`, `SleepInv`) |
| `InItsTurnCorrect` | `GsRingProofs` | `TurnInv`: `HandshakeInv` and `RingInv`: there is a set of positions where the records between the worker's tail and the EE's head begin (`Layout`), on which the calls not yet begun are numbered without a gap (`Numbered`), so are the fields (`Scanned`), and at most one call waits for its reply (`Unanswered`) |
| `IsCallQueueCorrect` | `GsRingProofs` | `QueueInv`: `TurnInv`, `CallsOK` (what is written is a call), `StopOK` (a worker that stops leaves nothing). The queue of the abstract specification is read off the ring from the tail; a commit appends to that reading (`LastCall`), a begun record takes its head (`OldestCall`), every store, flush, notification and sleep leaves it |
| `LogTypeCorrect` | `LogProofs` | `LogInv`. `TypeOK` bounds the lines of a thread, so it needs what is left of every thread's way out (`TodoInv`): at most two lines, one of a handler and one of the summary (`LinesDue`), and an end that nothing stands behind (`PlanOK`) |
| `LinesAccounted` | `LogProofs` | `LogInv`, which adds: a thread inside a lock holds it (`LockInv`), one that waits is inside a drain (`WaitInv`); the line a thread is about to queue or write is nowhere yet, every other line of it may be (`Spent`), so none is written twice, and what left the ring is at the front of `order` (`FileInv`, by `Grow`); from the writer's last batch on no thread in the ring is on its way to it again, so that with more slots than threads nothing can be refused any more (`LastInv`, `RoomAtTheEnd`: the pigeonhole principle); the sweep and a clean end come behind the writer's end (`CleanInv`) |
| `StrTruthfulCorrect` | `IpuDmaProofs` | `ChannelInv`: for each channel STR is set while its transfer is live or its kick queued, and never both (`Agree`); a kick is queued only behind a hold; while the library is inside a bracket channel 4 is stopped, and outside one it has the channel running or its interrupt. A store runs through both files and back, so each function has a lemma: it moves the channels only as `Moves` allows, and a kick puts its own channel in order whatever it was. The loops of `advance_walk` and of a command are followed by induction on the turns taken (`WalkExists`, `RunExists`), for every FIFO and stream |
| `IpuTypeCorrect` | `IpuDmaProofs` | `StreamInv`: `ChannelInv` and `FormedInv`: the FIFO holds the quadwords before MADR in order, none missing and none twice (`FifoOk`), MADR and QWC add up to the end of the slot or of the transfer (`RegsOk`), the retry point of a pending command is not ahead of what was read (`Snapped`), and what the library has read of the registers is still so while the channel stands still (`LibInv`), so that its rewind by what is resident stays in the ring. Each function's lemma (`Goes`, `Stays`) says what it leaves well formed and that it does not move a channel that is neither running nor queued |
| `OutputOnceCorrect` | `IpuDmaProofs` | the second half of `StreamExact`. With `StreamInv`: `PaidInv`: what is out, what channel 3 took and what a pending command still owes (`Owed`) make up what is due, and a pending command has only the parts behind it that its kind allows (`Apt`). Of all that a store sets off only a macroblock emitted moves output and debt, by one each (`EmitTurnStaged`); a run that ends owes nothing (`Stage`), one that starves owes what it did |
| `StreamExactCorrect`, `ResultExactCorrect` | `IpuDmaProofs` | from `Fits`. With `StreamInv` and `PaidInv`: `TellsInv`: the cursor stands where the last command ended or at the retry point of a pending one, which has what its parts so far have read behind it (`Behind`), lacks the input for the next part (`Lacks`) and is not further back than IPU_BP can say (`Nameable`); between BCLR and the rewind the same holds of the registers about to be written (`Rewound`). Inside a run the loop invariant `At` says where each part of a command stands in the stream (`Spot`); the prefix of zeros the scan has passed (`Scanned`) makes its end the one `DecodeEnd` chooses however often it was interrupted (`EndUnique`). A channel that stands still gives a pending command nothing, so what the library reads between the stop and the BCLR does not move under it (`Frozen`) |

Each step proof has one case per action. The first part of `EESchedProofs` holds
the lemmas on sequences (what append, push-front, tail, rotate and erase do to the
members and to injectivity); the rest lifts them to queues and waiter lists.

`Usual` is needed: with any of the three quirks `NoPriorityInversion` fails, with
`iSuspendRunning` and `iFromThread` also `FifoWithinPriority`, as TLC shows. Under
`storm` a delivery on the way into a thread has work left, and a handler there
that makes the loaded thread outranked ends the process in `yield_current`
(`sched_storm`). Under `iSuspendRunning` the interrupted thread yields with
`g_in_interrupt` still set, and the next one's blocking call counts as made from a
handler, which is fatal. Under `iFromThread` an i-call readies a higher thread and
returns without a preemption check; the caller that then yields the CPU is
overtaken, or keeps it while outranked.

`OneRunning`, and the type invariants of `EETimers`, `SifRpc` and `Cdvd`, are
theorems only: no run needs them beside the rest.

`Kept` and `Noted` of `LogQueue` are recursive functions over a sequence. What they
return when one is appended or concatenated to (`KeptAppend`, `KeptConcat`,
`NotedConcat`) is proved by induction all the same: the library's induction
theorems cannot be used, but the least element of a set of naturals can (`LeastNat`
from the library's well-foundedness of `<`), and gives `NatInduct` and `SeqInduct`
as facts about sets.

`Fits` bounds a VDEC, SETIQ or BDEC macroblock of `Commands` by the FIFO and the
quadword the decoder is inside; a VDEC counts with the bits IPU_TOP looks at. A CSC,
which commits at each macroblock, and the scan of a BDEC, which commits as it goes,
have no bound. It is what the code asks for: a pending command whose retry point is
further back is what the header of `hw/ipu.cpp` (lines 50-57) calls a rewind point
the register cannot encode, and `bp_ifc` (lines 377-394) logs it. Without it
`StreamExact` is false: a SETIQ larger than that which runs dry breaks it in the
instance of `ipu_all`, where every command fits.

**Only model-checked**: all liveness (`PendingIsServed`, `NothingStarves`,
`StreamFlows`, `CallsAndBootsEnd`, `WaitsEnd`, `Answered`, `NothingHangs`,
`SizeFollowsWindow`), which with ENABLED is out of the prover's reach. Every invariant
and every other action property of the runs is a theorem. No module uses a RECURSIVE
operator.

## Plan

In order of what matters most to a run of the game.

1. *Done*: `EESched`, `EEIntc`, `GsRing` over `CallQueue`, `SifRpc`, `Cdvd` over
   `SectorRing`, `EETimers` over `UpCounter`, `IpuDma`, `LogQueue`, `NativePresent` over
   `Swapchain`; the theorems above.
2. *Next, more of the system*: `EESched` composed with `EEIntc`, sharing `g_eie`,
   `g_in_interrupt` and what is pending, to replace the free choice of `pend` and
   of switches in each by the other one.

## Not modelled, and why

- **Inline and Manual mode of the GS ring**: one thread, no handshake.
- **Rendering, shaders, the other devices**: numeric GPU work whose check is the
  renderer's own self-tests; D3D12 and Metal present through other calls; the
  paraLLEl-GS backend hands presenting to a library.
- Of the **present path**: `present_ui` (the launcher, before the game), the
  overlay and its buffers, the growth of the readback buffer and the size of an
  image (a capture whose slot was refilled with another size between the query
  and the copy), a torn read of the two halves of the cached size (the next
  notification replaces it), the retired swapchain and its release semaphores,
  which `free_retired_swapchain` destroys at the next rebuild: whether the
  presentation engine is done with them by then is the driver's affair.
- **GIF, VIF1, VU1, IPU decoding, SPU**: parsers and arithmetic on streams; each
  is sequential and deterministic, and order does not matter to them beyond what
  `IpuDma` covers. Of the IPU also: FDEC and SETVQ (which read as SETIQ does),
  stores to the input FIFO, a BDEC that finds no code, END tags and gaps between
  the slots of a ring, a command that replaces a pending one.
- **Opening the log** (`rt_log_init`, its `AsyncPause`) and standalone tools that
  stay synchronous: one thread, before the writer exists.
- **Memory card, pad, sndn2 beyond their completions**: files on the host disk
  and fixed replies. Of cdvd: where on the disc a sector lies, the drive without
  its timing model, a stream never set up by `sceCdStInit`.
- **Pacing and audio**: real time of the host.
- **Input, settings, UI, achievements, loading**: file and window I/O on one
  thread.
- **The translator** (`tools/recomp`): a compiler.
- **Limits of 127 threads, 255 semaphores, 64 passes, 5 s of idle**: the tables
  are exhausted only by a guest that leaks; the passes are a constant of
  `EEIntc`; the idle limit needs magnitudes of time.
