------------------------------- MODULE IpuDma -------------------------------
(***************************************************************************)
(* The IPU's input and output against DMAC channels 4 and 3: hw/ipu.cpp    *)
(* and the part of hw/dmac.cpp that starts, holds, stops and releases      *)
(* channels, driven the way the MPEG library in the guest drives them.     *)
(*                                                                         *)
(* The bit stream is divided into units (half bytes, say): ByteU units to  *)
(* a byte, QwU to a quadword. Quadword q of the stream lies at address q   *)
(* of guest memory; slot t of the ring, SlotQw quadwords long, is what     *)
(* chain tag t points at. What a unit holds matters only for the scan that *)
(* ends a BDEC: a unit is zero or not. Macroblocks leave as one output     *)
(* quadword each, and only their number matters.                           *)
(*                                                                         *)
(* A command runs inside the store that issues it, and everything a DMA    *)
(* register store sets off runs inside that store, so each action here is  *)
(* one such access. The file-scope state of the two files is one record,   *)
(* m, because their functions call each other in the middle: an operator   *)
(* takes the state a function is entered with and is the state it leaves.  *)
(* The operators named Bug... are the plausible mistakes the properties    *)
(* must catch; nothing here uses them.                                     *)
(***************************************************************************)
EXTENDS Integers, Sequences, FiniteSets

CONSTANTS
  QwU, ByteU,        \* units in a quadword, units in a byte
  Fifo,              \* kFifoQw: depth of the input FIFO in quadwords
  SlotQw, Slots,     \* quadwords in a slot of the ring, slots in the stream
  Peek,              \* units the start-code scan and the last read look at
  Commands,          \* what the guest may issue in chain mode
  Frames,            \* the CSC commands it may issue in normal mode
  Streams,           \* which units are zero: the sets to choose from
  MaxCmds, MaxStops, MaxHolds   \* bounds on the guest

Units == QwU * SlotQw * Slots

ASSUME UnitsAssumption ==
  /\ {QwU, ByteU, Fifo, SlotQw, Slots, Peek} \subseteq Nat \ {0}
  /\ QwU % ByteU = 0 /\ Peek % ByteU = 0
  /\ Peek <= Fifo * QwU                \* the fatal in ensure_bits
ASSUME CommandsAssumption ==
  /\ \A c \in Commands : c.op \in {"vdec", "setiq", "bdec"} /\ c.len \in Nat \ {0}
  /\ \A c \in Frames : /\ c.op = "csc" /\ {c.len, c.mbs} \subseteq Nat \ {0}
                       /\ c.len >= QwU              \* 384 bytes a macroblock
ASSUME StreamsAssumption == \A z \in Streams : z \subseteq 0..Units - 1
ASSUME BoundsAssumption == {MaxCmds, MaxStops, MaxHolds} \subseteq Nat

VARIABLES
  m,         \* the file-scope state of hw/ipu.cpp and hw/dmac.cpp
  lib,       \* the MPEG library: where its stop/restart bracket stands
  zeros,     \* the units of the stream that are zero
  hist,      \* history: where decoding has come to, macroblocks due
  used       \* what the guest has used of its bounds

vars == <<m, lib, zeros, hist, used>>

Least(a, b) == IF a < b THEN a ELSE b

(***************************************************************************)
(* The source of channel 4.                                                *)
(***************************************************************************)
DmaHeld(s) == s.suspend \/ ~s.dmae

\* Quadwords from the one holding unit `at' to the end of what was delivered.
QwFrom(s, at) ==
  LET head == at \div QwU IN IF Len(s.in) > head THEN Len(s.in) - head ELSE 0

BugFromHighWater(s) == Least(QwFrom(s, s.hw), Fifo + 1)

\* IFC + FP of IPU_BP: from the decode cursor, IFC saturating at the depth.
Resident(s) == Least(QwFrom(s, s.pos), Fifo + 1)

Avail(s) == IF Len(s.in) * QwU > s.pos THEN Len(s.in) * QwU - s.pos ELSE 0

Complete(s, ch) ==
  [s EXCEPT !.str = @ \ {ch}, !.raised = @ \cup {ch},
            !.active = @ /\ ch # "toIpu"]

\* No channel moves while the controller is held.
MayWalk(s) == s.active /\ ~DmaHeld(s)

BugRoomFromCursor(s) == QwFrom(s, s.pos) <= Fifo

\* The room the channel has is counted from the furthest the decoder has read,
\* not from the point a command that ran out of input went back to.
Room(s) == QwFrom(s, s.hw) <= Fifo

\* One turn of the loop of advance_walk; the state itself when it returns. A
\* slot of the ring that is not written yet reads as zero and ends the walk.
WalkTurn(s) ==
  LET last == ~s.chain \/ s.tagEnd
      copied == [s EXCEPT !.in = Append(@, s.madr), !.madr = @ + 1, !.qwc = @ - 1]
      tag == [s EXCEPT !.madr = s.tadr * SlotQw, !.qwc = SlotQw, !.tadr = @ + 1,
                       !.tagEnd = (s.tadr = s.published - 1)]
  IN CASE ~MayWalk(s) -> s
       [] MayWalk(s) /\ "toIpu" \notin s.str -> [s EXCEPT !.active = FALSE]
       [] OTHER ->
          IF s.qwc > 0
          THEN IF ~Room(s) THEN s
               ELSE IF copied.qwc = 0 /\ last THEN Complete(copied, "toIpu") ELSE copied
          ELSE IF last \/ s.tadr >= s.published THEN Complete(s, "toIpu") ELSE tag

\* Long enough to fill the FIFO past every tag and see the end of the chain.
WalkTurns == Fifo + Slots + 3

AdvanceWalk(s) ==
  LET turn[k \in 0..WalkTurns] == IF k = 0 THEN s ELSE WalkTurn(turn[k - 1])
  IN turn[WalkTurns]

\* One walk delivers all it can, so ensure_bits never gains by a second.
EnsureUnits(s, n) == IF Avail(s) >= n THEN s ELSE AdvanceWalk(s)

Advance(s, n) ==
  [s EXCEPT !.pos = @ + n, !.hw = IF s.pos + n > @ THEN s.pos + n ELSE @]

CompactIn(s) ==
  LET drop == Least(s.pos \div QwU, Len(s.in))
  IN [s EXCEPT !.in = SubSeq(@, drop + 1, Len(@)), !.pos = @ - drop * QwU,
               !.hw = IF @ > drop * QwU THEN @ - drop * QwU ELSE 0]

\* The stream unit at distance i from the cursor; the caller has ensured it.
UnitAt(s, i) ==
  LET at == s.pos + i IN s.in[(at \div QwU) + 1] * QwU + (at % QwU)

ZeroAhead(s, n) == \A i \in 0..n - 1 : UnitAt(s, i) \in zeros

(***************************************************************************)
(* The output queue and channel 3.                                         *)
(***************************************************************************)
DrainCh3(s) ==
  LET n == IF s.drainAll THEN s.out ELSE Least(s.out, s.qwc3)
      t == [s EXCEPT !.out = @ - n, !.taken = @ + n, !.qwc3 = @ - Least(n, @)]
      stopped == [s EXCEPT !.active3 = FALSE, !.drainAll = FALSE]
  IN IF ~s.active3 THEN s
     ELSE IF "fromIpu" \notin s.str THEN stopped
     ELSE IF (s.drainAll /\ t.out = 0) \/ (~s.drainAll /\ t.qwc3 = 0)
     THEN [Complete(t, "fromIpu") EXCEPT !.active3 = FALSE, !.drainAll = FALSE]
     ELSE t

(***************************************************************************)
(* A command, its retry snapshot and its retries.                          *)
(***************************************************************************)
BugSnapshotOldOutput(s) == [s EXCEPT !.snap = s.pos, !.snapPred = s.pred]

TakeSnapshot(s) == [s EXCEPT !.snap = s.pos, !.snapPred = s.pred, !.fresh = 0]

RestoreSnapshot(s) ==
  [s EXCEPT !.pos = s.snap, !.pred = s.snapPred, !.out = @ - s.fresh, !.fresh = 0]

CommitScan(s) == TakeSnapshot(CompactIn(s))

BugEmitUncommitted(s) ==
  LET pushed == [s EXCEPT !.out = @ + 1]
  IN DrainCh3(TakeSnapshot([pushed EXCEPT !.csc = IF s.cmd.op = "csc" THEN @ + 1 ELSE @]))

\* A macroblock out of the decoder: pushed, committed and offered to channel 3.
Emit(s) ==
  LET pushed == [s EXCEPT !.out = @ + 1, !.fresh = @ + 1]
      marked == IF s.cmd.op = "bdec" THEN [pushed EXCEPT !.tail = TRUE] ELSE pushed
      shot   == DrainCh3(TakeSnapshot(marked))
  IN IF s.cmd.op = "csc" THEN [shot EXCEPT !.csc = @ + 1] ELSE shot

\* A run of a command is a record: the state, the units still to read of the
\* part it is in, and the point it has reached. A turn is entered with what it
\* looks at ensured.
Needed(e) ==
  CASE e.at = "read"           -> 1
    [] e.at = "gate"           -> ByteU
    [] e.at \in {"run", "top"} -> Peek
    [] OTHER                   -> 0

ReadTurn(e) ==
  LET a == Advance(IF e.s.cmd.op = "bdec" /\ e.left = e.s.cmd.len
                   THEN [e.s EXCEPT !.pred = @ + 1] ELSE e.s, 1)
  IN [s |-> a, left |-> e.left - 1,
      at |-> IF e.left > 1 THEN "read"
             ELSE CASE e.s.cmd.op = "vdec" -> "top"
                    [] e.s.cmd.op = "setiq" -> "done"
                    [] OTHER -> "emit"]

EmitTurn(e) ==
  LET c == e.s.cmd
  IN [s |-> Emit(e.s), left |-> c.len,
      at |-> IF c.op = "bdec" THEN "gate"
             ELSE IF e.s.csc + 1 = c.mbs THEN "done" ELSE "read"]

Aligned(s) ==
  LET odd == s.pos % ByteU
  IN IF odd = 0 THEN s ELSE CommitScan(Advance(s, ByteU - odd))

BugGateForgotten(e) ==
  IF ~ZeroAhead(e.s, ByteU) THEN [e EXCEPT !.at = "top"]
  ELSE [e EXCEPT !.s = Aligned(@), !.at = "run"]

\* The gate, read before the cursor is aligned: once it has opened the run, a
\* retry resumes inside the run.
GateTurn(e) ==
  IF ~ZeroAhead(e.s, ByteU) THEN [e EXCEPT !.at = "top"]
  ELSE [e EXCEPT !.s = Aligned([@ EXCEPT !.run = TRUE]), !.at = "run"]

RunTurn(e) ==
  IF ZeroAhead(e.s, Peek) THEN [e EXCEPT !.s = CommitScan(Advance(@, ByteU))]
  ELSE [e EXCEPT !.s.flag = IF ZeroAhead(e.s, Peek - ByteU) THEN "scd" ELSE "ecd",
                 !.at = "top"]

\* "top" is the look at what follows that IPU_TOP answers with.
Turn(e) ==
  CASE Avail(e.s) < Needed(e) -> [e EXCEPT !.at = "starved"]
    [] OTHER ->
       CASE e.at = "read" -> ReadTurn(e)
         [] e.at = "emit" -> EmitTurn(e)
         [] e.at = "gate" -> GateTurn(e)
         [] e.at = "run"  -> RunTurn(e)
         [] e.at = "top"  -> [e EXCEPT !.at = "done"]
         [] OTHER         -> e

ExecTurn(e) == Turn([e EXCEPT !.s = EnsureUnits(@, Needed(e))])

ExecTurns == Units + Slots * SlotQw + 4

\* A retry enters a BDEC whose macroblock is out at its scan.
Exec(s) ==
  LET entry == IF s.tail THEN (IF s.run THEN "run" ELSE "gate") ELSE "read"
      turn[k \in 0..ExecTurns] ==
        IF k = 0 THEN [s |-> s, left |-> s.cmd.len, at |-> entry] ELSE ExecTurn(turn[k - 1])
  IN turn[ExecTurns]

Stalled(s) == [s EXCEPT !.stall = Len(s.in)]

\* What is left of a run: a completion, or the state a retry starts from.
Settle(e) ==
  IF e.at = "done"
  THEN DrainCh3([AdvanceWalk(CompactIn([e.s EXCEPT !.busy = FALSE]))
                 EXCEPT !.raised = @ \cup {"ipu"}])
  ELSE Stalled(AdvanceWalk(RestoreSnapshot(e.s)))

RunPending(s) ==
  IF ~s.busy THEN s
  ELSE Settle(Exec([RestoreSnapshot(s) EXCEPT !.flag = "none"]))

ServiceInput(s) ==
  LET t == AdvanceWalk(s)
  IN IF t.busy /\ Len(t.in) = t.stall THEN t ELSE RunPending(t)

CmdWrite(s, c) ==
  RunPending(TakeSnapshot(
    [s EXCEPT !.cmd = c, !.busy = TRUE, !.csc = 0, !.tail = FALSE, !.run = FALSE,
              !.flag = "none", !.raised = @ \ {"ipu"}]))

\* Clears the FIFO under a pending command, which carries on from bp.
Bclr(s, bp) ==
  [s EXCEPT !.in = <<>>, !.pos = bp, !.hw = bp, !.flag = "none",
            !.snap = IF s.busy THEN bp ELSE @, !.stall = IF s.busy THEN 0 ELSE @,
            !.raised = @ \cup {"ipu"}]

SoftReset(s) ==
  [s EXCEPT !.in = <<>>, !.pos = 0, !.hw = 0, !.out = 0, !.flag = "none", !.pred = 0,
            !.busy = FALSE, !.tail = FALSE, !.run = FALSE, !.active = FALSE,
            !.active3 = FALSE, !.drainAll = FALSE, !.raised = @ \cup {"ipu"}]

(***************************************************************************)
(* The controller: kicks, stops, holds. Channel "copy" stands for one of   *)
(* the channels that finish inside the store that starts them.             *)
(***************************************************************************)
DmaChannels == {"fromIpu", "toIpu", "copy"}

IpuDmaKick(s, ch) ==
  LET t == [s EXCEPT !.active = TRUE, !.tagEnd = FALSE]
  IN IF ch = "fromIpu"
     THEN DrainCh3([s EXCEPT !.active3 = TRUE, !.drainAll = (s.qwc3 = 0)])
     ELSE IF ~t.chain /\ t.qwc = 0 THEN Complete(t, "toIpu")
     ELSE DrainCh3(RunPending(AdvanceWalk(t)))

Kick(s, ch) == IF ch = "copy" THEN Complete(s, ch) ELSE IpuDmaKick(s, ch)

IpuDmaStop(s, ch) ==
  CASE ch = "toIpu"   -> [s EXCEPT !.active = FALSE]
    [] ch = "fromIpu" -> [s EXCEPT !.active3 = FALSE, !.drainAll = FALSE]
    [] OTHER          -> s

IpuDmaResume(s) ==
  IF ~s.active /\ ~s.active3 THEN s ELSE DrainCh3(RunPending(AdvanceWalk(s)))

BugStopKeepsQueued(s, ch, start) ==
  LET t == [s EXCEPT !.str = @ \cup {ch}]
  IN IF ~start THEN IpuDmaStop([s EXCEPT !.str = @ \ {ch}], ch)
     ELSE IF DmaHeld(s) THEN [t EXCEPT !.pending = @ \cup {ch}]
     ELSE Kick(t, ch)

\* A store to CHCR; start says whether STR is set in it.
ChcrWrite(s, ch, start) ==
  LET t == [s EXCEPT !.str = @ \cup {ch}]
      u == [s EXCEPT !.str = @ \ {ch}, !.pending = @ \ {ch}]
  IN IF ~start THEN IpuDmaStop(u, ch)
     ELSE IF DmaHeld(s) THEN [t EXCEPT !.pending = @ \cup {ch}]
     ELSE Kick(t, ch)

\* Every kick queued during the hold, in channel order (3, 4, 9).
ReleasePending(s) ==
  LET run(t, ch) == IF ch \in s.pending
                    THEN Kick([t EXCEPT !.pending = @ \ {ch}], ch) ELSE t
      all == run(run(run(s, "fromIpu"), "toIpu"), "copy")
  IN IF s.pending \cap {"fromIpu", "toIpu"} = {} THEN IpuDmaResume(all) ELSE all

\* A store to D_ENABLEW or to D_CTRL, of which one bit each matters.
HoldWrite(s, suspend, dmae) ==
  LET t == [s EXCEPT !.suspend = suspend, !.dmae = dmae]
  IN IF DmaHeld(s) /\ ~DmaHeld(t) THEN ReleasePending(t) ELSE t

\* The library's helper: suspend, one CHCR store, release, interrupts off.
Window(s, ch, start) ==
  HoldWrite(ChcrWrite(HoldWrite(s, TRUE, s.dmae), ch, start), FALSE, s.dmae)

\* Its teardown stores to three channels in one window.
TeardownWindow(s) ==
  LET t == HoldWrite(s, TRUE, s.dmae)
      u == ChcrWrite(ChcrWrite(ChcrWrite(t, "fromIpu", FALSE), "toIpu", FALSE), "copy", FALSE)
  IN HoldWrite(u, FALSE, s.dmae)

(***************************************************************************)
(* What a command does to an uninterrupted stream, for the properties.     *)
(***************************************************************************)
ZeroRun(u, n) == \A i \in u..u + n - 1 : i \in zeros
AlignUp(u) == ByteU * ((u + ByteU - 1) \div ByteU)

\* Where the scan that starts at byte boundary a stops.
ScanEnd(a) == CHOOSE k \in a..Units :
                /\ k % ByteU = 0 /\ ~ZeroRun(k, Peek)
                /\ \A j \in a..k - 1 : j % ByteU = 0 => ZeroRun(j, Peek)

\* After the macroblock that ends at v.
TailEnd(v) == IF ZeroRun(v, ByteU) THEN ScanEnd(AlignUp(v)) ELSE v

DecodeEnd(c, u) ==
  CASE c.op = "csc"  -> u + c.len * c.mbs
    [] c.op = "bdec" -> TailEnd(u + c.len)
    [] OTHER         -> u + c.len

DecodeFlag(c, u) ==
  LET v == u + c.len
  IN IF c.op # "bdec" \/ ~ZeroRun(v, ByteU) THEN "none"
     ELSE IF ZeroRun(TailEnd(v), Peek - ByteU) THEN "scd" ELSE "ecd"

Macroblocks(c) == CASE c.op = "csc" -> c.mbs [] c.op = "bdec" -> 1 [] OTHER -> 0

(***************************************************************************)
(* The guest. Its library works in brackets, one at a time (it holds the   *)
(* buffer's semaphore); commands are issued between them, and any thread   *)
(* may read an IPU register at any time.                                   *)
(***************************************************************************)
NoCmd == [op |-> "none", len |-> 1]

Machine(chain) ==
  [suspend |-> FALSE, dmae |-> TRUE, pending |-> {}, str |-> {}, raised |-> {},
   madr |-> 0, qwc |-> IF chain THEN 0 ELSE SlotQw * Slots, tadr |-> 0, published |-> 1,
   chain |-> chain, active |-> FALSE, tagEnd |-> FALSE,
   in |-> <<>>, pos |-> 0, hw |-> 0,
   busy |-> FALSE, cmd |-> NoCmd, snap |-> 0, snapPred |-> 0, fresh |-> 0, pred |-> 0,
   tail |-> FALSE, run |-> FALSE, csc |-> 0, stall |-> 0, flag |-> "none",
   active3 |-> FALSE, drainAll |-> FALSE, qwc3 |-> 0, out |-> 0, taken |-> 0]

Saved(s) == [madr |-> s.madr, qwc |-> s.qwc, tadr |-> s.tadr]

\* The library is about to start the channel it has just programmed.
Init ==
  /\ \E chain \in BOOLEAN : m = Machine(chain)
  /\ lib = [pc |-> "set", job |-> "play", regs |-> Saved(m), bp |-> 0, resident |-> 0]
  /\ zeros \in Streams
  /\ hist = [start |-> 0, expect |-> 0, due |-> 0]
  /\ used = [cmds |-> 0, stops |-> 0, holds |-> 0]

Goto(pc) == lib' = [lib EXCEPT !.pc = pc]
Spend(what) == used' = [used EXCEPT ![what] = @ + 1]

\* The library polls BUSY before a command, and asks for what the stream has.
Command(c) ==
  /\ lib.pc = "run" /\ ~m.busy /\ used.cmds < MaxCmds
  /\ DecodeEnd(c, hist.expect) + Peek <= Units
  /\ m' = CmdWrite(m, c)
  /\ hist' = [start |-> hist.expect, expect |-> DecodeEnd(c, hist.expect),
              due |-> hist.due + Macroblocks(c)]
  /\ Spend("cmds")
  /\ UNCHANGED <<lib, zeros>>

\* A read of IPU_CMD, IPU_CTRL, IPU_BP or IPU_TOP, from a BUSY poll mostly.
Poll ==
  /\ m' = ServiceInput(m)
  /\ UNCHANGED <<lib, zeros, hist, used>>

\* Arms channel 3 for n macroblocks, or for whatever is queued when n = 0; not
\* in a teardown, which the IPU's reset ends.
ArmOutput(n) ==
  /\ lib.pc = "run" \/ lib.job # "reset"
  /\ "fromIpu" \notin m.str /\ (n > 0 \/ m.out > 0)
  /\ m' = Window([m EXCEPT !.qwc3 = n, !.raised = @ \ {"fromIpu"}], "fromIpu", TRUE)
  /\ UNCHANGED <<lib, zeros, hist, used>>

\* Another user of the controller starts a transfer of its own.
StartCopy ==
  /\ "copy" \notin m.str /\ ~m.dmae
  /\ m' = Window([m EXCEPT !.raised = @ \ {"copy"}], "copy", TRUE)
  /\ UNCHANGED <<lib, zeros, hist, used>>

\* The controller is switched off and on again, whatever the library does.
HoldOff ==
  /\ m.dmae /\ used.holds < MaxHolds
  /\ m' = HoldWrite(m, m.suspend, FALSE)
  /\ Spend("holds")
  /\ UNCHANGED <<lib, zeros, hist>>

HoldOn ==
  /\ ~m.dmae
  /\ m' = HoldWrite(m, m.suspend, TRUE)
  /\ UNCHANGED <<lib, zeros, hist, used>>

\* Every bracket begins with a stop: to append to the ring, to restart the
\* channel at the decoder's position, or to play from the beginning.
StopDma(job) ==
  /\ lib.pc = "run"
  /\ IF job = "add" THEN m.published < Slots /\ UNCHANGED used
     ELSE used.stops < MaxStops /\ Spend("stops")
  /\ m.chain \/ job = "reset"
  /\ m' = IF job = "reset" THEN TeardownWindow(m) ELSE Window(m, "toIpu", FALSE)
  /\ lib' = [lib EXCEPT !.pc = "stopped", !.job = job]
  /\ UNCHANGED <<zeros, hist>>

\* viBufAddDMA: the closing tag becomes a REF and a REFE follows it.
Publish ==
  /\ lib.pc = "stopped" /\ lib.job = "add"
  /\ m' = [m EXCEPT !.published = @ + 1]
  /\ Goto("set")
  /\ UNCHANGED <<zeros, hist, used>>

\* viBufStopDMA: MADR, QWC and TADR first, IPU_BP when the output is empty.
ReadRegisters ==
  /\ lib.pc = "stopped" /\ lib.job = "restart"
  /\ lib' = [lib EXCEPT !.pc = "regs", !.regs = Saved(m)]
  /\ UNCHANGED <<m, zeros, hist, used>>

ReadBp ==
  /\ lib.pc = "regs"
  /\ m' = ServiceInput(m)
  /\ m'.out = 0
  /\ lib' = [lib EXCEPT !.pc = "bp", !.bp = m'.pos % QwU, !.resident = Resident(m')]
  /\ UNCHANGED <<zeros, hist, used>>

\* viBufRestartDMA: BCLR, the rewound registers, the start.
IssueBclr ==
  /\ lib.pc = "bp"
  /\ m' = Bclr(m, lib.bp)
  /\ Goto("cleared")
  /\ UNCHANGED <<zeros, hist, used>>

WriteRegisters ==
  /\ lib.pc = "cleared"
  /\ m' = [m EXCEPT !.madr = lib.regs.madr - lib.resident,
                    !.qwc = lib.regs.qwc + lib.resident, !.tadr = lib.regs.tadr]
  /\ Goto("set")
  /\ UNCHANGED <<zeros, hist, used>>

StartDma ==
  /\ lib.pc = "set"
  /\ m' = Window([m EXCEPT !.raised = @ \ {"toIpu"}], "toIpu", TRUE)
  /\ Goto("run")
  /\ UNCHANGED <<zeros, hist, used>>

\* The teardown's end: the IPU is reset and the stream starts over.
Reset ==
  /\ lib.pc = "stopped" /\ lib.job = "reset"
  /\ m' = SoftReset(m)
  /\ lib' = [lib EXCEPT !.pc = "cleared", !.resident = 0,
                        !.regs = Saved([Machine(m.chain) EXCEPT !.tadr = 0])]
  /\ hist' = [start |-> 0, expect |-> 0, due |-> m.taken]
  /\ UNCHANGED <<zeros, used>>

Next ==
  \/ \E c \in Commands : m.chain /\ Command(c)
  \/ \E c \in Frames : ~m.chain /\ Command(c)
  \/ Poll
  \/ \E n \in 0..2 : ArmOutput(n)
  \/ StartCopy
  \/ HoldOff
  \/ HoldOn
  \/ \E job \in {"add", "restart", "reset"} : StopDma(job)
  \/ Publish
  \/ ReadRegisters
  \/ ReadBp
  \/ IssueBclr
  \/ WriteRegisters
  \/ StartDma
  \/ Reset

Spec == Init /\ [][Next]_vars

\* The library's thread and the poller run on, the channel is armed and the
\* ring extended while there is stream left, the controller comes back on. An
\* action that changes the state whenever its guard holds is weakly fair
\* exactly when the guard is false, or the action happens, again and again.
LibraryDue == lib.pc # "run" /\ (lib.pc = "regs" => ServiceInput(m).out = 0)
LibraryStep == LibraryDue /\ lib'.pc # lib.pc
AddDue == lib.pc = "run" /\ m.chain /\ m.published < Slots

Fairness ==
  /\ WF_vars(\E n \in 1..2 : ArmOutput(n))
  /\ []<>(ServiceInput(m) = m) \/ []<><<Poll>>_vars
  /\ []<>m.dmae \/ []<><<HoldOn>>_vars
  /\ []<>~AddDue \/ []<><<StopDma("add")>>_vars
  /\ []<>~LibraryDue \/ []<><<LibraryStep>>_vars

FairSpec == Spec /\ Fairness

(***************************************************************************)
(* Properties.                                                             *)
(***************************************************************************)
AllCommands == Commands \cup Frames \cup {NoCmd}

\* Every variable has its type; a queue never holds more than was decoded or
\* delivered (g_in, g_out and the registers of hw/ipu.cpp and hw/dmac.cpp).
TypeOK ==
  /\ {m.suspend, m.dmae, m.chain, m.active, m.tagEnd, m.busy, m.tail, m.run,
      m.active3, m.drainAll} \subseteq BOOLEAN
  /\ m.pending \subseteq DmaChannels /\ m.str \subseteq DmaChannels
  /\ m.raised \subseteq DmaChannels \cup {"ipu"}
  /\ m.madr \in 0..SlotQw * Slots /\ m.qwc \in 0..SlotQw * Slots
  /\ m.tadr \in 0..Slots /\ m.published \in 1..Slots
  /\ m.in \in Seq(0..SlotQw * Slots - 1)
  /\ {m.pos, m.hw, m.snap, m.stall} \subseteq 0..Units
  /\ m.cmd \in AllCommands /\ m.flag \in {"none", "ecd", "scd"}
  /\ {m.pred, m.snapPred, m.fresh, m.csc, m.qwc3, m.out, m.taken} \subseteq Nat
  /\ lib.pc \in {"run", "stopped", "regs", "bp", "cleared", "set"}
  /\ lib.job \in {"play", "add", "restart", "reset"}

\* The stream position the library computes from the registers it can read.
StreamPosition(s) == (s.madr - Resident(s)) * QwU + (s.pos % QwU)

\* The formula MADR - (IFC + FP) * 16 + BP names the very unit the decoder
\* reads next: the end of the last command, or the point a pending command
\* will be retried from, through every stall, stop, BCLR and restart (the
\* contract at the top of hw/ipu.cpp). And what is resident is the stream
\* itself, nothing skipped and nothing twice.
PositionTold ==
  lib.pc # "cleared" =>
    /\ \A i \in DOMAIN m.in : m.in[i] = m.madr - Len(m.in) + i - 1
    /\ IF ~m.busy THEN StreamPosition(m) = hist.expect
       ELSE IF m.tail THEN StreamPosition(m) \in hist.start + m.cmd.len..hist.expect
       ELSE StreamPosition(m) = hist.start + m.csc * m.cmd.len

\* Each macroblock leaves once, however often its command was retried and
\* whenever channel 3 took it (restore_snapshot).
OutputOnce ==
  LET due == IF ~m.busy THEN hist.due
             ELSE hist.due - Macroblocks(m.cmd) + m.csc + (IF m.tail THEN 1 ELSE 0)
  IN m.taken + m.out = due /\ m.fresh = 0

\* What went in is accounted for by what the library is told, and by what came
\* out: a retry repeats nothing and skips nothing on either side.
StreamExact == PositionTold /\ OutputOnce

\* A command that completes reports the end of its scan as the stream has it,
\* not as the stall it was resumed from left it (bdec_tail_scan).
ResultExact ==
  [][m'.cmd # NoCmd /\ ~m'.busy /\ (m.busy \/ used'.cmds > used.cmds) /\ lib'.job # "reset"
       => m'.flag = DecodeFlag(m'.cmd, hist'.start)]_vars

\* CHCR.STR reads as set exactly while a transfer runs or is queued, nothing
\* is queued once the hold is gone, and a transfer the guest did not stop
\* ends with its interrupt (record_pending, release_pending, rt_ipu_dma_stop).
StrTruthful ==
  /\ ("toIpu" \in m.str) = (m.active \/ "toIpu" \in m.pending)
  /\ ("fromIpu" \in m.str) = (m.active3 \/ "fromIpu" \in m.pending)
  /\ ("copy" \in m.str) = ("copy" \in m.pending)
  /\ m.pending # {} => DmaHeld(m)
  /\ lib.pc = "run" /\ "toIpu" \notin m.str => "toIpu" \in m.raised

\* A command that ran out of input is completed once the stream is there: the
\* channel and the decoder never wait for each other (the full FIFO against
\* the retry's start, advance_walk and rt_ipu_dma_resume).
Answered == m.busy ~> ~m.busy
=============================================================================
